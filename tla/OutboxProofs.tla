---------------------------- MODULE OutboxProofs ----------------------------
(***************************************************************************)
(* What holds of the outbox for every set of recipients, keys and workers, *)
(* every batch size and limit, and every number of faults.                 *)
(***************************************************************************)
EXTENDS Outbox, TLAPS

USE DEF Ids

LEMMA BumpType ==
    \A n \in 0..GiveUp : /\ Bump(n) \in 0..GiveUp
                         /\ n <= Bump(n)
                         /\ Bump(n) > 0
                         /\ n = 0 => Bump(n) = 1
BY GiveUpAssumption DEF Bump

LEMMA States ==
    RowState = {"pending", "held_for_digest", "sending", "sent", "failed", "absent"}
BY DEF RowState, Live, Settled

-----------------------------------------------------------------------------
\* The table.
LEMMA EnqueueTable ==
    ASSUME TypeOK, NEW r \in Recipients, NEW k \in Keys \cup {NoKey},
           NEW m \in Modes, Enqueue(r, k, m)
    PROVE  TableType'
<1> USE DEF TypeOK, TableType
<1>1. rows + 1 \in Ids /\ rows' = rows + 1
  BY RowsAssumption DEF Enqueue
<1>2. [to |-> r, key |-> k, mode |-> m, items |-> {}] \in Body
  BY DEF Body
<1>3. body' \in [Ids -> Body]
  BY <1>1, <1>2 DEF Enqueue
<1>4. state' \in [Ids -> RowState] /\ due' \in [Ids -> BOOLEAN]
  BY <1>1, States DEF Enqueue
<1>5. \A i \in Ids : state'[i] = "absent" <=> i > rows'
  BY <1>1 DEF Enqueue
<1>6. rows' \in 0..MaxRows /\ oldUpTo' \in 0..rows'
  BY <1>1, RowsAssumption DEF Enqueue
<1>7. attempts' = attempts
  BY DEF Enqueue
<1> QED
  BY <1>3, <1>4, <1>5, <1>6, <1>7

LEMMA ClaimTable ==
    ASSUME TypeOK, NEW w \in Workers, Claim(w)
    PROVE  TableType' /\ batch' \in [Workers -> SUBSET Ids]
<1> USE DEF TypeOK, TableType
<1>1. PICK S \in SUBSET Claimable :
        /\ state' = [i \in Ids |-> IF i \in S THEN "sending" ELSE state[i]]
        /\ attempts' = [i \in Ids |-> IF i \in S THEN Bump(attempts[i])
                                      ELSE attempts[i]]
        /\ batch' = [batch EXCEPT ![w] = S]
  BY DEF Claim
<1>2. \A i \in S : i \in Ids /\ state[i] = "pending"
  BY DEF Claimable
<1>3. state' \in [Ids -> RowState]
  BY <1>1, States
<1>4. attempts' \in [Ids -> 0..GiveUp]
  BY <1>1, BumpType
<1>5. \A i \in Ids : state'[i] = "absent" <=> i > rows
  BY <1>1, <1>2
<1>6. batch' \in [Workers -> SUBSET Ids]
  BY <1>1, <1>2 DEF TickType
<1>7. UNCHANGED <<rows, due, body, oldUpTo>>
  BY DEF Claim
<1> QED
  BY <1>3, <1>4, <1>5, <1>6, <1>7

LEMMA DigestTable ==
    ASSUME TypeOK, NEW w \in Workers, DigestCommit(w)
    PROVE  TableType'
<1> USE DEF TypeOK, TableType
<1>0. PICK last \in rows..MaxRows : \E of \in [(rows + 1)..last -> Groups(w)] :
        /\ rows' = last
        /\ state' = [i \in Ids |->
              IF i \in DOMAIN of \cup Stalled THEN "pending"
              ELSE IF i \in Swept(w) THEN "sent" ELSE state[i]]
        /\ due' = [i \in Ids |-> i \in DOMAIN of \cup Stalled \/ due[i]]
        /\ body' = [i \in Ids |-> IF i \in DOMAIN of THEN Digest(w, of[i]) ELSE body[i]]
  BY DEF DigestCommit
<1>1. PICK of \in [(rows + 1)..last -> Groups(w)] :
        /\ rows' = last
        /\ state' = [i \in Ids |->
              IF i \in DOMAIN of \cup Stalled THEN "pending"
              ELSE IF i \in Swept(w) THEN "sent" ELSE state[i]]
        /\ due' = [i \in Ids |-> i \in DOMAIN of \cup Stalled \/ due[i]]
        /\ body' = [i \in Ids |-> IF i \in DOMAIN of THEN Digest(w, of[i]) ELSE body[i]]
  BY <1>0
<1>2. snap[w] \in SUBSET Ids
  BY DEF DigestType
<1>3. Groups(w) \subseteq Recipients \cup {Nobody}
  BY <1>2 DEF Body, Groups
<1>4. ASSUME NEW r \in Groups(w) PROVE Digest(w, r) \in Body
  <2>1. {i \in snap[w] : body[i].to = r} \in SUBSET Ids
    BY <1>2
  <2> QED
    BY <1>3, <2>1 DEF Body, Modes, Digest
<1>5. DOMAIN of = (rows + 1)..last /\ \A i \in DOMAIN of : of[i] \in Groups(w)
  OBVIOUS
<1>6. body' \in [Ids -> Body]
  BY <1>1, <1>4, <1>5
<1>7. state' \in [Ids -> RowState] /\ due' \in [Ids -> BOOLEAN]
  BY <1>1, States
<1>8. \A i \in Stalled \cup Swept(w) : i \in Ids /\ i <= rows
  BY RowsAssumption DEF Stalled, Held, Swept
<1>9. \A i \in Ids : state'[i] = "absent" <=> i > rows'
  BY <1>1, <1>5, <1>8, RowsAssumption
<1>10. rows' \in 0..MaxRows /\ oldUpTo' \in 0..rows' /\ attempts' = attempts
  BY <1>1, RowsAssumption DEF DigestCommit
<1> QED
  BY <1>6, <1>7, <1>9, <1>10

\* The steps that write one row, or age the table.
LEMMA RowStepTable ==
    ASSUME TypeOK,
           \/ \E i \in Ids : BackoffElapses(i)
           \/ \E n \in Ids : Age(n)
           \/ \E w \in Workers : MarkSent(w) \/ MarkSentThrows(w) \/ MarkFailed(w)
    PROVE  TableType'
<1> USE DEF TypeOK, TableType
<1>1. ASSUME NEW i \in Ids, BackoffElapses(i) PROVE TableType'
  BY <1>1 DEF BackoffElapses
<1>2. ASSUME NEW n \in Ids, Age(n) PROVE TableType'
  BY <1>2, RowsAssumption DEF Age
<1>3. ASSUME NEW w \in Workers, pc[w] \in {"accepted", "threw"}
      PROVE  cur[w] \in Ids /\ cur[w] <= rows
  BY <1>3, RowsAssumption DEF TickType
<1>4. ASSUME NEW w \in Workers, MarkSent(w) PROVE TableType'
  BY <1>3, <1>4, States DEF MarkSent
<1>5. ASSUME NEW w \in Workers, MarkFailed(w) PROVE TableType'
  BY <1>3, <1>5, States DEF MarkFailed
<1>6. ASSUME NEW w \in Workers, MarkSentThrows(w) PROVE TableType'
  BY <1>3, <1>6, States DEF MarkSentThrows
<1> QED
  BY <1>1, <1>2, <1>4, <1>5, <1>6

-----------------------------------------------------------------------------
\* The workers and the relay.  No step of theirs is longer than one worker's.
LEMMA SendTick ==
    ASSUME TypeOK, NEW w \in Workers, NEW i \in Ids,
           SendAccepted(w, i) \/ SendRefused(w, i) \/ SendUnanswered(w, i)
    PROVE  TickType' /\ RelayType' /\ batch' = batch /\ rows' = rows
<1> USE DEF TypeOK, TickType, RelayType
<1>1. PICK p \in {"accepted", "threw"} : pc' = [pc EXCEPT ![w] = p]
  BY DEF SendAccepted, SendRefused, SendUnanswered
<1>2. i \in batch[w] /\ cur' = [cur EXCEPT ![w] = i] /\ batch' = batch /\ rows' = rows
  BY DEF SendAccepted, SendRefused, SendUnanswered, tableVars
<1>3. TickType'
  BY <1>1, <1>2
<1>4. CASE SendAccepted(w, i)
  BY <1>2, <1>3, <1>4, BumpType DEF SendAccepted
<1>5. CASE SendRefused(w, i)
  BY <1>2, <1>3, <1>5 DEF SendRefused, relayVars
<1>6. CASE SendUnanswered(w, i)
  BY <1>2, <1>3, <1>6, BumpType DEF SendUnanswered
<1> QED
  BY <1>4, <1>5, <1>6

LEMMA AbandonTick ==
    ASSUME TypeOK, NEW w \in Workers, AbandonPass(w)
    PROVE  TickType' /\ \A v \in Workers : batch'[v] \subseteq batch[v]
BY DEF TypeOK, TickType, AbandonPass

LEMMA OutcomeTick ==
    ASSUME TypeOK, NEW w \in Workers, MarkSent(w) \/ MarkFailed(w)
    PROVE  TickType' /\ \A v \in Workers : batch'[v] \subseteq batch[v]
<1> USE DEF TypeOK, TickType
<1>1. /\ pc[w] \in {"accepted", "threw"}
      /\ pc' = [pc EXCEPT ![w] = "loop"]
      /\ batch' = [batch EXCEPT ![w] = @ \ {cur[w]}]
      /\ cur' = [cur EXCEPT ![w] = 0]
  BY DEF MarkSent, MarkFailed
<1> QED
  BY <1>1

LEMMA InitType == Init => TypeOK
<1> SUFFICES ASSUME Init PROVE TypeOK
  OBVIOUS
<1> USE DEF Init
<1>1. Blank \in Body
  BY DEF Blank, Body, Modes
<1>2. TableType
  BY <1>1, States, RowsAssumption, GiveUpAssumption DEF TableType
<1>3. TickType /\ DigestType /\ RelayType
  BY GiveUpAssumption DEF TickType, DigestType, RelayType
<1> QED
  BY <1>2, <1>3, FaultsAssumption DEF TypeOK

LEMMA StepType ==
    ASSUME TypeOK, [Next]_vars
    PROVE  TypeOK'
<1> USE DEF TypeOK
<1>1. ASSUME NEW r \in Recipients, NEW k \in Keys \cup {NoKey}, NEW m \in Modes,
             Enqueue(r, k, m)
      PROVE  TypeOK'
  <2>1. TableType'
    BY <1>1, EnqueueTable
  <2>2. rows' = rows + 1 /\ UNCHANGED <<tickVars, digestVars, relayVars, faults>>
    BY <1>1 DEF Enqueue
  <2>3. rows \in Nat
    BY RowsAssumption DEF TableType
  <2> QED
    BY <2>1, <2>2, <2>3
       DEF tickVars, digestVars, relayVars, TickType, DigestType, RelayType
<1>2. ASSUME \/ \E i \in Ids : BackoffElapses(i)
             \/ \E n \in Ids : Age(n)
      PROVE  TypeOK'
  <2>1. TableType'
    BY <1>2, RowStepTable
  <2>2. rows' = rows /\ UNCHANGED <<tickVars, digestVars, relayVars, faults>>
    BY <1>2 DEF BackoffElapses, Age
  <2> QED
    BY <2>1, <2>2
       DEF tickVars, digestVars, relayVars, TickType, DigestType, RelayType
<1>3. ASSUME NEW w \in Workers, Claim(w) PROVE TypeOK'
  <2>1. TableType' /\ batch' \in [Workers -> SUBSET Ids]
    BY <1>3, ClaimTable
  <2>2. PICK S \in SUBSET Claimable : batch' = [batch EXCEPT ![w] = S]
    BY <1>3 DEF Claim
  <2>3. S \subseteq 1..rows
    BY RowsAssumption DEF Claimable, TableType
  <2>4. /\ pc' = [pc EXCEPT ![w] = "loop"] /\ pc[w] = "idle"
        /\ UNCHANGED <<rows, cur, digestVars, relayVars, faults>>
    BY <1>3 DEF Claim
  <2>5. TickType'
    BY <2>1, <2>2, <2>4 DEF TickType
  <2>6. \A v \in Workers : batch'[v] \subseteq 1..rows'
    BY <2>2, <2>3, <2>4 DEF TickType
  <2> QED
    BY <2>1, <2>4, <2>5, <2>6 DEF digestVars, relayVars, DigestType, RelayType
<1>4. ASSUME NEW w \in Workers, Send(w) PROVE TypeOK'
  <2>1. PICK i \in Ids :
          SendAccepted(w, i) \/ SendRefused(w, i) \/ SendUnanswered(w, i)
    BY <1>4 DEF Send
  <2>2. TickType' /\ RelayType' /\ batch' = batch /\ rows' = rows
    BY <2>1, SendTick
  <2>3. UNCHANGED <<tableVars, digestVars, faults>>
    BY <2>1 DEF SendAccepted, SendRefused, SendUnanswered
  <2> QED
    BY <2>2, <2>3 DEF tableVars, digestVars, TableType, DigestType
<1>5. ASSUME NEW w \in Workers, MarkSent(w) \/ MarkFailed(w) PROVE TypeOK'
  <2>1. TableType'
    BY <1>5, RowStepTable
  <2>2. TickType' /\ \A v \in Workers : batch'[v] \subseteq batch[v]
    BY <1>5, OutcomeTick
  <2>3. rows' = rows /\ UNCHANGED <<digestVars, relayVars, faults>>
    BY <1>5 DEF MarkSent, MarkFailed
  <2> QED
    BY <2>1, <2>2, <2>3 DEF digestVars, relayVars, DigestType, RelayType
<1>6. ASSUME NEW w \in Workers, MarkSentThrows(w) PROVE TypeOK'
  <2>1. /\ pc[w] = "accepted" /\ pc' = [pc EXCEPT ![w] = "threw"]
        /\ suspect' = suspect \cup {cur[w]} /\ faults < MaxFaults /\ faults' = faults + 1
        /\ UNCHANGED <<rows, batch, cur, digestVars, accepted>>
    BY <1>6 DEF MarkSentThrows
  <2>2. TickType' /\ RelayType'
    BY <2>1 DEF TickType, RelayType
  <2>3. TableType' /\ DigestType' /\ rows' = rows
    BY <1>6, <2>1, RowStepTable DEF digestVars, DigestType
  <2>4. faults' \in 0..MaxFaults
    BY <2>1, FaultsAssumption
  <2> QED
    BY <2>1, <2>2, <2>3, <2>4
<1>7. ASSUME NEW w \in Workers,
             MarkFailedClashes(w) \/ MarkFailedThrows(w) \/ Crash(w)
      PROVE  TypeOK'
  <2>1. AbandonPass(w) /\ UNCHANGED <<tableVars, accepted>>
    BY <1>7 DEF MarkFailedClashes, MarkFailedThrows, Crash, relayVars
  <2>2. TickType' /\ \A v \in Workers : batch'[v] \subseteq batch[v]
    BY <2>1, AbandonTick
  <2>3. TableType' /\ rows' = rows
    BY <2>1 DEF tableVars, TableType
  <2>4. DigestType'
    BY <1>7 DEF MarkFailedClashes, MarkFailedThrows, Crash, digestVars, DigestType
  <2>5. RelayType'
    BY <1>7 DEF MarkFailedClashes, MarkFailedThrows, Crash, relayVars, RelayType, TickType
  <2>6. faults' \in 0..MaxFaults
    BY <1>7, FaultsAssumption DEF MarkFailedClashes, MarkFailedThrows, Crash
  <2> QED
    BY <2>2, <2>3, <2>4, <2>5, <2>6
<1>8. ASSUME NEW w \in Workers, FinishPass(w) PROVE TypeOK'
  <2>1. /\ pc[w] = "loop" /\ batch[w] = {} /\ pc' = [pc EXCEPT ![w] = "idle"]
        /\ UNCHANGED <<tableVars, batch, cur, digestVars, relayVars, faults>>
    BY <1>8 DEF FinishPass
  <2>2. TickType'
    BY <2>1 DEF TickType
  <2> QED
    BY <2>1, <2>2
       DEF tableVars, digestVars, relayVars, TableType, DigestType, RelayType
<1>9. ASSUME NEW w \in Workers, DigestRead(w) PROVE TypeOK'
  <2>1. /\ building' = [building EXCEPT ![w] = TRUE]
        /\ snap' = [snap EXCEPT ![w] = Held]
        /\ UNCHANGED <<tableVars, tickVars, relayVars, faults>>
    BY <1>9 DEF DigestRead
  <2>2. DigestType'
    BY <2>1 DEF DigestType, Held
  <2> QED
    BY <2>1, <2>2 DEF tableVars, tickVars, relayVars, TableType, TickType, RelayType
<1>10. ASSUME NEW w \in Workers, DigestCommit(w) PROVE TypeOK'
  <2>1. TableType'
    BY <1>10, DigestTable
  <2>2. /\ building' = [building EXCEPT ![w] = FALSE]
        /\ snap' = [snap EXCEPT ![w] = {}]
        /\ suspect' = suspect \cup (Stalled \cap InHand)
        /\ UNCHANGED <<tickVars, accepted, faults>>
    BY <1>10 DEF DigestCommit
  <2>3. rows' \in rows..MaxRows
    BY <1>10 DEF DigestCommit
  <2>4. DigestType' /\ RelayType'
    BY <2>2 DEF DigestType, RelayType, Stalled
  <2>5. \A v \in Workers : batch'[v] \subseteq 1..rows'
    BY <2>2, <2>3, RowsAssumption DEF tickVars, TableType
  <2> QED
    BY <2>1, <2>2, <2>4, <2>5 DEF tickVars, TickType
<1>11. CASE UNCHANGED vars
  <2>1. UNCHANGED <<tableVars, tickVars, digestVars, relayVars, faults>>
    BY <1>11 DEF vars
  <2> QED
    BY <2>1 DEF tableVars, tickVars, digestVars, relayVars,
                TableType, TickType, DigestType, RelayType
<1> QED
  BY <1>1, <1>2, <1>3, <1>4, <1>5, <1>6, <1>7, <1>8, <1>9, <1>10, <1>11
     DEF Next, TickStep

\* Every variable keeps its type, and a worker in the middle of a delivery
\* has the row it delivers in its batch.
THEOREM TypeCorrect == Spec => []TypeOK
BY InitType, StepType, PTL DEF Spec

-----------------------------------------------------------------------------
\* What a digest pass does to a row.
LEMMA DigestRows ==
    ASSUME TypeOK, NEW w \in Workers, DigestCommit(w), NEW i \in Ids
    PROVE  /\ i <= rows =>
                /\ body'[i] = body[i]
                /\ state'[i] = IF i \in Stalled THEN "pending"
                               ELSE IF i \in Swept(w) THEN "sent" ELSE state[i]
           /\ i > rows =>
                /\ state[i] = "absent"
                /\ \/ state'[i] = "absent" /\ body'[i] = body[i]
                   \/ /\ state'[i] = "pending"
                      /\ body'[i].key = NoKey /\ body'[i].mode = "immediate"
<1> USE DEF TypeOK, TableType
<1>0. PICK last \in rows..MaxRows : \E of \in [(rows + 1)..last -> Groups(w)] :
        /\ state' = [j \in Ids |->
              IF j \in DOMAIN of \cup Stalled THEN "pending"
              ELSE IF j \in Swept(w) THEN "sent" ELSE state[j]]
        /\ body' = [j \in Ids |-> IF j \in DOMAIN of THEN Digest(w, of[j]) ELSE body[j]]
  BY DEF DigestCommit
<1>1. PICK of \in [(rows + 1)..last -> Groups(w)] :
        /\ state' = [j \in Ids |->
              IF j \in DOMAIN of \cup Stalled THEN "pending"
              ELSE IF j \in Swept(w) THEN "sent" ELSE state[j]]
        /\ body' = [j \in Ids |-> IF j \in DOMAIN of THEN Digest(w, of[j]) ELSE body[j]]
  BY <1>0
<1>2. DOMAIN of = (rows + 1)..last
  OBVIOUS
<1>3. i > rows => i \notin Stalled /\ i \notin Swept(w)
  BY DEF Stalled, Swept, Held
<1>4. \A r : Digest(w, r).key = NoKey /\ Digest(w, r).mode = "immediate"
  BY DEF Digest
<1> QED
  BY <1>1, <1>2, <1>3, <1>4, RowsAssumption

\* The same, by what the row was before.
LEMMA DigestMoves ==
    ASSUME TypeOK, NEW w \in Workers, DigestCommit(w), NEW i \in Ids
    PROVE  \/ state'[i] = state[i] /\ body'[i] = body[i]
           \/ /\ state[i] = "sending" /\ state'[i] = "pending"
              /\ body'[i] = body[i]
           \/ /\ state[i] = "held_for_digest" /\ state'[i] = "sent"
              /\ body'[i] = body[i]
           \/ /\ state[i] = "absent" /\ state'[i] = "pending"
              /\ body'[i].mode = "immediate"
<1>1. rows \in Nat /\ i \in Nat
  BY RowsAssumption DEF TypeOK, TableType
<1>2. i \in Stalled => state[i] = "sending"
  BY DEF Stalled
<1>3. i \in Swept(w) => state[i] = "held_for_digest"
  BY DEF Swept, Held
<1>4. CASE i <= rows
  BY <1>2, <1>3, <1>4, DigestRows
<1>5. CASE i > rows
  BY <1>5, DigestRows
<1> QED
  BY <1>1, <1>4, <1>5

LEMMA CustodyInit == Init => Custody
BY DEF Init, Custody

LEMMA CustodyStep ==
    ASSUME TypeOK, Custody, [Next]_vars
    PROVE  Custody'
<1> SUFFICES ASSUME NEW i \in Ids, i \notin suspect'
             PROVE  /\ \A v, w \in Workers : i \in batch'[v] /\ i \in batch'[w] => v = w
                    /\ \A w \in Workers : i \in batch'[w] => state'[i] = "sending"
                    /\ accepted'[i] \in {0, 1}
                    /\ accepted'[i] = 1 =>
                         \/ state'[i] = "sent"
                         \/ \E w \in Workers : pc'[w] = "accepted" /\ cur'[w] = i
  BY DEF Custody
<1> DEFINE Goal == /\ \A v, w \in Workers : i \in batch'[v] /\ i \in batch'[w] => v = w
                   /\ \A w \in Workers : i \in batch'[w] => state'[i] = "sending"
                   /\ accepted'[i] \in {0, 1}
                   /\ accepted'[i] = 1 =>
                        \/ state'[i] = "sent"
                        \/ \E w \in Workers : pc'[w] = "accepted" /\ cur'[w] = i
<1> USE DEF TypeOK, TickType
<1>0. i \notin suspect => /\ \A v, w \in Workers : i \in batch[v] /\ i \in batch[w] => v = w
                          /\ \A w \in Workers : i \in batch[w] => state[i] = "sending"
                          /\ accepted[i] \in {0, 1}
                          /\ accepted[i] = 1 =>
                               \/ state[i] = "sent"
                               \/ \E w \in Workers : pc[w] = "accepted" /\ cur[w] = i
  BY DEF Custody
\* A row the relay has and that is not marked sent is being sent.
<1>a. i \notin suspect /\ accepted[i] = 1 => state[i] \in {"sent", "sending"}
  BY <1>0
<1>1. ASSUME NEW r \in Recipients, NEW k \in Keys \cup {NoKey}, NEW m \in Modes,
             Enqueue(r, k, m)
      PROVE  Goal
  <2>1. UNCHANGED <<pc, batch, cur, accepted, suspect>>
    BY <1>1 DEF Enqueue, tickVars, relayVars
  <2>2. state'[i] # state[i] => state[i] = "absent"
    BY <1>1, RowsAssumption DEF Enqueue, TableType
  <2> QED
    BY <1>0, <1>a, <2>1, <2>2
<1>2. ASSUME \/ \E j \in Ids : BackoffElapses(j)
             \/ \E n \in Ids : Age(n)
      PROVE  Goal
  <2>1. UNCHANGED <<state, pc, batch, cur, accepted, suspect>>
    BY <1>2 DEF BackoffElapses, Age, tickVars, relayVars
  <2> QED
    BY <1>0, <2>1
<1>3. ASSUME NEW w \in Workers, Claim(w) PROVE Goal
  <2>1. PICK S \in SUBSET Claimable :
          /\ state' = [j \in Ids |-> IF j \in S THEN "sending" ELSE state[j]]
          /\ batch' = [batch EXCEPT ![w] = S]
    BY <1>3 DEF Claim
  <2>2. /\ pc[w] = "idle" /\ pc' = [pc EXCEPT ![w] = "loop"]
        /\ UNCHANGED <<cur, accepted, suspect>>
    BY <1>3 DEF Claim, relayVars
  <2>3. i \in S => state[i] = "pending"
    BY DEF Claimable
  <2> QED
    BY <1>0, <1>a, <2>1, <2>2, <2>3
<1>4. ASSUME NEW w \in Workers, NEW j \in Ids,
             SendAccepted(w, j) \/ SendRefused(w, j) \/ SendUnanswered(w, j)
      PROVE  Goal
  <2>1. /\ pc[w] = "loop" /\ j \in batch[w]
        /\ UNCHANGED <<state, batch>>
        /\ cur' = [cur EXCEPT ![w] = j]
    BY <1>4 DEF SendAccepted, SendRefused, SendUnanswered, tableVars
  <2>2. CASE SendAccepted(w, j)
    <3>1. /\ pc' = [pc EXCEPT ![w] = "accepted"] /\ suspect' = suspect
          /\ accepted' = [accepted EXCEPT ![j] = Bump(@)]
      BY <2>2 DEF SendAccepted
    <3>2. CASE i # j
      BY <1>0, <2>1, <3>1, <3>2
    <3>3. CASE i = j
      <4>1. state[i] = "sending" /\ accepted[i] = 0
        BY <1>0, <2>1, <3>1, <3>3
      <4>2. accepted'[i] = 1
        BY <3>1, <3>3, <4>1, BumpType, GiveUpAssumption DEF RelayType
      <4> QED
        BY <1>0, <2>1, <3>1, <3>3, <4>2
    <3> QED
      BY <3>2, <3>3
  <2>3. CASE SendRefused(w, j)
    BY <1>0, <2>1, <2>3 DEF SendRefused, relayVars
  <2>4. CASE SendUnanswered(w, j)
    <3>1. /\ pc' = [pc EXCEPT ![w] = "threw"] /\ suspect' = suspect \cup {j}
          /\ accepted' = [accepted EXCEPT ![j] = Bump(@)]
      BY <2>4 DEF SendUnanswered
    <3> QED
      BY <1>0, <2>1, <3>1
  <2> QED
    BY <1>4, <2>2, <2>3, <2>4
<1>5. ASSUME NEW w \in Workers, MarkSent(w) PROVE Goal
  <2>1. /\ pc[w] = "accepted" /\ pc' = [pc EXCEPT ![w] = "loop"]
        /\ batch' = [batch EXCEPT ![w] = @ \ {cur[w]}]
        /\ cur' = [cur EXCEPT ![w] = 0]
        /\ state' = [state EXCEPT ![cur[w]] = "sent"]
        /\ UNCHANGED <<accepted, suspect>>
    BY <1>5 DEF MarkSent, relayVars
  <2>2. CASE i = cur[w]
    BY <1>0, <2>1, <2>2 DEF TableType
  <2>3. CASE i # cur[w]
    BY <1>0, <2>1, <2>3 DEF TableType
  <2> QED
    BY <2>2, <2>3
<1>6. ASSUME NEW w \in Workers, MarkSentThrows(w) PROVE Goal
  <2>1. i # cur[w]
    BY <1>6 DEF MarkSentThrows
  <2>2. state'[i] = state[i]
    BY <1>6, <2>1 DEF MarkSentThrows, TableType
  <2> QED
    BY <1>0, <1>6, <2>1, <2>2 DEF MarkSentThrows
<1>7. ASSUME NEW w \in Workers, MarkFailed(w) PROVE Goal
  <2>1. PICK next \in {"failed", "pending"} :
          state' = [state EXCEPT ![cur[w]] = next]
    BY <1>7 DEF MarkFailed
  <2>2. /\ pc[w] = "threw" /\ pc' = [pc EXCEPT ![w] = "loop"]
        /\ batch' = [batch EXCEPT ![w] = @ \ {cur[w]}]
        /\ cur' = [cur EXCEPT ![w] = 0]
        /\ UNCHANGED <<accepted, suspect>>
    BY <1>7 DEF MarkFailed, relayVars
  <2>3. CASE i = cur[w]
    <3>1. i \in batch[w]
      BY <2>2, <2>3
    <3>2. accepted[i] = 0
      BY <1>0, <2>2, <3>1
    <3> QED
      BY <1>0, <2>2, <2>3, <3>1, <3>2
  <2>4. CASE i # cur[w]
    BY <1>0, <2>1, <2>2, <2>4 DEF TableType
  <2> QED
    BY <2>3, <2>4
<1>8. ASSUME NEW w \in Workers,
             MarkFailedClashes(w) \/ MarkFailedThrows(w) \/ Crash(w)
      PROVE  Goal
  <2>1. AbandonPass(w) /\ UNCHANGED <<state, accepted>>
    BY <1>8 DEF MarkFailedClashes, MarkFailedThrows, Crash, tableVars, relayVars
  <2>2. i \notin suspect /\ ~ (pc[w] = "accepted" /\ cur[w] = i)
    BY <1>8 DEF MarkFailedClashes, MarkFailedThrows, Crash, relayVars
  <2> QED
    BY <1>0, <2>1, <2>2 DEF AbandonPass
<1>9. ASSUME NEW w \in Workers, FinishPass(w) PROVE Goal
  BY <1>0, <1>9 DEF FinishPass, tableVars, relayVars
<1>10. ASSUME NEW w \in Workers, DigestRead(w) PROVE Goal
  BY <1>0, <1>10 DEF DigestRead, tableVars, tickVars, relayVars
<1>11. ASSUME NEW w \in Workers, DigestCommit(w) PROVE Goal
  <2>1. /\ suspect' = suspect \cup (Stalled \cap InHand)
        /\ UNCHANGED <<pc, batch, cur, accepted>>
    BY <1>11 DEF DigestCommit, tickVars
  <2>2. i \notin suspect /\ (i \in Stalled => i \notin InHand)
    BY <2>1
  <2>3. i \in Stalled => /\ \A v \in Workers : i \notin batch[v]
                         /\ state[i] = "sending"
    BY <2>2 DEF InHand, Stalled
  <2>4. i \in Stalled => accepted[i] = 0
    BY <1>0, <2>2, <2>3
  <2>5. i \notin Stalled =>
            state'[i] = state[i] \/ state[i] \in {"absent", "held_for_digest"}
    BY <1>11, DigestRows, RowsAssumption DEF Swept, Held, TableType
  <2> QED
    BY <1>0, <1>a, <2>1, <2>2, <2>3, <2>4, <2>5
<1>12. CASE UNCHANGED vars
  BY <1>0, <1>12 DEF vars, tableVars, tickVars, relayVars
<1> QED
  BY <1>1, <1>2, <1>3, <1>4, <1>5, <1>6, <1>7, <1>8, <1>9, <1>10, <1>11, <1>12
     DEF Next, TickStep, Send

\* As long as no worker dies, no reply is lost and no row is taken from a
\* worker that has it, the relay gets every message at most once, however
\* many workers there are and however their passes interleave.
THEOREM NoSilentDuplicate == Spec => []DuplicateOnlyIfSuspect
<1>1. TypeOK /\ Custody => DuplicateOnlyIfSuspect
  BY DEF Custody, DuplicateOnlyIfSuspect
<1> QED
  BY <1>1, TypeCorrect, CustodyInit, CustodyStep, PTL DEF Spec

-----------------------------------------------------------------------------
LEMMA DedupeStep ==
    ASSUME TypeOK, DedupeUnique, [Next]_vars
    PROVE  DedupeUnique'
<1> SUFFICES ASSUME NEW i \in Ids, NEW j \in Ids, i # j,
                    state'[i] \in Live, state'[j] \in Live,
                    body'[i].key # NoKey, body'[i].key = body'[j].key
             PROVE  body'[i].to # body'[j].to
  BY DEF DedupeUnique
<1> USE DEF TypeOK, TableType
\* Nothing changes between two rows that were live before and keep their
\* bodies.
<1>a. ASSUME body' = body, state[i] \in Live, state[j] \in Live
      PROVE  body'[i].to # body'[j].to
  BY <1>a DEF DedupeUnique
<1>1. ASSUME NEW r \in Recipients, NEW k \in Keys \cup {NoKey}, NEW m \in Modes,
             Enqueue(r, k, m)
      PROVE  body'[i].to # body'[j].to
  <2> DEFINE new == rows + 1
  <2>1. /\ new \in Ids /\ state[new] = "absent"
        /\ \A l \in Ids : l # new => state'[l] = state[l] /\ body'[l] = body[l]
        /\ body'[new].to = r /\ body'[new].key = k
        /\ \A l \in Ids : ~ (k # NoKey /\ state[l] \in Live
                             /\ body[l].to = r /\ body[l].key = k)
    BY <1>1, RowsAssumption DEF Enqueue
  <2> HIDE DEF new
  <2>2. CASE i # new /\ j # new
    BY <2>1, <2>2 DEF DedupeUnique
  <2>3. CASE i = new
    BY <2>1, <2>3
  <2>4. CASE j = new
    BY <2>1, <2>4
  <2> QED
    BY <2>2, <2>3, <2>4
<1>2. ASSUME \/ \E l \in Ids : BackoffElapses(l)
             \/ \E n \in Ids : Age(n)
      PROVE  body'[i].to # body'[j].to
  BY <1>a, <1>2 DEF BackoffElapses, Age
<1>3. ASSUME NEW w \in Workers, Claim(w) PROVE body'[i].to # body'[j].to
  <2>1. PICK S \in SUBSET Claimable :
          state' = [l \in Ids |-> IF l \in S THEN "sending" ELSE state[l]]
    BY <1>3 DEF Claim
  <2>2. \A l \in S : state[l] \in Live
    BY DEF Claimable, Live
  <2> QED
    BY <1>a, <1>3, <2>1, <2>2 DEF Claim
<1>4. ASSUME NEW w \in Workers,
             \/ Send(w) \/ MarkFailedClashes(w) \/ MarkFailedThrows(w)
             \/ FinishPass(w) \/ DigestRead(w) \/ Crash(w)
      PROVE  body'[i].to # body'[j].to
  <2>1. UNCHANGED tableVars
    BY <1>4 DEF Send, SendAccepted, SendRefused, SendUnanswered, MarkFailedClashes,
                MarkFailedThrows, FinishPass, DigestRead, Crash
  <2> QED
    BY <1>a, <2>1 DEF tableVars
<1>5. ASSUME NEW w \in Workers, MarkSent(w) \/ MarkSentThrows(w)
      PROVE  body'[i].to # body'[j].to
  BY <1>a, <1>5 DEF MarkSent, MarkSentThrows, Live
<1>6. ASSUME NEW w \in Workers, MarkFailed(w) PROVE body'[i].to # body'[j].to
  <2>1. PICK next \in {"failed", "pending"} :
          /\ next = "failed" \/ \A l \in Ids : ~ Clashes(cur[w], l)
          /\ state' = [state EXCEPT ![cur[w]] = next]
    BY <1>6 DEF MarkFailed
  <2>2. body' = body
    BY <1>6 DEF MarkFailed
  <2>3. CASE i # cur[w] /\ j # cur[w]
    BY <1>a, <2>1, <2>2, <2>3
  <2>4. CASE i = cur[w]
    BY <2>1, <2>2, <2>4 DEF Clashes, Live
  <2>5. CASE j = cur[w]
    BY <2>1, <2>2, <2>5 DEF Clashes, Live
  <2> QED
    BY <2>3, <2>4, <2>5
<1>7. ASSUME NEW w \in Workers, DigestCommit(w) PROVE body'[i].to # body'[j].to
  <2>1. ASSUME NEW l \in Ids, state'[l] \in Live, body'[l].key # NoKey
        PROVE  state[l] \in Live /\ body'[l] = body[l]
    BY <1>7, <2>1, DigestRows, RowsAssumption DEF Live, Stalled
  <2> QED
    BY <2>1 DEF DedupeUnique
<1>8. CASE UNCHANGED vars
  BY <1>a, <1>8 DEF vars, tableVars
<1> QED
  BY <1>1, <1>2, <1>3, <1>4, <1>5, <1>6, <1>7, <1>8 DEF Next, TickStep

\* No recipient ever has two live messages with one key.
THEOREM NoLiveDuplicate == Spec => []DedupeUnique
<1>1. Init => DedupeUnique
  BY DEF Init, DedupeUnique, Live
<1> QED
  BY <1>1, TypeCorrect, DedupeStep, PTL DEF Spec

-----------------------------------------------------------------------------
\* Why a held row is never mailed by itself, and why a row that is marked sent
\* was delivered: only rows that were queued to be sent at once get into a
\* batch, and a worker that believes a message accepted is right.
Delivery ==
    /\ \A i \in Ids :
        /\ state[i] = "absent" => accepted[i] = 0 /\ body[i].mode = "immediate"
        /\ state[i] = "held_for_digest" => body[i].mode = "digest"
        /\ body[i].mode = "digest" => \A w \in Workers : i \notin batch[w]
    /\ \A w \in Workers : pc[w] = "accepted" => accepted[cur[w]] > 0
    /\ HeldNeverMailedAlone
    /\ SentWasDelivered

LEMMA DeliveryInit == Init => Delivery
BY DEF Init, Delivery, HeldNeverMailedAlone, SentWasDelivered, Blank

LEMMA DeliveryStep ==
    ASSUME TypeOK, Delivery, [Next]_vars
    PROVE  Delivery'
<1> USE DEF TypeOK, TableType, TickType, RelayType, Delivery,
            HeldNeverMailedAlone, SentWasDelivered
<1>1. ASSUME NEW r \in Recipients, NEW k \in Keys \cup {NoKey}, NEW m \in Modes,
             Enqueue(r, k, m)
      PROVE  Delivery'
  <2> DEFINE new == rows + 1
  <2>1. /\ new \in Ids /\ state[new] = "absent"
        /\ \A l \in Ids : l # new => state'[l] = state[l] /\ body'[l] = body[l]
        /\ body'[new].mode = m
        /\ state'[new] = IF m = "digest" THEN "held_for_digest" ELSE "pending"
        /\ UNCHANGED <<pc, batch, cur, accepted>>
    BY <1>1, RowsAssumption DEF Enqueue, tickVars, relayVars
  <2>2. \A w \in Workers : new \notin batch[w]
    BY RowsAssumption
  <2> HIDE DEF new
  <2>3. m = "digest" \/ m = "immediate"
    BY DEF Modes
  <2>4. ASSUME NEW i \in Ids
        PROVE  /\ state'[i] = "absent" => accepted[i] = 0 /\ body'[i].mode = "immediate"
               /\ state'[i] = "held_for_digest" => body'[i].mode = "digest"
               /\ body'[i].mode = "digest" =>
                    /\ \A v \in Workers : i \notin batch[v]
                    /\ accepted[i] = 0 /\ state'[i] \in {"held_for_digest", "sent"}
               /\ state'[i] = "sent" /\ body'[i].mode = "immediate" => accepted[i] > 0
    <3>1. CASE i = new
      BY <2>1, <2>2, <2>3, <3>1
    <3>2. CASE i # new
      BY <2>1, <3>2
    <3> QED
      BY <3>1, <3>2
  <2>5. \A v \in Workers : pc'[v] = "accepted" => accepted'[cur'[v]] > 0
    BY <2>1
  <2> HIDE DEF TypeOK, TableType
  <2> QED
    BY <2>1, <2>4, <2>5
<1>2. ASSUME \/ \E i \in Ids : BackoffElapses(i)
             \/ \E n \in Ids : Age(n)
      PROVE  Delivery'
  BY <1>2 DEF BackoffElapses, Age, tickVars, relayVars
<1>3. ASSUME NEW w \in Workers, Claim(w) PROVE Delivery'
  <2>1. PICK S \in SUBSET Claimable :
          /\ state' = [j \in Ids |-> IF j \in S THEN "sending" ELSE state[j]]
          /\ batch' = [batch EXCEPT ![w] = S]
    BY <1>3 DEF Claim
  <2>2. /\ pc' = [pc EXCEPT ![w] = "loop"]
        /\ UNCHANGED <<body, cur, accepted>>
    BY <1>3 DEF Claim, relayVars
  <2>3. \A i \in S : i \in Ids /\ state[i] = "pending" /\ body[i].mode # "digest"
    BY DEF Claimable
  <2> QED
    BY <2>1, <2>2, <2>3
<1>4. ASSUME NEW w \in Workers, NEW i \in Ids,
             SendAccepted(w, i) \/ SendRefused(w, i) \/ SendUnanswered(w, i)
      PROVE  Delivery'
  <2>1. UNCHANGED <<state, body, batch>>
    BY <1>4 DEF SendAccepted, SendRefused, SendUnanswered, tableVars
  <2>2. i \in batch[w] /\ i <= rows /\ state[i] # "absent" /\ body[i].mode # "digest"
    BY <1>4, RowsAssumption DEF SendAccepted, SendRefused, SendUnanswered
  <2>3. CASE SendRefused(w, i)
    BY <2>1, <2>3 DEF SendRefused, relayVars
  <2>4. CASE SendAccepted(w, i) \/ SendUnanswered(w, i)
    <3>1. accepted' = [accepted EXCEPT ![i] = Bump(@)]
      BY <2>4 DEF SendAccepted, SendUnanswered
    <3>2. /\ accepted'[i] > 0
          /\ \A j \in Ids : j # i => accepted'[j] = accepted[j]
      BY <3>1, BumpType
    <3>3. PICK p \in {"accepted", "threw"} :
            pc' = [pc EXCEPT ![w] = p] /\ cur' = [cur EXCEPT ![w] = i]
      BY <2>4 DEF SendAccepted, SendUnanswered
    <3>4. \A v \in Workers : pc'[v] = "accepted" => accepted'[cur'[v]] > 0
      <4> TAKE v \in Workers
      <4>1. CASE v = w
        BY <3>2, <3>3, <4>1
      <4>2. CASE v # w
        BY <3>2, <3>3, <4>2
      <4> QED
        BY <4>1, <4>2
    <3> QED
      BY <2>1, <2>2, <3>2, <3>4
  <2> QED
    BY <1>4, <2>3, <2>4
<1>5. ASSUME NEW w \in Workers, MarkSent(w) PROVE Delivery'
  <2>1. /\ pc[w] = "accepted" /\ pc' = [pc EXCEPT ![w] = "loop"]
        /\ batch' = [batch EXCEPT ![w] = @ \ {cur[w]}]
        /\ cur' = [cur EXCEPT ![w] = 0]
        /\ state' = [state EXCEPT ![cur[w]] = "sent"]
        /\ UNCHANGED <<body, accepted>>
    BY <1>5 DEF MarkSent, relayVars
  <2> QED
    BY <2>1
<1>6. ASSUME NEW w \in Workers, MarkSentThrows(w) PROVE Delivery'
  <2>1. PICK s \in {state[cur[w]], "sent"} : state' = [state EXCEPT ![cur[w]] = s]
    BY <1>6 DEF MarkSentThrows
  <2>2. /\ pc[w] = "accepted" /\ pc' = [pc EXCEPT ![w] = "threw"]
        /\ UNCHANGED <<body, batch, cur, accepted>>
    BY <1>6 DEF MarkSentThrows
  <2>3. cur[w] \in batch[w] /\ accepted[cur[w]] > 0
    BY <2>2
  <2> QED
    BY <2>1, <2>2, <2>3
<1>7. ASSUME NEW w \in Workers, MarkFailed(w) PROVE Delivery'
  <2>1. PICK next \in {"failed", "pending"} :
          state' = [state EXCEPT ![cur[w]] = next]
    BY <1>7 DEF MarkFailed
  <2>2. /\ pc[w] = "threw" /\ pc' = [pc EXCEPT ![w] = "loop"]
        /\ batch' = [batch EXCEPT ![w] = @ \ {cur[w]}]
        /\ cur' = [cur EXCEPT ![w] = 0]
        /\ UNCHANGED <<body, accepted>>
    BY <1>7 DEF MarkFailed, relayVars
  <2>3. body[cur[w]].mode # "digest" /\ cur[w] \in Ids
    BY <2>2
  <2> QED
    BY <2>1, <2>2, <2>3
<1>8. ASSUME NEW w \in Workers,
             MarkFailedClashes(w) \/ MarkFailedThrows(w) \/ Crash(w)
      PROVE  Delivery'
  <2>1. AbandonPass(w) /\ UNCHANGED <<state, body, accepted>>
    BY <1>8 DEF MarkFailedClashes, MarkFailedThrows, Crash, tableVars, relayVars
  <2>2. \A v \in Workers : pc'[v] = "accepted" => accepted'[cur'[v]] > 0
    BY <2>1 DEF AbandonPass
  <2>3. \A v \in Workers : batch'[v] \subseteq batch[v]
    BY <2>1 DEF AbandonPass
  <2> QED
    BY <2>1, <2>2, <2>3
<1>9. ASSUME NEW w \in Workers, FinishPass(w) \/ DigestRead(w) PROVE Delivery'
  <2>1. /\ UNCHANGED <<state, body, batch, accepted, cur>>
        /\ pc' = pc \/ pc' = [pc EXCEPT ![w] = "idle"]
    BY <1>9 DEF FinishPass, DigestRead, tableVars, tickVars, relayVars
  <2>2. \A v \in Workers : pc'[v] = "accepted" => accepted'[cur'[v]] > 0
    BY <2>1
  <2> QED
    BY <2>1, <2>2
<1>10. ASSUME NEW w \in Workers, DigestCommit(w) PROVE Delivery'
  <2>1. UNCHANGED <<pc, batch, cur, accepted>>
    BY <1>10 DEF DigestCommit, tickVars
  <2>2. ASSUME NEW i \in Ids
        PROVE  /\ state'[i] = "absent" => accepted[i] = 0 /\ body'[i].mode = "immediate"
               /\ state'[i] = "held_for_digest" => body'[i].mode = "digest"
               /\ body'[i].mode = "digest" =>
                    /\ \A v \in Workers : i \notin batch[v]
                    /\ accepted[i] = 0 /\ state'[i] \in {"held_for_digest", "sent"}
               /\ state'[i] = "sent" /\ body'[i].mode = "immediate" => accepted[i] > 0
    <3>1. CASE state'[i] = state[i] /\ body'[i] = body[i]
      BY <3>1
    <3>2. CASE state[i] = "sending" /\ state'[i] = "pending" /\ body'[i] = body[i]
      BY <3>2
    <3>3. CASE /\ state[i] = "held_for_digest" /\ state'[i] = "sent"
               /\ body'[i] = body[i]
      BY <3>3
    <3>4. CASE /\ state[i] = "absent" /\ state'[i] = "pending"
               /\ body'[i].mode = "immediate"
      BY <3>4
    <3> QED
      BY <1>10, DigestMoves, <3>1, <3>2, <3>3, <3>4
  <2>3. \A v \in Workers : pc'[v] = "accepted" => accepted'[cur'[v]] > 0
    BY <2>1
  <2> HIDE DEF TypeOK, TableType
  <2> QED
    BY <2>1, <2>2, <2>3
<1>11. CASE UNCHANGED vars
  BY <1>11 DEF vars, tableVars, tickVars, relayVars
<1> QED
  BY <1>1, <1>2, <1>3, <1>4, <1>5, <1>6, <1>7, <1>8, <1>9, <1>10, <1>11
     DEF Next, TickStep, Send

THEOREM DeliveryCorrect == Spec => []Delivery
BY TypeCorrect, DeliveryInit, DeliveryStep, PTL DEF Spec

\* What a recipient asked to have in a digest is never mailed by itself.
THEOREM HeldStaysHeld == Spec => []HeldNeverMailedAlone
BY DeliveryCorrect, PTL DEF Delivery

\* A row is marked sent only after the relay took its message, unless it was
\* held and left to a digest.
THEOREM SentMeansDelivered == Spec => []SentWasDelivered
BY DeliveryCorrect, PTL DEF Delivery
=============================================================================
