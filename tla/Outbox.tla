------------------------------- MODULE Outbox -------------------------------
(***************************************************************************)
(* The notification outbox and the workers that drain it.                  *)
(*                                                                         *)
(* The table notification_outbox and the SQL functions over it come from   *)
(* db/migrations/0020_notifications.sql; the worker is                     *)
(* apps/api/src/notifications/notification-worker.service.ts.  A function  *)
(* call runs in a transaction of its own and is one step; a worker does    *)
(* something else between two calls (it talks to the relay), so a pass of  *)
(* tick() is several steps, and any other worker, a digest pass, a crash   *)
(* or a new enqueue may come between them.                                 *)
(*                                                                         *)
(* Time is abstracted to what the code compares: `due` says available_at   *)
(* has been reached, `oldUpTo` that created_at is more than ten minutes    *)
(* ago (rows are created in the order of their ids, so they age in it).    *)
(***************************************************************************)
EXTENDS Integers, FiniteSets

CONSTANTS
    Recipients,  \* employees with a work email who have not left
    Nobody,      \* the recipient of a row that does not exist yet
    Keys,        \* dedupe keys: what a message is about
    NoKey,       \* the NULL dedupe key
    Workers,     \* API processes that run the notification worker
    Batch,       \* NOTIFY_BATCH: how many rows one claim takes
    GiveUp,      \* attempts after which a row is parked (6 in the code)
    MaxQueued,   \* bound: enqueue stops when the table has this many rows
    MaxRows,     \* bound: rows of the table, the digests included
    MaxFaults    \* bound: crashes and database errors a behaviour may have

ASSUME BatchAssumption  == Batch \in Nat \ {0}
ASSUME GiveUpAssumption == GiveUp \in Nat \ {0}
ASSUME RowsAssumption   == MaxRows \in Nat /\ MaxQueued \in 0..MaxRows
ASSUME FaultsAssumption == MaxFaults \in Nat
ASSUME NamesAssumption  == Nobody \notin Recipients /\ NoKey \notin Keys

Ids == 1..MaxRows

\* The states in which the partial unique index sees a row (0020:108-111).
Live == {"pending", "held_for_digest", "sending"}
Settled == {"sent", "failed"}
RowState == Live \cup Settled \cup {"absent"}

\* notification_mode, without 'off': a recipient who switched a message off
\* (or has no address, or has left) gets no row at all.
Modes == {"immediate", "digest"}

\* What a row is given when it is inserted and never changes.  A digest lists
\* the rows it was built from in `items`; any other row has none.
Body == [to: Recipients \cup {Nobody}, key: Keys \cup {NoKey},
         mode: Modes, items: SUBSET Ids]
Blank == [to |-> Nobody, key |-> NoKey, mode |-> "immediate", items |-> {}]

VARIABLES
    \* The table.
    rows,      \* how many rows have been inserted: ids 1..rows
    state,     \* state[i]
    attempts,  \* attempts[i], saturated at GiveUp: the code only asks >= 6
    due,       \* due[i]: available_at <= now()
    body,      \* body[i]
    oldUpTo,   \* rows 1..oldUpTo have created_at < now() - 10 minutes
    \* tick(), per worker.
    pc,        \* where the pass is
    batch,     \* the claimed rows the pass has still to deal with
    cur,       \* the row being sent, 0 when there is none
    \* buildDigests(), per worker.
    building,  \* the pass has read the held rows and not committed yet
    snap,      \* the held rows it read
    \* The relay, and what a behaviour has suffered.
    accepted,  \* messages the relay accepted for the row, saturated at GiveUp
    suspect,   \* history: rows whose delivery is no longer known for certain
    faults     \* crashes and database errors so far

tableVars  == <<rows, state, attempts, due, body, oldUpTo>>
tickVars   == <<pc, batch, cur>>
digestVars == <<building, snap>>
relayVars  == <<accepted, suspect>>
vars == <<tableVars, tickVars, digestVars, relayVars, faults>>

Bump(n) == IF n < GiveUp THEN n + 1 ELSE n

\* The row holds the (recipient, key) slot of the unique index against i.
Clashes(i, j) ==
    /\ j # i
    /\ state[j] \in Live
    /\ body[i].key # NoKey
    /\ body[j].to = body[i].to
    /\ body[j].key = body[i].key

\* recipient_email is recorded by enqueue_notification; the INSERT of
\* build_digests leaves it NULL.
Addressed(i) == body[i].items = {}

\* Mutant: the claim query forgets that a row being sent is taken.
ClaimableTakesSending ==
    {i \in Ids : state[i] \in {"pending", "sending"} /\ due[i]}

Claimable == {i \in Ids : state[i] = "pending" /\ due[i]}
Held == {i \in Ids : state[i] = "held_for_digest"}

\* Mutant: the requeue is never called.
StalledNever  == {}

Stalled == {i \in Ids : state[i] = "sending" /\ i <= oldUpTo}
InHand == UNION {batch[w] : w \in Workers}

-----------------------------------------------------------------------------
Init ==
    /\ rows = 0
    /\ state = [i \in Ids |-> "absent"]
    /\ attempts = [i \in Ids |-> 0]
    /\ due = [i \in Ids |-> FALSE]
    /\ body = [i \in Ids |-> Blank]
    /\ oldUpTo = 0
    /\ pc = [w \in Workers |-> "idle"]
    /\ batch = [w \in Workers |-> {}]
    /\ cur = [w \in Workers |-> 0]
    /\ building = [w \in Workers |-> FALSE]
    /\ snap = [w \in Workers |-> {}]
    /\ accepted = [i \in Ids |-> 0]
    /\ suspect = {}
    /\ faults = 0

(***************************************************************************)
(* enqueue_notification: a request, or the hourly reminder scan, queues a  *)
(* message inside its own transaction.  `mode` is what the recipient's     *)
(* preferences resolve to.  When a live row has the same recipient and key *)
(* the INSERT does nothing, which is no step at all here.                  *)
(***************************************************************************)
Enqueue(r, k, mode) ==
    LET i == rows + 1
    IN  /\ rows < MaxQueued
        /\ \A j \in Ids : ~ (k # NoKey /\ state[j] \in Live
                             /\ body[j].to = r /\ body[j].key = k)
        /\ rows' = i
        /\ state' = [state EXCEPT ![i] =
                        IF mode = "digest" THEN "held_for_digest" ELSE "pending"]
        /\ due' = [due EXCEPT ![i] = TRUE]
        /\ body' = [body EXCEPT ![i] =
                       [to |-> r, key |-> k, mode |-> mode, items |-> {}]]
        /\ UNCHANGED <<attempts, oldUpTo, tickVars, digestVars, relayVars, faults>>

\* The backoff of fail_notification has elapsed.
BackoffElapses(i) ==
    /\ state[i] = "pending"
    /\ ~ due[i]
    /\ due' = [due EXCEPT ![i] = TRUE]
    /\ UNCHANGED <<rows, state, attempts, body, oldUpTo, tickVars, digestVars,
                   relayVars, faults>>

\* Ten minutes pass since the rows up to n were created.
Age(n) ==
    /\ n \in (oldUpTo + 1)..rows
    /\ oldUpTo' = n
    /\ UNCHANGED <<rows, state, attempts, due, body, tickVars, digestVars,
                   relayVars, faults>>

-----------------------------------------------------------------------------
(***************************************************************************)
(* tick(): claim_notifications marks up to Batch due rows 'sending' and    *)
(* counts the attempt.  The `running` flag is pc # "idle".  SKIP LOCKED    *)
(* may hide rows another claim has locked, hence any subset.               *)
(***************************************************************************)
Claim(w) ==
    /\ pc[w] = "idle"
    /\ \E S \in SUBSET Claimable :
        /\ S # {}
        /\ Cardinality(S) <= Batch
        /\ state' = [i \in Ids |-> IF i \in S THEN "sending" ELSE state[i]]
        /\ attempts' = [i \in Ids |-> IF i \in S THEN Bump(attempts[i])
                                      ELSE attempts[i]]
        /\ batch' = [batch EXCEPT ![w] = S]
    /\ pc' = [pc EXCEPT ![w] = "loop"]
    /\ UNCHANGED <<rows, due, body, oldUpTo, cur, digestVars, relayVars, faults>>

\* sendMail succeeds: the relay has the message and said so.
SendAccepted(w, i) ==
    /\ pc[w] = "loop"
    /\ i \in batch[w]
    /\ Addressed(i)
    /\ accepted' = [accepted EXCEPT ![i] = Bump(@)]
    /\ cur' = [cur EXCEPT ![w] = i]
    /\ pc' = [pc EXCEPT ![w] = "accepted"]
    /\ UNCHANGED <<tableVars, batch, digestVars, suspect, faults>>

\* Mutant: the error of the relay is swallowed.
SendRefusedSwallowed(w, i) ==
    /\ pc[w] = "loop"
    /\ i \in batch[w]
    /\ cur' = [cur EXCEPT ![w] = i]
    /\ pc' = [pc EXCEPT ![w] = "accepted"]
    /\ UNCHANGED <<tableVars, batch, digestVars, relayVars, faults>>

\* sendMail throws and nothing went out: the relay is down, refuses the
\* message, or there is no recipient address to give it.
SendRefused(w, i) ==
    /\ pc[w] = "loop"
    /\ i \in batch[w]
    /\ cur' = [cur EXCEPT ![w] = i]
    /\ pc' = [pc EXCEPT ![w] = "threw"]
    /\ UNCHANGED <<tableVars, batch, digestVars, relayVars, faults>>

\* sendMail throws although the relay took the message: the connection broke
\* before its reply arrived.
SendUnanswered(w, i) ==
    /\ pc[w] = "loop"
    /\ i \in batch[w]
    /\ Addressed(i)
    /\ accepted' = [accepted EXCEPT ![i] = Bump(@)]
    /\ suspect' = suspect \cup {i}
    /\ cur' = [cur EXCEPT ![w] = i]
    /\ pc' = [pc EXCEPT ![w] = "threw"]
    /\ UNCHANGED <<tableVars, batch, digestVars, faults>>

\* sent_notification: WHERE id = p_id, whatever the row's state is by now.
MarkSent(w) ==
    /\ pc[w] = "accepted"
    /\ state' = [state EXCEPT ![cur[w]] = "sent"]
    /\ batch' = [batch EXCEPT ![w] = @ \ {cur[w]}]
    /\ cur' = [cur EXCEPT ![w] = 0]
    /\ pc' = [pc EXCEPT ![w] = "loop"]
    /\ UNCHANGED <<rows, attempts, due, body, oldUpTo, digestVars, relayVars, faults>>

\* sent_notification throws, inside the same try block as sendMail, so the
\* catch treats it as a failed delivery.  When it is the reply to the COMMIT
\* that is lost, the row is marked all the same.
MarkSentThrows(w) ==
    /\ pc[w] = "accepted"
    /\ faults < MaxFaults
    /\ faults' = faults + 1
    /\ suspect' = suspect \cup {cur[w]}
    /\ \E s \in {state[cur[w]], "sent"} : state' = [state EXCEPT ![cur[w]] = s]
    /\ pc' = [pc EXCEPT ![w] = "threw"]
    /\ UNCHANGED <<rows, attempts, due, body, oldUpTo, batch, cur, digestVars, accepted>>

\* fail_notification: back to pending with a delay, or parked.  Like
\* sent_notification it names the row by id only.
MarkFailed(w) ==
    LET i == cur[w]
        next == IF attempts[i] >= GiveUp THEN "failed" ELSE "pending"
    IN  /\ pc[w] = "threw"
        /\ next = "failed" \/ \A j \in Ids : ~ Clashes(i, j)
        /\ state' = [state EXCEPT ![i] = next]
        /\ due' = [due EXCEPT ![i] = FALSE]
        /\ batch' = [batch EXCEPT ![w] = @ \ {i}]
        /\ cur' = [cur EXCEPT ![w] = 0]
        /\ pc' = [pc EXCEPT ![w] = "loop"]
        /\ UNCHANGED <<rows, attempts, body, oldUpTo, digestVars, relayVars, faults>>

\* The rest of the pass is given up: the outer catch of tick(), or the end of
\* the process.  What it had claimed stays 'sending'.
AbandonPass(w) ==
    /\ pc' = [pc EXCEPT ![w] = "idle"]
    /\ batch' = [batch EXCEPT ![w] = {}]
    /\ cur' = [cur EXCEPT ![w] = 0]

\* The row is 'sent' already, its message was queued again since, and putting
\* the row back would make two live rows with one key: the unique index
\* refuses the UPDATE and the error leaves the inner catch.
MarkFailedClashes(w) ==
    /\ pc[w] = "threw"
    /\ attempts[cur[w]] < GiveUp
    /\ \E j \in Ids : Clashes(cur[w], j)
    /\ AbandonPass(w)
    /\ UNCHANGED <<tableVars, digestVars, relayVars, faults>>

\* fail_notification throws because the database is unreachable.
MarkFailedThrows(w) ==
    /\ pc[w] = "threw"
    /\ faults < MaxFaults
    /\ faults' = faults + 1
    /\ AbandonPass(w)
    /\ UNCHANGED <<tableVars, digestVars, relayVars>>

\* Mutant: no finally, the flag that a pass is running stays set.
FinishPassStillRunning(w) == FALSE

FinishPass(w) ==
    /\ pc[w] = "loop"
    /\ batch[w] = {}
    /\ pc' = [pc EXCEPT ![w] = "idle"]
    /\ UNCHANGED <<tableVars, batch, cur, digestVars, relayVars, faults>>

-----------------------------------------------------------------------------
(***************************************************************************)
(* buildDigests(): one transaction that requeues stalled rows and then     *)
(* runs build_digests.  Its statements read what is committed when each of *)
(* them starts: the loop over the held rows reads first (DigestRead), the  *)
(* UPDATE that marks them runs later and also sees rows queued since       *)
(* (DigestCommit).  All it writes appears at the commit, so the requeue is *)
(* taken there.                                                            *)
(***************************************************************************)
DigestRead(w) ==
    /\ ~ building[w]
    /\ Held \cup Stalled # {}
    /\ building' = [building EXCEPT ![w] = TRUE]
    /\ snap' = [snap EXCEPT ![w] = Held]
    /\ UNCHANGED <<tableVars, tickVars, relayVars, faults>>

\* The recipients the loop goes over, the message it inserts for one of them,
\* and the rows its UPDATE marks.
Groups(w) == {body[i].to : i \in snap[w]}

Digest(w, r) == [to |-> r, key |-> NoKey, mode |-> "immediate",
                 items |-> {i \in snap[w] : body[i].to = r}]

Swept(w) == {i \in Held : body[i].to \in Groups(w)}

\* `of` says for which recipient each new row is.
DigestCommit(w) ==
    /\ building[w]
    /\ \E last \in rows..MaxRows : \E of \in [(rows + 1)..last -> Groups(w)] :
        /\ {of[i] : i \in DOMAIN of} = Groups(w)
        /\ \A i, j \in DOMAIN of : of[i] = of[j] => i = j
        /\ rows' = last
        /\ state' = [i \in Ids |->
              IF i \in DOMAIN of \cup Stalled THEN "pending"
              ELSE IF i \in Swept(w) THEN "sent" ELSE state[i]]
        /\ due' = [i \in Ids |-> i \in DOMAIN of \cup Stalled \/ due[i]]
        /\ body' = [i \in Ids |-> IF i \in DOMAIN of THEN Digest(w, of[i]) ELSE body[i]]
    /\ suspect' = suspect \cup (Stalled \cap InHand)
    /\ building' = [building EXCEPT ![w] = FALSE]
    /\ snap' = [snap EXCEPT ![w] = {}]
    /\ UNCHANGED <<attempts, oldUpTo, tickVars, accepted, faults>>

-----------------------------------------------------------------------------
\* The process dies and is started again.  Its open transaction is undone; a
\* message the relay has just accepted is not recorded anywhere.
Crash(w) ==
    /\ faults < MaxFaults
    /\ pc[w] # "idle" \/ building[w]
    /\ faults' = faults + 1
    /\ suspect' = IF pc[w] = "accepted" THEN suspect \cup {cur[w]} ELSE suspect
    /\ AbandonPass(w)
    /\ building' = [building EXCEPT ![w] = FALSE]
    /\ snap' = [snap EXCEPT ![w] = {}]
    /\ UNCHANGED <<tableVars, accepted>>

Send(w) == \E i \in Ids : \/ SendAccepted(w, i)
                          \/ SendRefused(w, i)
                          \/ SendUnanswered(w, i)

TickStep(w) == \/ Claim(w)      \/ Send(w)
               \/ MarkSent(w)   \/ MarkFailed(w)
               \/ MarkFailedClashes(w) \/ FinishPass(w)

Next ==
    \/ \E r \in Recipients, k \in Keys \cup {NoKey}, m \in Modes : Enqueue(r, k, m)
    \/ \E i \in Ids : BackoffElapses(i)
    \/ \E n \in Ids : Age(n)
    \/ \E w \in Workers : \/ TickStep(w)
                          \/ MarkSentThrows(w) \/ MarkFailedThrows(w)
                          \/ DigestRead(w)     \/ DigestCommit(w)
                          \/ Crash(w)

Spec == Init /\ [][Next]_vars

(***************************************************************************)
(* The timers keep firing while a process lives, a process is restarted,   *)
(* and time passes.  Nothing makes anybody queue a message, and nothing    *)
(* obliges the relay to accept one.                                        *)
(***************************************************************************)
Fairness ==
    /\ \A w \in Workers : /\ WF_vars(TickStep(w))
                          /\ WF_vars(DigestRead(w) \/ DigestCommit(w))
    /\ \A i \in Ids : WF_vars(BackoffElapses(i))
    /\ WF_vars(\E n \in Ids : Age(n))

FairSpec == Spec /\ Fairness

(***************************************************************************)
(* The good days, to say what is delivered when nothing external fails:    *)
(* the relay takes every message that has an address.  Run it with         *)
(* MaxFaults = 0.                                                          *)
(***************************************************************************)
RelayUpNext ==
    /\ Next
    /\ \A w \in Workers : pc[w] = "loop" /\ pc'[w] = "threw" => ~ Addressed(cur'[w])

RelayUpSpec == Init /\ [][RelayUpNext]_vars /\ Fairness

-----------------------------------------------------------------------------
TableType ==
    /\ rows \in 0..MaxRows
    /\ state \in [Ids -> RowState]
    /\ attempts \in [Ids -> 0..GiveUp]
    /\ due \in [Ids -> BOOLEAN]
    /\ body \in [Ids -> Body]
    /\ oldUpTo \in 0..rows
    /\ \A i \in Ids : state[i] = "absent" <=> i > rows

TickType ==
    /\ pc \in [Workers -> {"idle", "loop", "accepted", "threw"}]
    /\ batch \in [Workers -> SUBSET Ids]
    /\ cur \in [Workers -> Ids \cup {0}]
    /\ \A w \in Workers :
          /\ pc[w] \in {"accepted", "threw"} => cur[w] \in batch[w]
          /\ pc[w] \in {"idle", "loop"} => cur[w] = 0
          /\ pc[w] = "idle" => batch[w] = {}

DigestType == building \in [Workers -> BOOLEAN] /\ snap \in [Workers -> SUBSET Ids]

RelayType == accepted \in [Ids -> 0..GiveUp] /\ suspect \subseteq Ids

\* The types, and that a worker has a current row exactly between sendMail
\* and the call that records its outcome.
TypeOK ==
    /\ TableType /\ TickType /\ DigestType /\ RelayType
    /\ \A w \in Workers : batch[w] \subseteq 1..rows
    /\ faults \in 0..MaxFaults

\* A recipient never has two live messages about one thing, although a row
\* comes back to life when its failure is recorded after it was sent.
DedupeUnique ==
    \A i, j \in Ids :
        /\ i # j
        /\ state[i] \in Live /\ state[j] \in Live
        /\ body[i].key # NoKey
        /\ body[i].key = body[j].key
        => body[i].to # body[j].to

\* The relay is given a message a second time only when a delivery of it had
\* become uncertain: a process died, a reply was lost, the outcome could not
\* be recorded, or the row was taken back from a worker that still had it.
DuplicateOnlyIfSuspect ==
    \A i \in Ids : accepted[i] > 1 => i \in suspect

\* Why: a row nothing has happened to is in the hands of one worker at most,
\* stays marked while it is, and once the relay has taken its message it is
\* either marked sent or about to be.  The proof of DuplicateOnlyIfSuspect
\* rests on it.
Custody ==
    \A i \in Ids \ suspect :
        /\ \A v, w \in Workers : i \in batch[v] /\ i \in batch[w] => v = w
        /\ \A w \in Workers : i \in batch[w] => state[i] = "sending"
        /\ accepted[i] \in {0, 1}
        /\ accepted[i] = 1 =>
              state[i] = "sent" \/ \E w \in Workers : pc[w] = "accepted" /\ cur[w] = i

\* A row is called sent only if the relay has taken its message, or the row
\* was held and left to a digest.
SentWasDelivered ==
    \A i \in Ids :
        state[i] = "sent" /\ body[i].mode = "immediate" => accepted[i] > 0

\* What a recipient asked to have in a digest is never mailed by itself: not
\* when a worker stalls, and not when a digest pass races with the workers.
HeldNeverMailedAlone ==
    \A i \in Ids : body[i].mode = "digest" =>
        accepted[i] = 0 /\ state[i] \in {"held_for_digest", "sent"}

\* Nothing stays in the queue: every live row is sent or parked in the end,
\* whichever workers die on the way.
Settles ==
    \A i \in Ids : state[i] \in Live ~> state[i] \in Settled

-----------------------------------------------------------------------------
\* What comments and tests say, and the code does not do: see the findings.

\* "does not reclaim a send that is merely in progress"
\* (apps/api/test/notifications.spec.ts): a row in the hands of a worker that
\* is alive is still marked 'sending'.
NoReclaimInProgress ==
    \A w \in Workers : \A i \in batch[w] : state[i] = "sending"

\* "it sends once however often the scan runs" (0043_deadline_reminders.sql):
\* one recipient gets one message about one milestone.
OnePerMilestone ==
    \A i, j \in Ids :
        i # j /\ accepted[i] > 0 /\ accepted[j] > 0 /\ body[i].key # NoKey
        => <<body[i].to, body[i].key>> # <<body[j].to, body[j].key>>

\* "Collapse everything held for one recipient into a single digest"
\* (0020_notifications.sql, build_digests): a held row that is called sent is
\* listed in a digest.
DigestCovers ==
    \A i \in Ids : state[i] = "sent" /\ body[i].mode = "digest" =>
        \E d \in Ids : i \in body[d].items

\* "The whole reason the outbox exists ... nothing may be lost"
\* (apps/api/test/notifications.spec.ts): with the relay up and no fault, what
\* is held for a digest reaches the relay in one.
HeldDelivered ==
    \A i \in Ids : state[i] = "held_for_digest" ~>
        \E d \in Ids : i \in body[d].items /\ accepted[d] > 0
=============================================================================
