---------------------------- MODULE AccessProofs ----------------------------
(***************************************************************************)
(* Who is who, and who may read whom: proofs about the link from an        *)
(* account to an employee (SignIn), for any employees, accounts, emails    *)
(* and pages, and about the derived roles (Roles), for any people, hands   *)
(* and days.                                                               *)
(***************************************************************************)
EXTENDS SignIn, Roles, FiniteSetTheorems, WellFoundedInduction, TLAPS

-----------------------------------------------------------------------------
(***************************************************************************)
(* SignIn.                                                                 *)
(***************************************************************************)

\* What a request that has written its row holds on to: nobody else is bound to
\* the row or to the account, and no other request is about to be.
LinkSafe(c) ==
    call[c].at = "linked" =>
        /\ call[c].id \in Employees /\ row[call[c].id].subject = None
        /\ LinkOf(c[1]) = {}

OneWriter ==
    \A c, d \in Calls :
        /\ call[c].at = "linked" /\ call[d].at = "linked"
        /\ c[1] = d[1] \/ call[c].id = call[d].id
        => c = d

\* employee_subject_uq: an account has one row.
OneRow ==
    \A d, e \in Employees : row[d].subject = row[e].subject /\ row[e].subject # None => d = e

\* Only who is known is answered, cached or linked.
Known ==
    \A c \in Calls : call[c].at \in {"linked", "found", "served"} => call[c].id # None

SignInIInv ==
    /\ SignInTypeOK /\ DOMAIN asked = Subjects
    /\ \A c \in Calls : LinkSafe(c)
    /\ OneWriter /\ OneRow /\ Known

LEMMA CallFacts ==
  /\ \A u \in Subjects : \A q \in Asks[u] : <<u, q>> \in Calls
  /\ \A c \in Calls : c[1] \in Subjects /\ c[2] \in Asks[c[1]] /\ c = <<c[1], c[2]>>
BY DEF Calls

\* One request goes on to another step.
LEMMA ProceedsFacts ==
  ASSUME SignInTypeOK, NEW c \in Calls, NEW at \in Steps, NEW id \in Employees \cup {None},
         Proceeds(c, at, id)
  PROVE  /\ call' \in [Calls -> Call]
         /\ call'[c].at = at /\ call'[c].id = id
         /\ \A d \in Calls : d # c => call'[d] = call[d]
<1>1. call \in [Calls -> Call] /\ To(at, id) \in Call
  BY DEF SignInTypeOK, To, Call
<1>2. call' = [call EXCEPT ![c] = To(at, id)]
  BY DEF Proceeds
<1>3. To(at, id).at = at /\ To(at, id).id = id
  BY DEF To
<1> HIDE DEF Call, To
<1> QED
  BY <1>1, <1>2, <1>3

\* A request that goes on without linking disturbs nobody.
LEMMA ProceedsKeeps ==
  ASSUME SignInIInv, NEW c \in Calls, NEW at \in Steps \ {"linked"}, NEW id \in Employees \cup {None},
         at \in {"found", "served"} => id # None,
         Proceeds(c, at, id), UNCHANGED row
  PROVE  /\ call' \in [Calls -> Call]
         /\ \A d \in Calls : LinkSafe(d)'
         /\ OneWriter' /\ OneRow' /\ Known'
<1>1. /\ call' \in [Calls -> Call]
      /\ call'[c].at = at /\ call'[c].id = id
      /\ \A d \in Calls : d # c => call'[d] = call[d]
  BY ProceedsFacts DEF SignInIInv
<1>2. \A d \in Calls : call'[d].at = "linked" => d # c /\ call'[d] = call[d]
  BY <1>1
<1>3. \A d \in Calls : LinkSafe(d)'
  BY <1>2 DEF SignInIInv, LinkSafe, LinkOf
<1>4. OneWriter'
  BY <1>2 DEF SignInIInv, OneWriter
<1>5. OneRow'
  BY DEF SignInIInv, OneRow
<1>6. Known'
  BY <1>1 DEF SignInIInv, Known
<1> QED
  BY <1>1, <1>3, <1>4, <1>5, <1>6

LEMMA SignInInitially ==
  SignInInit => SignInIInv
<1> SUFFICES ASSUME SignInInit PROVE SignInIInv
  OBVIOUS
<1>1. row \in [Employees -> Row] /\ \A e \in Employees : row[e].subject = None
  BY DEF SignInInit, Row
<1>2. call = [c \in Calls |-> To("idle", None)] /\ call \in [Calls -> Call]
      /\ \A c \in Calls : call[c].at = "idle"
  BY DEF SignInInit, To, Call, Steps
<1>3. /\ cache \in [Subjects -> Employees \cup {None}] /\ gone = {} /\ writes = 0
      /\ tab \in [Subjects -> {"provider", "page"}] /\ DOMAIN asked = Subjects
      /\ \A u \in Subjects : asked[u] \in [Asks[u] -> {"open", "again", "done", "error"}]
  BY DEF SignInInit, NewPage
<1>4. SignInTypeOK
  BY <1>1, <1>2, <1>3, WritesAssumption DEF SignInTypeOK
<1> QED
  BY <1>1, <1>2, <1>3, <1>4 DEF SignInIInv, LinkSafe, OneWriter, OneRow, Known

\* A step of the browser that leaves the rows and the requests alone.
LEMMA BrowserKeeps ==
  ASSUME SignInIInv, UNCHANGED <<serverVars, call>>, gone' \subseteq Calls,
         tab' \in [Subjects -> {"provider", "page"}], DOMAIN asked' = Subjects,
         \A u \in Subjects : asked'[u] \in [Asks[u] -> {"open", "again", "done", "error"}]
  PROVE  SignInIInv'
<1>1. SignInTypeOK'
  BY DEF SignInIInv, SignInTypeOK, serverVars
<1>2. (\A c \in Calls : LinkSafe(c))' /\ OneWriter' /\ OneRow' /\ Known'
  BY DEF SignInIInv, LinkSafe, LinkOf, OneWriter, OneRow, Known, serverVars
<1> QED
  BY <1>1, <1>2 DEF SignInIInv

LEMMA SignInStep ==
  ASSUME SignInIInv, NEW u \in Subjects, SignIn(u)
  PROVE  SignInIInv'
<1>1. UNCHANGED <<serverVars, call>> /\ gone' = gone
  BY DEF SignIn
<1>2. tab' = [tab EXCEPT ![u] = "page"] /\ asked' = [asked EXCEPT ![u] = NewPage(u)]
  BY DEF SignIn
<1>3. SignInTypeOK /\ DOMAIN asked = Subjects
  BY DEF SignInIInv
<1>4. NewPage(u) \in [Asks[u] -> {"open", "again", "done", "error"}]
  BY DEF NewPage
<1>5. gone' \subseteq Calls /\ tab' \in [Subjects -> {"provider", "page"}] /\ DOMAIN asked' = Subjects
  BY <1>1, <1>2, <1>3 DEF SignInTypeOK
<1>6. \A w \in Subjects : asked'[w] \in [Asks[w] -> {"open", "again", "done", "error"}]
  BY <1>2, <1>3, <1>4 DEF SignInTypeOK
<1> QED
  BY <1>1, <1>5, <1>6, BrowserKeeps

LEMMA OpenStep ==
  ASSUME SignInIInv, NEW u \in Subjects, OpenAnew(u)
  PROVE  SignInIInv'
<1>1. UNCHANGED <<serverVars, call>> /\ gone' = Abandoned(u)
  BY DEF OpenAnew
<1>2. PICK to \in {"page", "provider"} : tab' = [tab EXCEPT ![u] = to]
  BY DEF OpenAnew
<1>3. asked' = [asked EXCEPT ![u] = NewPage(u)]
  BY DEF OpenAnew
<1>4. SignInTypeOK /\ DOMAIN asked = Subjects
  BY DEF SignInIInv
<1>5. NewPage(u) \in [Asks[u] -> {"open", "again", "done", "error"}]
  BY DEF NewPage
<1>6. gone' \subseteq Calls /\ tab' \in [Subjects -> {"provider", "page"}] /\ DOMAIN asked' = Subjects
  BY <1>1, <1>2, <1>3, <1>4 DEF SignInTypeOK, Abandoned
<1>7. \A w \in Subjects : asked'[w] \in [Asks[w] -> {"open", "again", "done", "error"}]
  BY <1>3, <1>4, <1>5 DEF SignInTypeOK
<1> QED
  BY <1>1, <1>6, <1>7, BrowserKeeps

LEMMA HearStep ==
  ASSUME SignInIInv, NEW u \in Subjects, NEW q \in Asks[u], Hear(u, q)
  PROVE  SignInIInv'
<1> DEFINE c == <<u, q>>
           answers == {"open", "again", "done", "error"}
<1>1. c \in Calls
  BY CallFacts
<1>2. SignInTypeOK /\ DOMAIN asked = Subjects
  BY DEF SignInIInv
<1>3. Proceeds(c, "idle", None) /\ UNCHANGED <<row, cache, writes>>
  BY DEF Hear, Proceeds, serverVars
<1>4. /\ call' \in [Calls -> Call] /\ \A d \in Calls : LinkSafe(d)'
      /\ OneWriter' /\ OneRow' /\ Known'
  BY <1>1, <1>3, ProceedsKeeps DEF Steps
<1>5. /\ gone' \subseteq Calls
      /\ \/ tab' = tab
         \/ tab' = [tab EXCEPT ![u] = "provider"]
      /\ \/ asked' = asked
         \/ \E status \in answers : asked' = [asked EXCEPT ![u][q] = status]
  <2>1. gone \subseteq Calls /\ asked[u][q] \in answers
    BY <1>2 DEF SignInTypeOK
  <2>2. Abandoned(u) \subseteq Calls
    BY <2>1 DEF Abandoned
  <2>3. AfterFailure(asked[u][q]) \in answers
    BY DEF AfterFailure
  <2> QED
    BY <2>1, <2>2, <2>3 DEF Hear
<1>6. tab' \in [Subjects -> {"provider", "page"}]
  BY <1>2, <1>5 DEF SignInTypeOK
<1>7. DOMAIN asked' = Subjects /\ \A w \in Subjects : asked'[w] \in [Asks[w] -> answers]
  <2>1. \A w \in Subjects : asked[w] \in [Asks[w] -> answers]
    BY <1>2 DEF SignInTypeOK
  <2>2. CASE asked' = asked
    BY <1>2, <2>1, <2>2
  <2>3. ASSUME NEW status \in answers, asked' = [asked EXCEPT ![u][q] = status]
        PROVE  DOMAIN asked' = Subjects /\ \A w \in Subjects : asked'[w] \in [Asks[w] -> answers]
    <3>1. DOMAIN asked' = Subjects /\ asked'[u] = [asked[u] EXCEPT ![q] = status]
          /\ \A w \in Subjects : w # u => asked'[w] = asked[w]
      BY <1>2, <2>3
    <3>2. [asked[u] EXCEPT ![q] = status] \in [Asks[u] -> answers]
      BY <2>1
    <3> QED
      BY <2>1, <3>1, <3>2
  <2> QED
    BY <1>5, <2>2, <2>3
<1>8. SignInTypeOK'
  BY <1>2, <1>3, <1>4, <1>5, <1>6, <1>7 DEF SignInTypeOK
<1> QED
  BY <1>4, <1>7, <1>8 DEF SignInIInv

\* A step of the guard that links nobody.
LEMMA GuardKeeps ==
  ASSUME SignInIInv, NEW c \in Calls, NEW at \in Steps \ {"linked"}, NEW id \in Employees \cup {None},
         at \in {"found", "served"} => id # None,
         Proceeds(c, at, id), UNCHANGED <<row, writes, browserVars>>,
         cache' \in [Subjects -> Employees \cup {None}]
  PROVE  SignInIInv'
<1>1. /\ call' \in [Calls -> Call] /\ \A d \in Calls : LinkSafe(d)'
      /\ OneWriter' /\ OneRow' /\ Known'
  BY ProceedsKeeps
<1>2. SignInTypeOK /\ DOMAIN asked = Subjects
  BY DEF SignInIInv
<1>3. SignInTypeOK'
  BY <1>1, <1>2 DEF SignInTypeOK, browserVars
<1> QED
  BY <1>1, <1>2, <1>3 DEF SignInIInv, browserVars

LEMMA AskStep ==
  ASSUME SignInIInv, NEW u \in Subjects, NEW q \in Asks[u], Ask(u, q)
  PROVE  SignInIInv'
<1>1. <<u, q>> \in Calls /\ cache[u] \in Employees \cup {None}
  BY CallFacts DEF SignInIInv, SignInTypeOK
<1>2. cache' \in [Subjects -> Employees \cup {None}] /\ UNCHANGED <<row, writes, browserVars>>
  BY DEF Ask, serverVars, SignInIInv, SignInTypeOK
<1>3. CASE cache[u] # None
  <2>1. Proceeds(<<u, q>>, "served", cache[u])
    BY <1>3 DEF Ask
  <2> QED
    BY <1>1, <1>2, <1>3, <2>1, GuardKeeps DEF Steps
<1>4. CASE cache[u] = None
  <2>1. Proceeds(<<u, q>>, "reading", None)
    BY <1>4 DEF Ask
  <2> QED
    BY <1>1, <1>2, <2>1, GuardKeeps DEF Steps
<1> QED
  BY <1>3, <1>4

LEMMA RejectStep ==
  ASSUME SignInIInv, NEW u \in Subjects, NEW q \in Asks[u], Reject(u, q)
  PROVE  SignInIInv'
<1>1. <<u, q>> \in Calls
  BY CallFacts
<1>2. cache' \in [Subjects -> Employees \cup {None}] /\ UNCHANGED <<row, writes, browserVars>>
  BY DEF Reject, serverVars, SignInIInv, SignInTypeOK
<1>3. Proceeds(<<u, q>>, "refused", None)
  BY DEF Reject
<1> QED
  BY <1>1, <1>2, <1>3, GuardKeeps DEF Steps

LEMMA ReadStep ==
  ASSUME SignInIInv, NEW u \in Subjects, NEW q \in Asks[u], Read(u, q)
  PROVE  SignInIInv'
<1>1. <<u, q>> \in Calls
  BY CallFacts
<1>2. cache' \in [Subjects -> Employees \cup {None}] /\ UNCHANGED <<row, writes, browserVars>>
  BY DEF Read, serverVars, SignInIInv, SignInTypeOK
<1>3. ASSUME NEW e \in LinkOf(u), Proceeds(<<u, q>>, "found", e) PROVE SignInIInv'
  <2>1. e \in Employees /\ e # None
    BY NoneAssumption DEF LinkOf
  <2> QED
    BY <1>1, <1>2, <1>3, <2>1, GuardKeeps DEF Steps
<1>4. ASSUME Proceeds(<<u, q>>, "linking", None) PROVE SignInIInv'
  BY <1>1, <1>2, <1>4, GuardKeeps DEF Steps
<1> QED
  BY <1>3, <1>4 DEF Read

LEMMA RememberStep ==
  ASSUME SignInIInv, NEW u \in Subjects, NEW q \in Asks[u], Remember(u, q)
  PROVE  SignInIInv'
<1> DEFINE c == <<u, q>>
<1>1. c \in Calls
  BY CallFacts
<1>2. call[c].id \in Employees \cup {None} /\ call[c].id # None
  BY <1>1 DEF Remember, SignInIInv, SignInTypeOK, Call, Known
<1>3. /\ cache' = [cache EXCEPT ![u] = call[c].id] /\ Proceeds(c, "served", call[c].id)
      /\ UNCHANGED <<row, writes, browserVars>>
  BY DEF Remember
<1>4. cache' \in [Subjects -> Employees \cup {None}]
  BY <1>2, <1>3 DEF SignInIInv, SignInTypeOK
<1> HIDE DEF c
<1> QED
  BY <1>1, <1>2, <1>3, <1>4, GuardKeeps DEF Steps

LEMMA FailStep ==
  ASSUME SignInIInv, NEW c \in Calls, Fail(c)
  PROVE  SignInIInv'
<1>1. Proceeds(c, "failed", None) /\ UNCHANGED <<row, writes, browserVars>>
      /\ cache' \in [Subjects -> Employees \cup {None}]
  BY DEF Fail, serverVars, SignInIInv, SignInTypeOK
<1> QED
  BY <1>1, GuardKeeps DEF Steps

\* The row is held from here on: it is free, and so is the account.
LEMMA LinkStep ==
  ASSUME SignInIInv, NEW u \in Subjects, NEW q \in Asks[u], Link(u, q)
  PROVE  SignInIInv'
<1> DEFINE c == <<u, q>>
<1>1. c \in Calls /\ c[1] = u
  BY CallFacts
<1>2. UNCHANGED <<row, writes, browserVars>> /\ cache' \in [Subjects -> Employees \cup {None}]
  BY DEF Link, serverVars, SignInIInv, SignInTypeOK
<1>3. ASSUME NEW at \in {"failed", "refused"}, Proceeds(c, at, None) PROVE SignInIInv'
  <2>1. at \in Steps \ {"linked"}
    BY <1>3 DEF Steps
  <2> HIDE DEF c
  <2> QED
    BY <1>1, <1>2, <1>3, <2>1, GuardKeeps
<1>4. ASSUME NEW e \in Employees, Linkable(u, e), ~ Held(e),
             \A r \in Asks[u] : call[<<u, r>>].at # "linked",
             LinkOf(u) \ {e} = {}, Proceeds(c, "linked", e)
      PROVE  SignInIInv'
  <2>1. SignInTypeOK /\ DOMAIN asked = Subjects /\ call \in [Calls -> Call]
    BY DEF SignInIInv, SignInTypeOK
  <2>2. row[e].subject = None /\ e # None /\ u # None
    BY <1>4, NoneAssumption DEF Linkable
  <2>3. LinkOf(u) = {}
    BY <1>4, <2>2 DEF LinkOf
  <2>4. /\ call' \in [Calls -> Call] /\ call'[c].at = "linked" /\ call'[c].id = e
        /\ \A d \in Calls : d # c => call'[d] = call[d]
    <3>1. "linked" \in Steps /\ e \in Employees \cup {None}
      BY DEF Steps
    <3> HIDE DEF c
    <3> QED
      BY <1>1, <1>4, <2>1, <3>1, ProceedsFacts
  <2>5. \A d \in Calls : call[d].at = "linked" => d[1] # u /\ call[d].id # e
    <3>1. ASSUME NEW d \in Calls, call[d].at = "linked" PROVE d[1] # u
      BY <1>4, <3>1, CallFacts
    <3>2. ASSUME NEW d \in Calls, call[d].at = "linked" PROVE call[d].id # e
      <4>1. call[d] \in Call
        BY <2>1
      <4>2. call[d] = [at |-> call[d].at, id |-> call[d].id]
        BY <4>1 DEF Call
      <4> QED
        BY <1>4, <3>2, <4>2 DEF Held, To
    <3> QED
      BY <3>1, <3>2
  <2> HIDE DEF c
  <2>6. ASSUME NEW d \in Calls PROVE LinkSafe(d)'
    <3>1. CASE d = c
      BY <1>1, <1>2, <2>2, <2>3, <2>4, <3>1 DEF LinkSafe, LinkOf
    <3>2. CASE d # c
      BY <1>2, <2>4, <3>2 DEF SignInIInv, LinkSafe, LinkOf
    <3> QED
      BY <3>1, <3>2
  <2>7. OneWriter'
    BY <1>1, <2>4, <2>5 DEF SignInIInv, OneWriter
  <2>8. OneRow'
    BY <1>2 DEF SignInIInv, OneRow
  <2>9. Known'
    BY <2>2, <2>4 DEF SignInIInv, Known
  <2>10. SignInTypeOK' /\ DOMAIN asked' = Subjects
    BY <1>2, <2>1, <2>4 DEF SignInTypeOK, browserVars
  <2> QED
    BY <2>6, <2>7, <2>8, <2>9, <2>10 DEF SignInIInv
<1> QED
  BY <1>3, <1>4 DEF Link

\* The link is there for everybody to see.
LEMMA CommitLinkStep ==
  ASSUME SignInIInv, NEW u \in Subjects, NEW q \in Asks[u], CommitLink(u, q)
  PROVE  SignInIInv'
<1> DEFINE c == <<u, q>>
           e == call[c].id
<1>1. c \in Calls /\ c[1] = u /\ call[c].at = "linked"
  BY CallFacts DEF CommitLink
<1>2. /\ row' = [row EXCEPT ![e].subject = u] /\ Proceeds(c, "found", e)
      /\ UNCHANGED <<cache, writes, browserVars>>
  BY DEF CommitLink
<1>3. SignInTypeOK /\ DOMAIN asked = Subjects
  BY DEF SignInIInv
<1> HIDE DEF c
<1>4. e \in Employees /\ row[e].subject = None /\ LinkOf(u) = {} /\ u # None /\ e # None
  BY <1>1, NoneAssumption DEF SignInIInv, LinkSafe
<1> HIDE DEF e
<1>5. /\ row' \in [Employees -> Row] /\ row'[e].subject = u
      /\ \A d \in Employees : d # e => row'[d] = row[d]
  BY <1>2, <1>3, <1>4 DEF SignInTypeOK, Row
<1>6. /\ call' \in [Calls -> Call] /\ call'[c].at = "found" /\ call'[c].id = e
      /\ \A d \in Calls : d # c => call'[d] = call[d]
  <2>1. "found" \in Steps
    BY DEF Steps
  <2> QED
    BY <1>1, <1>2, <1>3, <1>4, <2>1, ProceedsFacts
<1>7. \A d \in Calls : call[d].at = "linked" /\ d # c => d[1] # u /\ call[d].id # e
  BY <1>1 DEF SignInIInv, OneWriter, e
<1>8. ASSUME NEW d \in Calls PROVE LinkSafe(d)'
  <2> SUFFICES ASSUME call'[d].at = "linked"
               PROVE  /\ call'[d].id \in Employees /\ row'[call'[d].id].subject = None
                      /\ LinkOf(d[1])' = {}
    BY DEF LinkSafe
  <2>1. d # c /\ call'[d] = call[d] /\ d[1] # u /\ call[d].id # e
    BY <1>6, <1>7
  <2>2. call[d].id \in Employees /\ row[call[d].id].subject = None /\ LinkOf(d[1]) = {}
    BY <2>1 DEF SignInIInv, LinkSafe
  <2>3. LinkOf(d[1])' = {}
    BY <1>5, <2>1, <2>2 DEF LinkOf
  <2> QED
    BY <1>5, <2>1, <2>2, <2>3
<1>9. OneWriter'
  BY <1>6 DEF SignInIInv, OneWriter
<1>10. OneRow'
  <2>1. \A d \in Employees : d # e => row[d].subject # u
    BY <1>4 DEF LinkOf
  <2> QED
    BY <1>5, <2>1 DEF SignInIInv, OneRow
<1>11. Known'
  BY <1>4, <1>6 DEF SignInIInv, Known
<1>12. SignInTypeOK' /\ DOMAIN asked' = Subjects
  BY <1>2, <1>3, <1>5, <1>6 DEF SignInTypeOK, browserVars
<1> QED
  BY <1>8, <1>9, <1>10, <1>11, <1>12 DEF SignInIInv

LEMMA ExpireStep ==
  ASSUME SignInIInv, NEW u \in Subjects, EntryExpires(u)
  PROVE  SignInIInv'
<1>1. cache' = [cache EXCEPT ![u] = None] /\ UNCHANGED <<row, writes, call, browserVars>>
  BY DEF EntryExpires
<1>2. SignInTypeOK'
  BY <1>1 DEF SignInIInv, SignInTypeOK, browserVars
<1>3. (\A c \in Calls : LinkSafe(c))' /\ OneWriter' /\ OneRow' /\ Known' /\ DOMAIN asked' = Subjects
  BY <1>1 DEF SignInIInv, LinkSafe, LinkOf, OneWriter, OneRow, Known, browserVars
<1> QED
  BY <1>2, <1>3 DEF SignInIInv

\* HR and imports write anything of an employee but the link.
LEMMA RowsKept ==
  ASSUME SignInIInv, UNCHANGED <<cache, call, browserVars>>, writes' \in 0..MaxWrites,
         row' \in [Employees -> Row], \A e \in Employees : row'[e].subject = row[e].subject
  PROVE  SignInIInv'
<1>1. SignInTypeOK' /\ DOMAIN asked' = Subjects
  BY DEF SignInIInv, SignInTypeOK, browserVars
<1>2. \A u : LinkOf(u)' = LinkOf(u)
  BY DEF LinkOf
<1>3. (\A c \in Calls : LinkSafe(c))' /\ OneWriter' /\ OneRow' /\ Known'
  BY <1>2 DEF SignInIInv, LinkSafe, OneWriter, OneRow, Known
<1> QED
  BY <1>1, <1>3 DEF SignInIInv

LEMMA SeparateStep ==
  ASSUME SignInIInv, NEW e \in Employees, Separate(e)
  PROVE  SignInIInv'
<1>1. row' = [row EXCEPT ![e].status = "separated"] /\ UNCHANGED <<cache, writes, call, browserVars>>
  BY DEF Separate
<1>2. row \in [Employees -> Row] /\ writes \in 0..MaxWrites
  BY DEF SignInIInv, SignInTypeOK
<1>3. row' \in [Employees -> Row] /\ \A d \in Employees : row'[d].subject = row[d].subject
  BY <1>1, <1>2 DEF Row
<1> QED
  BY <1>1, <1>2, <1>3, RowsKept

LEMMA WriteStep ==
  ASSUME SignInIInv, NEW e \in Employees, NEW mail \in Mails \cup {None}, WriteEmployee(e, mail)
  PROVE  SignInIInv'
<1>1. /\ row' = [row EXCEPT ![e].mail = mail,
                            ![e].status = IF @ = "absent" THEN "active" ELSE @]
      /\ writes < MaxWrites /\ writes' = writes + 1 /\ UNCHANGED <<cache, call, browserVars>>
  BY DEF WriteEmployee
<1>2. row \in [Employees -> Row] /\ writes \in 0..MaxWrites
  BY DEF SignInIInv, SignInTypeOK
<1>3. row' \in [Employees -> Row] /\ \A d \in Employees : row'[d].subject = row[d].subject
  BY <1>1, <1>2 DEF Row
<1>4. writes' \in 0..MaxWrites
  BY <1>1, <1>2, WritesAssumption
<1> QED
  BY <1>1, <1>3, <1>4, RowsKept

LEMMA SignInSteps ==
  SignInIInv /\ [SignInNext]_signInVars => SignInIInv'
<1> SUFFICES ASSUME SignInIInv, [SignInNext]_signInVars PROVE SignInIInv'
  OBVIOUS
<1>1. ASSUME NEW u \in Subjects, SignIn(u) \/ OpenAnew(u) \/ EntryExpires(u) PROVE SignInIInv'
  BY <1>1, SignInStep, OpenStep, ExpireStep
<1>2. ASSUME NEW u \in Subjects, NEW q \in Asks[u],
             Ask(u, q) \/ Reject(u, q) \/ Hear(u, q)
      PROVE  SignInIInv'
  BY <1>2, AskStep, RejectStep, HearStep
<1>3. ASSUME NEW u \in Subjects, NEW q \in Asks[u], Guard(u, q) PROVE SignInIInv'
  BY <1>3, ReadStep, LinkStep, CommitLinkStep, RememberStep DEF Guard
<1>4. ASSUME NEW c \in Calls, Fail(c) PROVE SignInIInv'
  BY <1>4, FailStep
<1>5. ASSUME NEW e \in Employees, Separate(e) PROVE SignInIInv'
  BY <1>5, SeparateStep
<1>6. ASSUME NEW e \in Employees, NEW mail \in Mails \cup {None}, WriteEmployee(e, mail)
      PROVE  SignInIInv'
  BY <1>6, WriteStep
<1>7. CASE UNCHANGED signInVars
  BY <1>7 DEF signInVars, serverVars, browserVars, SignInIInv, SignInTypeOK, LinkSafe, LinkOf,
              OneWriter, OneRow, Known
<1> QED
  BY <1>1, <1>2, <1>3, <1>4, <1>5, <1>6, <1>7 DEF SignInNext

LEMMA SignInInvariant ==
  SignInSpec => []SignInIInv
<1> QED
  BY SignInInitially, SignInSteps, PTL DEF SignInSpec

\* Rows, entries, requests and pages hold values of their kinds, for any number of
\* questions under way.
THEOREM SignInTypeCorrect ==
  SignInSpec => []SignInTypeOK
<1>1. SignInIInv => SignInTypeOK
  BY DEF SignInIInv
<1> QED
  BY <1>1, SignInInvariant, PTL

\* Every step leaves a link as it is, and gives its account to nobody else.
LEMMA LinksKept ==
  ASSUME SignInIInv, [SignInNext]_signInVars, NEW u \in Subjects, NEW e \in Employees,
         row[e].subject = u
  PROVE  \A d \in Employees : row'[d].subject = u <=> d = e
<1>1. \A d \in Employees : row[d].subject = u <=> d = e
  BY NoneAssumption DEF SignInIInv, OneRow
<1>2. SignInTypeOK
  BY DEF SignInIInv
<1>3. CASE \A d \in Employees : row'[d].subject = row[d].subject
  BY <1>1, <1>3
<1>4. ASSUME NEW w \in Subjects, NEW q \in Asks[w], CommitLink(w, q)
      PROVE  \A d \in Employees : row'[d].subject = u <=> d = e
  <2> DEFINE x == call[<<w, q>>].id
  <2>1. <<w, q>> \in Calls /\ call[<<w, q>>].at = "linked" /\ row' = [row EXCEPT ![x].subject = w]
    BY <1>4, CallFacts DEF CommitLink
  <2>2. x \in Employees /\ row[x].subject = None /\ LinkOf(w) = {}
    <3>1. LinkSafe(<<w, q>>)
      BY <2>1 DEF SignInIInv
    <3> QED
      BY <2>1, <3>1 DEF LinkSafe
  <2>3. w # u
    BY <2>2 DEF LinkOf
  <2> HIDE DEF x
  <2>4. \A d \in Employees : row'[d].subject = IF d = x THEN w ELSE row[d].subject
    BY <1>2, <2>1, <2>2 DEF SignInTypeOK, Row
  <2>5. x # e
    BY <2>2, NoneAssumption
  <2> QED
    BY <1>1, <2>3, <2>4, <2>5
<1>5. ASSUME NEW x \in Employees, Separate(x) PROVE \A d \in Employees : row'[d].subject = row[d].subject
  BY <1>2, <1>5 DEF Separate, SignInTypeOK, Row
<1>6. ASSUME NEW x \in Employees, NEW mail \in Mails \cup {None}, WriteEmployee(x, mail)
      PROVE  \A d \in Employees : row'[d].subject = row[d].subject
  BY <1>2, <1>6 DEF WriteEmployee, SignInTypeOK, Row
<1>7. ASSUME NEW w \in Subjects, SignIn(w) \/ OpenAnew(w) \/ EntryExpires(w) PROVE row' = row
  BY <1>7 DEF SignIn, OpenAnew, EntryExpires, serverVars
<1>8. ASSUME NEW w \in Subjects, NEW q \in Asks[w],
             \/ Ask(w, q) \/ Reject(w, q) \/ Hear(w, q)
             \/ Read(w, q) \/ Link(w, q) \/ Remember(w, q)
      PROVE  row' = row
  BY <1>8 DEF Ask, Reject, Hear, Read, Link, Remember, serverVars
<1>9. ASSUME NEW c \in Calls, Fail(c) PROVE row' = row
  BY <1>9 DEF Fail, serverVars
<1>10. ASSUME UNCHANGED signInVars PROVE row' = row
  BY <1>10 DEF signInVars, serverVars
<1> QED
  BY <1>3, <1>4, <1>5, <1>6, <1>7, <1>8, <1>9, <1>10 DEF SignInNext, Guard

\* "Can never be re-bound" (0006): an employee bound to an account stays bound to
\* it, and the account to one employee, however many requests link at once.
THEOREM BindingCorrect ==
  SignInSpec => BoundForGood
<1>1. SignInIInv /\ [SignInNext]_signInVars =>
        [\A u \in Subjects, e \in Employees :
          row[e].subject = u => \A d \in Employees : row'[d].subject = u <=> d = e]_signInVars
  BY LinksKept
<1> QED
  BY <1>1, SignInInvariant, PTL DEF SignInSpec, BoundForGood

-----------------------------------------------------------------------------
(***************************************************************************)
(* Roles.                                                                  *)
(***************************************************************************)

\* A row that a command takes away is still there, was to go on, and what was
\* held of it on the days before is written back.
Replaced(c) ==
    \A g \in c.gone :
        /\ g \in held /\ g.to > c.day
        /\ g.from < c.day => [g EXCEPT !.to = c.day] \in c.put

\* A command writes rows that begin on its day, and rows that it has closed.
Accounted(c) ==
    \A a \in c.put :
        \/ a.from = c.day
        \/ \E g \in c.gone : g.from < c.day /\ a = [g EXCEPT !.to = c.day]

StillToCome(c) == \A a \in c.doomed : a.to > c.day

\* Row locks: two commands take no row away together.
Apart == \A h, o \in Hands : h # o => cmd[h].gone \cap cmd[o].gone = {}

RolesIInv ==
    /\ TypeOK /\ Apart
    /\ \A h \in Hands : Replaced(cmd[h]) /\ Accounted(cmd[h]) /\ StillToCome(cmd[h])

LEMMA CommandFacts ==
  ASSUME NEW c \in Command
  PROVE  /\ c.day \in Days /\ c.role \in Derived
         /\ c.doomed \subseteq Assignment /\ c.put \subseteq Assignment
         /\ c.gone \subseteq Assignment
BY DEF Command

LEMMA RowFacts ==
  ASSUME NEW a \in Assignment
  PROVE  a.from \in Int /\ a.to \in Int
BY BoundsAssumption DEF Assignment, Days, Forever

LEMMA IdleFacts ==
  /\ Idle \in Command /\ Idle.at = "idle" /\ Idle.gone = {} /\ Idle.put = {} /\ Idle.doomed = {}
  /\ Replaced(Idle) /\ Accounted(Idle) /\ StillToCome(Idle)
<1>1. 1 \in Days
  BY BoundsAssumption DEF Days
<1>2. Idle \in Command /\ Idle.at = "idle" /\ Idle.gone = {} /\ Idle.put = {} /\ Idle.doomed = {}
  BY <1>1 DEF Idle, Command, Derived
<1> QED
  BY <1>2 DEF Replaced, Accounted, StillToCome

LEMMA InsertedFacts ==
  ASSUME NEW h \in Hands, NEW whom \in SUBSET People, NEW role \in Given, NEW d \in Days
  PROVE  /\ Inserted(h, whom, role, d) \subseteq Assignment
         /\ \A a \in Inserted(h, whom, role, d) : a.from = d
BY DEF Inserted, Assignment

LEMMA TargetFacts ==
  ASSUME NEW role
  PROVE  Target(role) \subseteq People
BY DEF Target, Active, Managers

\* One command goes on to n.
LEMMA GoesKeeps ==
  ASSUME RolesIInv, NEW h \in Hands, NEW n \in Command, Goes(h, n),
         moves' \in 0..MaxMoves, overtaken' \subseteq Hands,
         Replaced(n), Accounted(n), StillToCome(n),
         \A o \in Hands \ {h} : n.gone \cap cmd[o].gone = {}
  PROVE  RolesIInv'
<1>1. TypeOK /\ cmd \in [Hands -> Command]
  BY DEF RolesIInv, TypeOK
<1>2. cmd' = [cmd EXCEPT ![h] = n] /\ UNCHANGED <<day, end, line, held, fresh>>
  BY DEF Goes, staff
<1>3. /\ cmd' \in [Hands -> Command] /\ cmd'[h] = n
      /\ \A o \in Hands \ {h} : cmd'[o] = cmd[o]
  BY <1>1, <1>2
<1>4. TypeOK'
  BY <1>1, <1>2, <1>3 DEF TypeOK
<1>5. Apart'
  BY <1>3 DEF RolesIInv, Apart
<1>6. ASSUME NEW o \in Hands
      PROVE  (Replaced(cmd[o]) /\ Accounted(cmd[o]) /\ StillToCome(cmd[o]))'
  <2>1. CASE o = h
    BY <1>2, <1>3, <2>1 DEF Replaced, Accounted, StillToCome
  <2>2. CASE o # h
    BY <1>2, <1>3, <2>2 DEF RolesIInv, Replaced, Accounted, StillToCome
  <2> QED
    BY <2>1, <2>2
<1> QED
  BY <1>4, <1>5, <1>6 DEF RolesIInv

LEMMA RolesInitially ==
  Init => RolesIInv
<1> SUFFICES ASSUME Init PROVE RolesIInv
  OBVIOUS
<1>1. 1 \in Days /\ Forever \in Nat /\ 0 \in 0..MaxMoves
  BY BoundsAssumption DEF Days, Forever
<1>2. end \in [People -> 0..Forever] /\ line \in [People -> Line]
  BY <1>1 DEF Init, Line
<1>3. cmd \in [Hands -> Command] /\ \A h \in Hands : cmd[h] = Idle
  BY IdleFacts DEF Init
<1>4. TypeOK
  BY <1>1, <1>2, <1>3 DEF Init, TypeOK
<1> QED
  BY <1>3, <1>4, IdleFacts DEF RolesIInv, Apart

\* The staff and the day change under the commands, and no row does.
LEMMA StaffKeeps ==
  ASSUME RolesIInv, UNCHANGED <<held, cmd>>, day' \in Days,
         end' \in [People -> 0..Forever], line' \in [People -> Line],
         moves' \in 0..MaxMoves, overtaken' \subseteq Hands, fresh' \in BOOLEAN
  PROVE  RolesIInv'
<1>1. TypeOK'
  BY DEF RolesIInv, TypeOK
<1>2. Apart'
  BY DEF RolesIInv, Apart
<1>3. \A h \in Hands : (Replaced(cmd[h]) /\ Accounted(cmd[h]) /\ StillToCome(cmd[h]))'
  BY DEF RolesIInv, Replaced, Accounted, StillToCome
<1> QED
  BY <1>1, <1>2, <1>3 DEF RolesIInv

LEMMA StaffMovesFacts ==
  ASSUME TypeOK, StaffMoves
  PROVE  /\ UNCHANGED <<held, cmd, day>> /\ day' \in Days
         /\ moves' \in 0..MaxMoves /\ overtaken' \subseteq Hands /\ fresh' \in BOOLEAN
<1>1. UNCHANGED <<held, cmd, day>> /\ moves < MaxMoves /\ moves' = moves + 1
      /\ overtaken' = Running /\ fresh' = FALSE
  BY DEF StaffMoves
<1>2. day' \in Days /\ moves' \in 0..MaxMoves
  BY <1>1, BoundsAssumption DEF TypeOK
<1>3. overtaken' \subseteq Hands /\ fresh' \in BOOLEAN
  BY <1>1 DEF Running
<1> QED
  BY <1>1, <1>2, <1>3

LEMMA BossFacts ==
  ASSUME TypeOK, NEW p \in People
  PROVE  Boss(p) \in People \cup {Nobody}
BY DEF TypeOK, Boss, Line

LEMMA HireStep ==
  ASSUME RolesIInv, NEW p \in People, NEW b \in People \cup {Nobody}, Hire(p, b)
  PROVE  RolesIInv'
<1>1. TypeOK
  BY DEF RolesIInv
<1>2. StaffMoves /\ end' = [end EXCEPT ![p] = Forever]
  BY DEF Hire
<1>3. end' \in [People -> 0..Forever]
  BY <1>1, <1>2, BoundsAssumption DEF TypeOK, Forever
<1>4. [was |-> Nobody, who |-> b, from |-> day] \in Line
  BY <1>1 DEF TypeOK, Line
<1>5. line' \in [People -> Line]
  BY <1>1, <1>4 DEF TypeOK, Hire
<1> QED
  BY <1>1, <1>2, <1>3, <1>5, StaffMovesFacts, StaffKeeps

LEMMA MoveStep ==
  ASSUME RolesIInv, NEW p \in People, NEW b \in People, NEW d \in Days, Move(p, b, d)
  PROVE  RolesIInv'
<1>1. TypeOK
  BY DEF RolesIInv
<1>2. StaffMoves /\ end' = end
  BY DEF Move
<1>3. end' \in [People -> 0..Forever]
  BY <1>1, <1>2 DEF TypeOK
<1>4. [was |-> Boss(p), who |-> b, from |-> d] \in Line
  BY <1>1, BossFacts DEF Line
<1>5. line' \in [People -> Line]
  BY <1>1, <1>4 DEF TypeOK, Move
<1> QED
  BY <1>1, <1>2, <1>3, <1>5, StaffMovesFacts, StaffKeeps

LEMMA LeaveStep ==
  ASSUME RolesIInv, NEW p \in People, NEW last \in 1..LastDay + 1, Leave(p, last)
  PROVE  RolesIInv'
<1>1. TypeOK
  BY DEF RolesIInv
<1>2. StaffMoves /\ end' = [end EXCEPT ![p] = last + 1] /\ line' = line
  BY DEF Leave
<1>3. end' \in [People -> 0..Forever]
  BY <1>1, <1>2, BoundsAssumption DEF TypeOK, Forever
<1>4. line' \in [People -> Line]
  BY <1>1, <1>2 DEF TypeOK
<1> QED
  BY <1>1, <1>2, <1>3, <1>4, StaffMovesFacts, StaffKeeps

LEMMA NewDayStep ==
  ASSUME RolesIInv, NewDay
  PROVE  RolesIInv'
<1>1. TypeOK
  BY DEF RolesIInv
<1>2. UNCHANGED <<held, cmd, end, line, moves, overtaken, fresh>>
  BY DEF NewDay, staff, ghosts
<1>3. day' \in Days
  BY <1>1, BoundsAssumption DEF NewDay, TypeOK, Days
<1> QED
  BY <1>1, <1>2, <1>3, StaffKeeps DEF TypeOK

LEMMA StartStep ==
  ASSUME RolesIInv, NEW h \in Hands, StartSync(h)
  PROVE  RolesIInv'
<1> DEFINE n == [Idle EXCEPT !.at = "grant", !.day = day]
<1>1. TypeOK
  BY DEF RolesIInv
<1>2. /\ n \in Command /\ n.gone = {} /\ n.put = {} /\ n.doomed = {}
  BY <1>1 DEF TypeOK, Idle, Command, Derived
<1>3. Goes(h, n) /\ moves' \in 0..MaxMoves /\ overtaken' \subseteq Hands
  BY <1>1 DEF StartSync, Start, TypeOK
<1> HIDE DEF n
<1>4. Replaced(n) /\ Accounted(n) /\ StillToCome(n)
  BY <1>2 DEF Replaced, Accounted, StillToCome
<1> QED
  BY <1>2, <1>3, <1>4, GoesKeeps

LEMMA GrantRoleStep ==
  ASSUME RolesIInv, NEW h \in Hands, NEW p \in People, NEW role \in Given, GrantRole(h, p, role)
  PROVE  RolesIInv'
<1> DEFINE rows == Inserted(h, {p}, role, day)
           n    == [Idle EXCEPT !.at = "done", !.day = day, !.put = rows]
<1>1. TypeOK /\ day \in Days
  BY DEF RolesIInv, TypeOK
<1>2. rows \subseteq Assignment /\ \A a \in rows : a.from = day
  BY <1>1, InsertedFacts
<1>3. Goes(h, n) /\ overtaken' \subseteq Hands
  BY <1>1 DEF GrantRole, Start, TypeOK
<1>4. moves' \in 0..MaxMoves
  BY <1>1, BoundsAssumption DEF GrantRole, TypeOK
<1> HIDE DEF rows
<1>5. n \in Command /\ n.day = day /\ n.gone = {} /\ n.put = rows /\ n.doomed = {}
  BY <1>1, <1>2 DEF Idle, Command, Derived
<1> HIDE DEF n
<1>6. Replaced(n) /\ Accounted(n) /\ StillToCome(n)
  BY <1>2, <1>5 DEF Replaced, Accounted, StillToCome
<1> QED
  BY <1>3, <1>4, <1>5, <1>6, GoesKeeps

LEMMA GrantStep ==
  ASSUME RolesIInv, NEW h \in Hands, Grant(h)
  PROVE  RolesIInv'
<1> DEFINE c    == cmd[h]
           rows == Inserted(h, Target(c.role), c.role, c.day)
           n    == [c EXCEPT !.at = "revoke", !.put = @ \cup rows]
<1>1. TypeOK /\ c \in Command /\ Replaced(c) /\ Accounted(c) /\ StillToCome(c)
  BY DEF RolesIInv, TypeOK
<1>2. Goes(h, n) /\ moves' \in 0..MaxMoves /\ overtaken' \subseteq Hands
  BY <1>1 DEF Grant, TypeOK
<1>3. c.role \in Given /\ c.day \in Days
  BY <1>1, CommandFacts DEF Given
<1>4. rows \subseteq Assignment /\ \A a \in rows : a.from = c.day
  BY <1>3, TargetFacts, InsertedFacts
<1>5. \A o \in Hands \ {h} : c.gone \cap cmd[o].gone = {}
  BY DEF RolesIInv, Apart
<1> HIDE DEF rows, c
<1>6. /\ n \in Command /\ n.day = c.day /\ n.gone = c.gone
      /\ n.put = c.put \cup rows /\ n.doomed = c.doomed
  BY <1>1, <1>4 DEF Command
<1> HIDE DEF n
<1>7. Replaced(n) /\ StillToCome(n)
  BY <1>1, <1>6 DEF Replaced, StillToCome
<1>8. Accounted(n)
  BY <1>1, <1>4, <1>6 DEF Accounted
<1> QED
  BY <1>2, <1>5, <1>6, <1>7, <1>8, GoesKeeps

LEMMA RevokeStep ==
  ASSUME RolesIInv, NEW h \in Hands, Revoke(h)
  PROVE  RolesIInv'
<1> DEFINE c    == cmd[h]
           rows == {a \in Standing(View(h), c.role, c.day) : a.who \notin Target(c.role)}
           n    == [c EXCEPT !.at = "wait", !.doomed = rows]
<1>1. TypeOK /\ c \in Command /\ Replaced(c) /\ Accounted(c)
  BY DEF RolesIInv, TypeOK
<1>2. Goes(h, n) /\ moves' \in 0..MaxMoves /\ overtaken' \subseteq Hands
  BY <1>1 DEF Revoke, TypeOK
<1>3. View(h) \subseteq Assignment
  BY <1>1, CommandFacts DEF View, TypeOK
<1>4. rows \subseteq Assignment /\ \A a \in rows : a.to > c.day
  BY <1>3 DEF Standing
<1>5. \A o \in Hands \ {h} : c.gone \cap cmd[o].gone = {}
  BY DEF RolesIInv, Apart
<1> HIDE DEF rows, c
<1>6. /\ n \in Command /\ n.day = c.day /\ n.gone = c.gone
      /\ n.put = c.put /\ n.doomed = rows
  BY <1>1, <1>4 DEF Command
<1> HIDE DEF n
<1>7. Replaced(n) /\ Accounted(n) /\ StillToCome(n)
  BY <1>1, <1>4, <1>6 DEF Replaced, Accounted, StillToCome
<1> QED
  BY <1>2, <1>5, <1>6, <1>7, GoesKeeps

\* A row that was closed is never hit again, so each row that was held before
\* the day of the command leaves its closed copy.
LEMMA StrikeStep ==
  ASSUME RolesIInv, NEW h \in Hands, Strike(h)
  PROVE  RolesIInv'
<1> DEFINE c   == cmd[h]
           hit == c.doomed \cap View(h)
           new == Closed(hit, c.day)
           at  == IF c.role = "employee" THEN "grant" ELSE "done"
           n   == [c EXCEPT !.at = at, !.role = "manager", !.doomed = {},
                            !.put = (@ \ hit) \cup new, !.gone = @ \cup (hit \cap held)]
<1>1. TypeOK /\ c \in Command /\ Replaced(c) /\ Accounted(c) /\ StillToCome(c)
  BY DEF RolesIInv, TypeOK
<1>2. Goes(h, n) /\ moves' \in 0..MaxMoves /\ overtaken' \subseteq Hands
  BY <1>1 DEF Strike, TypeOK
<1>3. \A o \in Hands \ {h} : c.doomed \cap cmd[o].gone = {} /\ c.gone \cap cmd[o].gone = {}
  BY DEF Strike, RolesIInv, Apart
<1>4. /\ c.day \in Days /\ c.day \in Int /\ c.put \subseteq Assignment
      /\ c.doomed \subseteq Assignment /\ c.gone \subseteq Assignment
  BY <1>1, CommandFacts DEF Days
<1>5. /\ hit \subseteq Assignment /\ hit \subseteq (held \ c.gone) \cup c.put
      /\ hit \subseteq c.doomed
  BY <1>4 DEF View
<1>6. \A r \in hit : r.to > c.day
  BY <1>1, <1>5 DEF StillToCome
<1>7. at \in {"grant", "done"}
  OBVIOUS
<1> HIDE DEF hit, at, c
<1>8. \A g \in Assignment : /\ [g EXCEPT !.to = c.day] \in Assignment
                            /\ [g EXCEPT !.to = c.day].to = c.day
  BY <1>4 DEF Assignment
<1>9. /\ new \subseteq Assignment
      /\ \A r \in hit : r.from < c.day => [r EXCEPT !.to = c.day] \in new
      /\ \A a \in new : \E r \in hit : r.from < c.day /\ a = [r EXCEPT !.to = c.day]
  BY <1>5, <1>8 DEF Closed
<1>10. \A r \in hit : r.from < c.day => r \in held /\ r \notin c.put
  <2> SUFFICES ASSUME NEW r \in hit, r.from < c.day PROVE r \in held /\ r \notin c.put
    OBVIOUS
  <2>1. ASSUME r \in c.put PROVE FALSE
    <3>1. r.from \in Int /\ r.to \in Int /\ r.to > c.day
      BY <1>5, <1>6, RowFacts
    <3>2. PICK g \in c.gone : r = [g EXCEPT !.to = c.day]
      BY <1>1, <1>4, <2>1, <3>1 DEF Accounted
    <3>3. r.to = c.day
      BY <1>4, <1>8, <3>2
    <3> QED
      BY <1>4, <3>1, <3>3
  <2> QED
    BY <1>5, <2>1
<1> HIDE DEF new
<1>11. /\ n \in Command /\ n.day = c.day /\ n.doomed = {}
       /\ n.put = (c.put \ hit) \cup new /\ n.gone = c.gone \cup (hit \cap held)
  BY <1>1, <1>4, <1>5, <1>7, <1>9 DEF Command, Derived
<1> HIDE DEF n
<1>12. Replaced(n)
  <2> SUFFICES ASSUME NEW g \in n.gone
               PROVE  /\ g \in held /\ g.to > c.day
                      /\ g.from < c.day => [g EXCEPT !.to = c.day] \in n.put
    BY <1>11 DEF Replaced
  <2>1. CASE g \in c.gone
    <3>1. g \in held /\ g.to > c.day /\ (g.from < c.day => [g EXCEPT !.to = c.day] \in c.put)
      BY <1>1, <2>1 DEF Replaced
    <3>2. [g EXCEPT !.to = c.day] \notin hit
      <4> DEFINE closed == [g EXCEPT !.to = c.day]
      <4>1. closed.to = c.day
        BY <1>4, <1>8, <2>1
      <4> HIDE DEF closed
      <4>2. closed \notin hit
        BY <1>4, <1>6, <4>1
      <4> QED
        BY <4>2 DEF closed
    <3> QED
      BY <1>11, <3>1, <3>2
  <2>2. CASE g \in hit \cap held
    BY <1>6, <1>9, <1>11, <2>2
  <2> QED
    BY <1>11, <2>1, <2>2
<1>13. Accounted(n)
  <2> SUFFICES ASSUME NEW a \in n.put
               PROVE  \/ a.from = c.day
                      \/ \E g \in n.gone : g.from < c.day /\ a = [g EXCEPT !.to = c.day]
    BY <1>11 DEF Accounted
  <2>1. CASE a \in c.put
    BY <1>1, <1>11, <2>1 DEF Accounted
  <2>2. CASE a \in new
    BY <1>9, <1>10, <1>11, <2>2
  <2> QED
    BY <1>11, <2>1, <2>2
<1>14. StillToCome(n)
  BY <1>11 DEF StillToCome
<1>15. \A o \in Hands \ {h} : n.gone \cap cmd[o].gone = {}
  BY <1>3, <1>5, <1>11
<1> QED
  BY <1>2, <1>11, <1>12, <1>13, <1>14, <1>15, GoesKeeps

LEMMA RollbackStep ==
  ASSUME RolesIInv, NEW h \in Hands, Rollback(h)
  PROVE  RolesIInv'
<1>1. Goes(h, Idle) /\ moves' \in 0..MaxMoves /\ overtaken' \subseteq Hands
  BY DEF Rollback, RolesIInv, TypeOK
<1> QED
  BY <1>1, IdleFacts, GoesKeeps

\* The others hold on to none of the rows it takes away.
LEMMA CommitStep ==
  ASSUME RolesIInv, NEW h \in Hands, Commit(h)
  PROVE  RolesIInv'
<1> DEFINE c == cmd[h]
<1>1. TypeOK /\ cmd \in [Hands -> Command] /\ c \in Command
  BY DEF RolesIInv, TypeOK
<1>2. /\ held' = (held \ c.gone) \cup c.put /\ cmd' = [cmd EXCEPT ![h] = Idle]
      /\ UNCHANGED <<day, end, line, moves>>
  BY DEF Commit, staff
<1>3. /\ cmd' \in [Hands -> Command] /\ cmd'[h] = Idle
      /\ \A o \in Hands \ {h} : cmd'[o] = cmd[o]
  BY <1>1, <1>2, IdleFacts
<1>4. overtaken' \subseteq Hands
  BY <1>1 DEF Commit, TypeOK, Running
<1>5. fresh' \in BOOLEAN
  <2>1. fresh' = (h \notin overtaken) \/ fresh' = (fresh /\ held' = held)
    BY DEF Commit
  <2> QED
    BY <1>1, <2>1 DEF TypeOK
<1>6. held' \subseteq Assignment
  BY <1>1, <1>2, CommandFacts DEF TypeOK
<1>7. TypeOK'
  BY <1>1, <1>2, <1>3, <1>4, <1>5, <1>6 DEF TypeOK
<1>8. Apart'
  BY <1>3, IdleFacts DEF RolesIInv, Apart
<1>9. ASSUME NEW o \in Hands
      PROVE  (Replaced(cmd[o]) /\ Accounted(cmd[o]) /\ StillToCome(cmd[o]))'
  <2>1. CASE o = h
    BY <1>3, <2>1, IdleFacts DEF Replaced, Accounted, StillToCome
  <2>2. CASE o # h
    <3>1. cmd'[o] = cmd[o] /\ cmd[o].gone \cap c.gone = {}
      BY <1>3, <2>2 DEF RolesIInv, Apart
    <3>2. \A g \in cmd[o].gone : g \in held'
      BY <1>2, <3>1 DEF RolesIInv, Replaced
    <3> QED
      BY <3>1, <3>2 DEF RolesIInv, Replaced, Accounted, StillToCome
  <2> QED
    BY <2>1, <2>2
<1> QED
  BY <1>7, <1>8, <1>9 DEF RolesIInv

LEMMA RolesSteps ==
  RolesIInv /\ [Next]_vars => RolesIInv'
<1> SUFFICES ASSUME RolesIInv, [Next]_vars PROVE RolesIInv'
  OBVIOUS
<1>1. ASSUME NEW p \in People, NEW b \in People \cup {Nobody}, Hire(p, b) PROVE RolesIInv'
  BY <1>1, HireStep
<1>2. ASSUME NEW p \in People, NEW b \in People, NEW d \in Days, Move(p, b, d) PROVE RolesIInv'
  BY <1>2, MoveStep
<1>3. ASSUME NEW p \in People, NEW last \in 1..LastDay + 1, Leave(p, last) PROVE RolesIInv'
  BY <1>3, LeaveStep
<1>4. ASSUME NewDay PROVE RolesIInv'
  BY <1>4, NewDayStep
<1>5. ASSUME NEW h \in Hands, SyncStep(h) PROVE RolesIInv'
  BY <1>5, StartStep, GrantStep, RevokeStep, StrikeStep DEF SyncStep
<1>6. ASSUME NEW h \in Hands, Commit(h) \/ Rollback(h) PROVE RolesIInv'
  BY <1>6, CommitStep, RollbackStep
<1>7. ASSUME NEW h \in Hands, NEW p \in People, NEW role \in Given, GrantRole(h, p, role)
      PROVE  RolesIInv'
  BY <1>7, GrantRoleStep
<1>8. CASE UNCHANGED vars
  <2>1. UNCHANGED <<day, end, line, held, cmd, moves, overtaken, fresh>>
    BY <1>8 DEF vars, staff, ghosts
  <2>2. TypeOK
    BY DEF RolesIInv
  <2> QED
    BY <2>1, <2>2, StaffKeeps DEF TypeOK
<1> QED
  BY <1>1, <1>2, <1>3, <1>4, <1>5, <1>6, <1>7, <1>8 DEF Next

LEMMA RolesInvariant ==
  Spec => []RolesIInv
<1> QED
  BY RolesInitially, RolesSteps, PTL DEF Spec

\* The chart, the rows and the commands hold values of their kinds, for any
\* people, operators and days.
THEOREM RolesTypeCorrect ==
  Spec => []TypeOK
<1>1. RolesIInv => TypeOK
  BY DEF RolesIInv
<1> QED
  BY <1>1, RolesInvariant, PTL

\* A commit leaves the days before its command as they were.
LEMMA CommitKeepsHistory ==
  ASSUME RolesIInv, NEW h \in Hands, Commit(h), NEW d \in Days, d < cmd[h].day
  PROVE  HeldOn(d)' = HeldOn(d)
<1> DEFINE c == cmd[h]
<1>1. c \in Command /\ held \subseteq Assignment /\ Replaced(c) /\ Accounted(c)
  BY DEF RolesIInv, TypeOK
<1>2. held' = (held \ c.gone) \cup c.put /\ d < c.day
  BY DEF Commit
<1>3. /\ c.day \in Days /\ c.day \in Int /\ d \in Int
      /\ c.put \subseteq Assignment /\ c.gone \subseteq Assignment
  BY <1>1, CommandFacts DEF Days
<1>4. \A g \in Assignment :
        /\ [g EXCEPT !.to = c.day].who = g.who /\ [g EXCEPT !.to = c.day].role = g.role
        /\ [g EXCEPT !.to = c.day].from = g.from /\ [g EXCEPT !.to = c.day].to = c.day
  BY DEF Assignment
<1> HIDE DEF c
<1>5. ASSUME NEW r \in held, InForce(r, d)
      PROVE  \E s \in held' : InForce(s, d) /\ s.who = r.who /\ s.role = r.role
  <2>1. r.from \in Int /\ r.to \in Int /\ r.from <= d /\ d < r.to
    BY <1>1, <1>5, RowFacts DEF InForce
  <2>2. CASE r \notin c.gone
    BY <1>2, <1>5, <2>2
  <2>3. CASE r \in c.gone
    <3> DEFINE s == [r EXCEPT !.to = c.day]
    <3>1. s \in held'
      BY <1>1, <1>2, <1>3, <2>1, <2>3 DEF Replaced
    <3>2. InForce(s, d) /\ s.who = r.who /\ s.role = r.role
      BY <1>1, <1>2, <1>4, <2>1 DEF InForce
    <3> QED
      BY <3>1, <3>2
  <2> QED
    BY <2>2, <2>3
<1>6. ASSUME NEW s \in held', InForce(s, d)
      PROVE  \E r \in held : InForce(r, d) /\ r.who = s.who /\ r.role = s.role
  <2>1. CASE s \in held
    BY <1>6, <2>1
  <2>2. CASE s \in c.put
    <3>1. s.from # c.day
      BY <1>2, <1>3, <1>6 DEF InForce
    <3>2. PICK g \in c.gone : s = [g EXCEPT !.to = c.day]
      BY <1>1, <2>2, <3>1 DEF Accounted
    <3>3. g \in held /\ g.to > c.day /\ g \in Assignment
      BY <1>1, <1>3 DEF Replaced
    <3>4. g.to \in Int /\ g.from \in Int
      BY <3>3, RowFacts
    <3>5. s.from = g.from /\ s.who = g.who /\ s.role = g.role
      BY <1>4, <3>2, <3>3
    <3>6. InForce(g, d)
      BY <1>2, <1>3, <1>6, <3>3, <3>4, <3>5 DEF InForce
    <3> QED
      BY <3>3, <3>5, <3>6
  <2> QED
    BY <1>2, <2>1, <2>2
<1>7. \A x : x \in HeldOn(d) => x \in HeldOn(d)'
  BY <1>5 DEF HeldOn
<1>8. \A x : x \in HeldOn(d)' => x \in HeldOn(d)
  BY <1>6 DEF HeldOn
<1> QED
  BY <1>7, <1>8 DEF HeldOn

\* What ends a command is its commit, and otherwise no row changes.
LEMMA EndsFacts ==
  ASSUME RolesIInv, [Next]_vars, NEW h \in Hands, cmd[h].at # "idle", cmd'[h].at = "idle"
  PROVE  Commit(h) \/ UNCHANGED held
<1>1. cmd \in [Hands -> Command]
  BY DEF RolesIInv, TypeOK
<1>2. ASSUME NEW o \in Hands, Commit(o), o # h PROVE FALSE
  BY <1>1, <1>2 DEF Commit
<1>3. ASSUME NEW p \in People, NEW b \in People \cup {Nobody}, Hire(p, b) PROVE UNCHANGED held
  BY <1>3 DEF Hire, StaffMoves
<1>4. ASSUME NEW p \in People, NEW b \in People, NEW d \in Days, Move(p, b, d) PROVE UNCHANGED held
  BY <1>4 DEF Move, StaffMoves
<1>5. ASSUME NEW p \in People, NEW last \in 1..LastDay + 1, Leave(p, last) PROVE UNCHANGED held
  BY <1>5 DEF Leave, StaffMoves
<1>6. ASSUME NewDay PROVE UNCHANGED held
  BY <1>6 DEF NewDay
<1>7. ASSUME NEW o \in Hands, SyncStep(o) \/ Rollback(o) PROVE UNCHANGED held
  BY <1>7 DEF SyncStep, StartSync, Start, Grant, Revoke, Strike, Rollback, Goes
<1>8. ASSUME NEW o \in Hands, NEW p \in People, NEW role \in Given, GrantRole(o, p, role)
      PROVE  UNCHANGED held
  BY <1>8 DEF GrantRole, Start, Goes
<1>9. CASE UNCHANGED vars
  BY <1>9 DEF vars
<1> QED
  BY <1>2, <1>3, <1>4, <1>5, <1>6, <1>7, <1>8, <1>9 DEF Next

\* "Any effective-dated history stays intact" (sync-roles.ts:20): no command changes
\* who held which role on a day before it began, however many run at once and
\* however long.
THEOREM HistoryCorrect ==
  Spec => HistoryKept
<1>1. ASSUME RolesIInv, [Next]_vars, NEW h \in Hands, NEW d \in Days,
             cmd[h].at # "idle", cmd'[h].at = "idle", d < cmd[h].day
      PROVE  HeldOn(d)' = HeldOn(d)
  <2>1. CASE Commit(h)
    BY <1>1, <2>1, CommitKeepsHistory
  <2>2. CASE UNCHANGED held
    BY <2>2 DEF HeldOn
  <2> QED
    BY <1>1, <2>1, <2>2, EndsFacts
<1>2. RolesIInv /\ [Next]_vars =>
        [\A h \in Hands, d \in Days :
           cmd[h].at # "idle" /\ cmd'[h].at = "idle" /\ d < cmd[h].day
             => HeldOn(d)' = HeldOn(d)]_vars
  BY <1>1
<1> QED
  BY <1>2, RolesInvariant, PTL DEF Spec, HistoryKept
-----------------------------------------------------------------------------
(***************************************************************************)
(* The walk up the reporting lines.  It is a recursive function; what the  *)
(* walk reaches satisfies its equation, and nothing else does, because     *)
(* there are finitely many lines to take.                                  *)
(***************************************************************************)

LEMMA LeastNumber ==
  ASSUME NEW S \in SUBSET Nat, S # {}
  PROVE  \E n \in S : \A m \in S : n <= m
<1>1. \E n \in S : \A m \in S : ~ (<<m, n>> \in OpToRel(<, Nat))
  BY NatLessThanWellFounded, WFMin
<1>2. PICK n \in S : \A m \in S : ~ (<<m, n>> \in OpToRel(<, Nat))
  BY <1>1
<1>3. \A m \in S : ~ (m < n)
  BY <1>2, Zenon DEF OpToRel
<1> QED
  BY <1>3

\* A way from the boss of b is one from b, by one line more.
LEMMA WayFromBelow ==
  ASSUME NEW b \in People, NEW u, NEW k \in Nat, NEW w \in Ways(Boss(b), u, k)
  PROVE  \E v \in Ways(b, u, k + 1) : v[0] = b /\ \A j \in 1..k + 1 : v[j] = w[j - 1]
<1> DEFINE v == [j \in 0..k + 1 |-> IF j = 0 THEN b ELSE w[j - 1]]
<1>1. /\ w \in [0..k -> People] /\ w[0] = Boss(b) /\ w[k] = u
      /\ \A j \in 1..k : w[j] = Boss(w[j - 1])
  BY DEF Ways
<1>2. v \in [0..k + 1 -> People]
  <2>1. ASSUME NEW j \in 0..k + 1, j # 0 PROVE w[j - 1] \in People
    <3>1. j - 1 \in 0..k
      BY <2>1
    <3> QED
      BY <1>1, <3>1
  <2> QED
    BY <2>1
<1>3. v[0] = b /\ \A j \in 1..k + 1 : v[j] = w[j - 1]
  OBVIOUS
<1> HIDE DEF v
<1>4. v[k + 1] = u
  BY <1>1, <1>3
<1>5. ASSUME NEW j \in 1..k + 1 PROVE v[j] = Boss(v[j - 1])
  <2>1. CASE j = 1
    BY <1>1, <1>3, <2>1
  <2>2. CASE j # 1
    <3>1. j - 1 \in 1..k /\ j - 1 \in 1..k + 1 /\ (j - 1) - 1 = j - 2
      BY <2>2
    <3>2. v[j] = w[j - 1] /\ v[j - 1] = w[j - 2] /\ w[j - 1] = Boss(w[j - 2])
      BY <1>1, <1>3, <3>1
    <3> QED
      BY <3>2
  <2> QED
    BY <2>1, <2>2
<1> QED
  BY <1>2, <1>3, <1>4, <1>5 DEF Ways

\* What is left of a way after i of its lines.
LEMMA WayFromAbove ==
  ASSUME NEW b, NEW u, NEW k \in Nat, NEW w \in Ways(b, u, k), NEW i \in 0..k
  PROVE  \E v \in Ways(w[i], u, k - i) : \A j \in 0..k - i : v[j] = w[j + i]
<1> DEFINE v == [j \in 0..k - i |-> w[j + i]]
<1>1. w \in [0..k -> People] /\ w[k] = u /\ \A j \in 1..k : w[j] = Boss(w[j - 1])
  BY DEF Ways
<1>2. v \in [0..k - i -> People]
  <2>1. \A j \in 0..k - i : j + i \in 0..k
    OBVIOUS
  <2> QED
    BY <1>1, <2>1
<1>3. \A j \in 0..k - i : v[j] = w[j + i]
  OBVIOUS
<1> HIDE DEF v
<1>4. v[0] = w[i] /\ v[k - i] = u
  <2>1. 0 \in 0..k - i /\ k - i \in 0..k - i /\ 0 + i = i /\ (k - i) + i = k
    OBVIOUS
  <2> QED
    BY <1>1, <1>3, <2>1
<1>5. ASSUME NEW j \in 1..k - i PROVE v[j] = Boss(v[j - 1])
  <2>1. j \in 0..k - i /\ j - 1 \in 0..k - i /\ j + i \in 1..k /\ (j - 1) + i = (j + i) - 1
    OBVIOUS
  <2>2. v[j] = w[j + i] /\ v[j - 1] = w[(j + i) - 1]
    BY <1>3, <2>1
  <2>3. w[j + i] = Boss(w[(j + i) - 1])
    BY <1>1, <2>1
  <2> QED
    BY <2>2, <2>3
<1> QED
  BY <1>2, <1>3, <1>4, <1>5 DEF Ways

\* How many lines the walk may still take when those of `seen' were taken, and the
\* lengths of the ways by which it finds u from b: it takes no line again.
Short(seen, k) == k = 0 \/ k <= MaxDepth - Cardinality(seen)
Anew(w, seen, k) == \A j \in 0..k - 1 : w[j] \notin seen
Lengths(seen, b, u) ==
    {k \in Nat : Short(seen, k) /\ \E w \in Ways(b, u, k) : Anew(w, seen, k)}

\* What the walk finds.
Reached(seen, b) == {u \in People : Lengths(seen, b, u) # {}}

LEMMA ReachedUnfolds ==
  ASSUME TypeOK, NEW seen \in SUBSET People, NEW b \in People \cup {Nobody}
  PROVE  Reached(seen, b) =
           IF b = Nobody THEN {}
           ELSE {b} \cup (IF b \in seen \/ Cardinality(seen) >= MaxDepth THEN {}
                          ELSE Reached(seen \cup {b}, Boss(b)))
<1>1. Cardinality(seen) \in Nat /\ MaxDepth \in Nat
  BY PeopleAssumption, DepthAssumption, FS_Subset, FS_CardinalityType
<1>2. CASE b = Nobody
  <2>1. ASSUME NEW u \in People, NEW k \in Nat, NEW w \in Ways(b, u, k) PROVE FALSE
    <3>1. w[0] \in People /\ w[0] = b
      BY DEF Ways
    <3> QED
      BY <1>2, <3>1, PeopleAssumption
  <2> QED
    BY <1>2, <2>1 DEF Reached, Lengths
<1>3. b # Nobody => b \in Reached(seen, b)
  <2> SUFFICES ASSUME b \in People PROVE b \in Reached(seen, b)
    OBVIOUS
  <2> DEFINE w == [j \in 0..0 |-> b]
  <2>1. w \in Ways(b, b, 0) /\ Anew(w, seen, 0) /\ Short(seen, 0)
    BY DEF Ways, Anew, Short
  <2> QED
    BY <2>1 DEF Reached, Lengths
<1>4. CASE b # Nobody /\ (b \in seen \/ Cardinality(seen) >= MaxDepth)
  <2>1. ASSUME NEW u \in Reached(seen, b) PROVE u = b
    <3>1. PICK k \in Nat : Short(seen, k) /\ \E w \in Ways(b, u, k) : Anew(w, seen, k)
      BY DEF Reached, Lengths
    <3>2. PICK w \in Ways(b, u, k) : Anew(w, seen, k)
      BY <3>1
    <3>3. w[0] = b /\ w[k] = u
      BY DEF Ways
    <3>4. k # 0 => b \notin seen
      BY <3>2, <3>3 DEF Anew
    <3>5. k # 0 => ~ (Cardinality(seen) >= MaxDepth)
      BY <1>1, <3>1 DEF Short
    <3> QED
      BY <1>4, <3>3, <3>4, <3>5
  <2> QED
    BY <1>3, <1>4, <2>1
<1>5. CASE b # Nobody /\ b \notin seen /\ ~ (Cardinality(seen) >= MaxDepth)
  <2>1. b \in People /\ seen \cup {b} \in SUBSET People
    BY <1>5
  <2>2. Cardinality(seen \cup {b}) = Cardinality(seen) + 1
    BY <1>5, PeopleAssumption, FS_Subset, FS_AddElement
  <2>3. ASSUME NEW u \in Reached(seen \cup {b}, Boss(b)) PROVE u \in Reached(seen, b)
    <3>1. PICK k \in Nat : /\ Short(seen \cup {b}, k)
                           /\ \E w \in Ways(Boss(b), u, k) : Anew(w, seen \cup {b}, k)
      BY DEF Reached, Lengths
    <3>2. PICK w \in Ways(Boss(b), u, k) : Anew(w, seen \cup {b}, k)
      BY <3>1
    <3>3. PICK v \in Ways(b, u, k + 1) : v[0] = b /\ \A j \in 1..k + 1 : v[j] = w[j - 1]
      BY <2>1, <3>2, WayFromBelow
    <3>4. Short(seen, k + 1)
      BY <1>1, <1>5, <2>2, <3>1 DEF Short
    <3>5. ASSUME NEW j \in 0..(k + 1) - 1 PROVE v[j] \notin seen
      <4>1. CASE j = 0
        BY <1>5, <3>3, <4>1
      <4>2. CASE j # 0
        <5>1. j \in 1..k + 1 /\ j - 1 \in 0..k - 1
          BY <4>2
        <5> QED
          BY <3>2, <3>3, <5>1 DEF Anew
      <4> QED
        BY <4>1, <4>2
    <3>6. k + 1 \in Lengths(seen, b, u)
      BY <3>3, <3>4, <3>5 DEF Lengths, Anew
    <3> QED
      BY <3>6 DEF Reached
  <2>4. ASSUME NEW u \in Reached(seen, b), u # b PROVE u \in Reached(seen \cup {b}, Boss(b))
    <3>1. Lengths(seen, b, u) \in SUBSET Nat /\ Lengths(seen, b, u) # {}
      BY DEF Reached, Lengths
    <3>2. PICK k \in Lengths(seen, b, u) : \A m \in Lengths(seen, b, u) : k <= m
      BY <3>1, LeastNumber
    <3>3. PICK w \in Ways(b, u, k) : Anew(w, seen, k)
      BY <3>2 DEF Lengths
    <3>4. k \in Nat /\ Short(seen, k)
      BY <3>2 DEF Lengths
    <3>5. /\ w[0] = b /\ w[k] = u /\ k # 0
          /\ k \in Nat \ {0} => w[1] = Boss(b)
      <4>1. w[0] = b /\ w[k] = u /\ \A j \in 1..k : w[j] = Boss(w[j - 1])
        BY DEF Ways
      <4>2. k \in Nat \ {0} => 1 \in 1..k /\ 1 - 1 = 0
        OBVIOUS
      <4>3. k \in Nat \ {0} => w[1] = Boss(w[0])
        BY <4>1, <4>2
      <4> QED
        BY <2>4, <4>1, <4>3
    <3>6. PICK v \in Ways(w[1], u, k - 1) : \A j \in 0..k - 1 : v[j] = w[j + 1]
      <4>1. 1 \in 0..k
        BY <3>4, <3>5
      <4> QED
        BY <3>4, <4>1, WayFromAbove
    <3>7. Short(seen \cup {b}, k - 1)
      BY <1>1, <2>2, <3>4, <3>5 DEF Short
    <3>8. ASSUME NEW j \in 0..(k - 1) - 1 PROVE v[j] \notin seen \cup {b}
      <4>1. j + 1 \in 0..k - 1 /\ j + 1 \in 0..k /\ j \in 0..k - 1
            /\ k - (j + 1) \in Nat /\ k - (j + 1) < k
        BY <3>4
      <4>2. v[j] = w[j + 1] /\ w[j + 1] \notin seen
        BY <3>3, <3>6, <4>1 DEF Anew
      <4>3. ASSUME w[j + 1] = b PROVE FALSE
        <5>1. PICK x \in Ways(w[j + 1], u, k - (j + 1)) :
                 \A i \in 0..k - (j + 1) : x[i] = w[i + (j + 1)]
          BY <3>4, <4>1, WayFromAbove
        <5>2. ASSUME NEW i \in 0..(k - (j + 1)) - 1 PROVE x[i] \notin seen
          <6>1. i \in 0..k - (j + 1) /\ i + (j + 1) \in 0..k - 1
            BY <3>4, <4>1
          <6> QED
            BY <3>3, <5>1, <6>1 DEF Anew
        <5>3. Short(seen, k - (j + 1))
          BY <1>1, <3>4, <4>1 DEF Short
        <5>4. k - (j + 1) \in Lengths(seen, b, u)
          BY <4>1, <4>3, <5>1, <5>2, <5>3 DEF Lengths, Anew
        <5> QED
          BY <3>2, <3>4, <4>1, <5>4
      <4> QED
        BY <4>2, <4>3
    <3>9. k - 1 \in Lengths(seen \cup {b}, Boss(b), u)
      BY <3>4, <3>5, <3>6, <3>7, <3>8 DEF Lengths, Anew
    <3> QED
      BY <3>9 DEF Reached
  <2> QED
    BY <1>3, <1>5, <2>3, <2>4
<1> QED
  BY <1>2, <1>4, <1>5

IsWalk(up) ==
    up = [seen \in SUBSET People |->
            [b \in People \cup {Nobody} |->
                IF b = Nobody THEN {}
                ELSE {b} \cup (IF b \in seen \/ Cardinality(seen) >= MaxDepth THEN {}
                               ELSE up[seen \cup {b}][Boss(b)])]]

Walk == CHOOSE up : IsWalk(up)

LEMMA ChainIsWalk ==
  ASSUME NEW p
  PROVE  Chain(p) = Walk[{p}][Boss(p)]
BY DEF Chain, Walk, IsWalk

LEMMA WalkThere ==
  ASSUME TypeOK
  PROVE  IsWalk(Walk)
<1> DEFINE up == [seen \in SUBSET People |-> [b \in People \cup {Nobody} |-> Reached(seen, b)]]
<1>1. ASSUME NEW seen \in SUBSET People, NEW b \in People \cup {Nobody}
      PROVE  up[seen][b] =
               IF b = Nobody THEN {}
               ELSE {b} \cup (IF b \in seen \/ Cardinality(seen) >= MaxDepth THEN {}
                               ELSE up[seen \cup {b}][Boss(b)])
  <2>1. CASE b = Nobody
    BY <2>1, ReachedUnfolds
  <2>2. CASE b # Nobody
    <3>1. seen \cup {b} \in SUBSET People /\ Boss(b) \in People \cup {Nobody}
      BY <2>2, BossFacts
    <3>2. up[seen \cup {b}][Boss(b)] = Reached(seen \cup {b}, Boss(b))
      BY <3>1
    <3> HIDE DEF up
    <3>3. up[seen][b] = Reached(seen, b)
      BY DEF up
    <3> QED
      BY <2>2, <3>2, <3>3, ReachedUnfolds
  <2> QED
    BY <2>1, <2>2
<1>2. \A seen \in SUBSET People :
         up[seen] = [b \in People \cup {Nobody} |-> up[seen][b]]
  OBVIOUS
<1>3. up = [seen \in SUBSET People |-> up[seen]]
  OBVIOUS
<1> HIDE DEF up
<1> DEFINE cell(seen, b) == IF b = Nobody THEN {}
                            ELSE {b} \cup (IF b \in seen \/ Cardinality(seen) >= MaxDepth THEN {}
                               ELSE up[seen \cup {b}][Boss(b)])
           cells(seen) == [b \in People \cup {Nobody} |-> cell(seen, b)]
<1>4. \A seen \in SUBSET People, b \in People \cup {Nobody} : up[seen][b] = cell(seen, b)
  BY <1>1
<1>5. \A seen \in SUBSET People : up[seen] = cells(seen)
  <2> HIDE DEF cell
  <2> QED
    BY <1>2, <1>4
<1>6. up = [seen \in SUBSET People |-> cells(seen)]
  <2> HIDE DEF cells
  <2> QED
    BY <1>3, <1>5
<1>7. IsWalk(up)
  BY <1>6, Zenon DEF IsWalk
<1> QED
  BY <1>7 DEF Walk

LEMMA WalkAt ==
  ASSUME TypeOK, NEW seen \in SUBSET People, NEW b \in People \cup {Nobody}
  PROVE  Walk[seen][b] = IF b = Nobody THEN {}
                         ELSE {b} \cup (IF b \in seen \/ Cardinality(seen) >= MaxDepth THEN {}
                                        ELSE Walk[seen \cup {b}][Boss(b)])
<1> DEFINE cells(s) == [c \in People \cup {Nobody} |->
                        IF c = Nobody THEN {}
                        ELSE {c} \cup (IF c \in s \/ Cardinality(s) >= MaxDepth THEN {}
                                       ELSE Walk[s \cup {c}][Boss(c)])]
<1>1. Walk = [s \in SUBSET People |-> cells(s)]
  BY WalkThere, Zenon DEF IsWalk
<1>2. Walk[seen] = cells(seen)
  <2> HIDE DEF cells
  <2> QED
    BY <1>1
<1>3. cells(seen)[b] = IF b = Nobody THEN {}
                     ELSE {b} \cup (IF b \in seen \/ Cardinality(seen) >= MaxDepth THEN {}
                                        ELSE Walk[seen \cup {b}][Boss(b)])
  OBVIOUS
<1> HIDE DEF cells
<1> QED
  BY <1>2, <1>3

\* Of some finite sets, one has none of the others in it.
LEMMA LeastSet ==
  ASSUME NEW F, F # {}, \A T \in F : IsFiniteSet(T)
  PROVE  \E T \in F : \A U \in F : U \subseteq T => U = T
<1> DEFINE sizes == {Cardinality(T) : T \in F}
<1>1. sizes \in SUBSET Nat /\ sizes # {}
  BY FS_CardinalityType
<1>2. PICK n \in sizes : \A m \in sizes : n <= m
  BY <1>1, LeastNumber
<1>3. PICK T \in F : Cardinality(T) = n
  BY <1>2
<1>4. ASSUME NEW U \in F, U \subseteq T PROVE U = T
  <2>1. Cardinality(U) <= Cardinality(T) /\ (Cardinality(U) = Cardinality(T) => U = T)
    BY <1>4, FS_Subset
  <2>2. Cardinality(T) <= Cardinality(U) /\ Cardinality(U) \in Nat /\ Cardinality(T) \in Nat
    BY <1>1, <1>2, <1>3
  <2> QED
    BY <2>1, <2>2
<1> QED
  BY <1>4

\* The walk ends, as it takes each line once.
LEMMA WalkIs ==
  ASSUME TypeOK, NEW seen \in SUBSET People, NEW b \in People \cup {Nobody}
  PROVE  Walk[seen][b] = Reached(seen, b)
<1> DEFINE Differs(T) == \E c \in People \cup {Nobody} : Walk[People \ T][c] # Reached(People \ T, c)
           F == {T \in SUBSET People : Differs(T)}
<1>1. F = {}
  <2> SUFFICES ASSUME F # {} PROVE FALSE
    OBVIOUS
  <2>1. \A T \in F : IsFiniteSet(T)
    BY PeopleAssumption, FS_Subset
  <2> HIDE DEF F
  <2>2. PICK T \in F : \A U \in F : U \subseteq T => U = T
    BY <2>1, LeastSet
  <2> USE DEF F
  <2>3. PICK c \in People \cup {Nobody} : Walk[People \ T][c] # Reached(People \ T, c)
    BY <2>2
  <2>4. T \in SUBSET People /\ People \ T \in SUBSET People
    BY <2>2
  <2> HIDE DEF F, Differs
  <2>5. Walk[People \ T][c] =
          IF c = Nobody THEN {}
          ELSE {c} \cup (IF c \in People \ T \/ Cardinality(People \ T) >= MaxDepth THEN {}
                         ELSE Walk[(People \ T) \cup {c}][Boss(c)])
    BY <2>4, WalkAt
  <2>6. Reached(People \ T, c) =
          IF c = Nobody THEN {}
          ELSE {c} \cup (IF c \in People \ T \/ Cardinality(People \ T) >= MaxDepth THEN {}
                         ELSE Reached((People \ T) \cup {c}, Boss(c)))
    BY <2>4, ReachedUnfolds
  <2>7. c \in T /\ Walk[(People \ T) \cup {c}][Boss(c)] # Reached((People \ T) \cup {c}, Boss(c))
    BY <2>3, <2>5, <2>6
  <2>8. (People \ T) \cup {c} = People \ (T \ {c}) /\ Boss(c) \in People \cup {Nobody}
    BY <2>4, <2>7, BossFacts
  <2>9. Differs(T \ {c})
    BY <2>7, <2>8 DEF Differs
  <2>10. T \ {c} \in F
    BY <2>4, <2>9 DEF F
  <2> QED
    BY <2>2, <2>7, <2>10
<1>2. People \ seen \in SUBSET People /\ People \ (People \ seen) = seen
  OBVIOUS
<1>3. ~ Differs(People \ seen)
  <2> HIDE DEF Differs
  <2> QED
    BY <1>1, <1>2
<1> QED
  BY <1>2, <1>3

\* app.reports_to finds those at most MaxDepth lines above p, and nobody else.
LEMMA ChainIsAbove ==
  ASSUME TypeOK, NEW p \in People
  PROVE  Chain(p) = Above(p, MaxDepth)
<1>1. Boss(p) \in People \cup {Nobody} /\ {p} \in SUBSET People
  BY BossFacts
<1>2. Chain(p) = Reached({p}, Boss(p))
  BY <1>1, ChainIsWalk, WalkIs
<1>3. Cardinality({p}) = 1 /\ MaxDepth \in Nat /\ MaxDepth >= 1
  <2>1. Cardinality({p}) = 1
    BY FS_Singleton
  <2>2. MaxDepth \in Nat /\ MaxDepth >= 1
    BY DepthAssumption
  <2> QED
    BY <2>1, <2>2
<1>4. ASSUME NEW u \in Reached({p}, Boss(p)) PROVE u \in Above(p, MaxDepth)
  <2>1. u \in People /\ \E k \in Nat : Short({p}, k) /\ Ways(Boss(p), u, k) # {}
    BY DEF Reached, Lengths
  <2>2. PICK k \in Nat : Short({p}, k) /\ Ways(Boss(p), u, k) # {}
    BY <2>1
  <2>3. Ways(p, u, k + 1) # {}
    BY <2>2, WayFromBelow
  <2>4. k + 1 \in 1..MaxDepth
    BY <1>3, <2>2 DEF Short
  <2> QED
    BY <2>1, <2>3, <2>4 DEF Above
<1>5. ASSUME NEW u \in Above(p, MaxDepth) PROVE u \in Reached({p}, Boss(p))
  <2> DEFINE ks == {k \in 1..MaxDepth : Ways(p, u, k) # {}}
  <2>1. ks \in SUBSET Nat /\ ks # {}
    BY <1>3 DEF Above
  <2>2. PICK k \in ks : \A m \in ks : k <= m
    BY <2>1, LeastNumber
  <2>3. PICK w \in Ways(p, u, k) : TRUE
    BY <2>2
  <2>4. k \in 1..MaxDepth /\ k \in Nat /\ k - 1 \in Nat /\ 1 \in 0..k /\ 1 \in 1..k /\ 1 - 1 = 0
    BY <1>3, <2>2
  <2>5. w[1] = Boss(p)
    <3>1. w[0] = p /\ \A j \in 1..k : w[j] = Boss(w[j - 1])
      BY DEF Ways
    <3>2. w[1] = Boss(w[1 - 1])
      BY <2>4, <3>1
    <3> QED
      BY <2>4, <3>1, <3>2
  <2>6. PICK v \in Ways(w[1], u, k - 1) : \A j \in 0..k - 1 : v[j] = w[j + 1]
    BY <2>4, WayFromAbove
  <2>7. ASSUME NEW j \in 0..(k - 1) - 1, v[j] = p PROVE FALSE
    <3>1. j \in 0..k - 1 /\ j + 1 \in 0..k /\ k - (j + 1) \in 1..MaxDepth /\ k - (j + 1) < k
      BY <1>3, <2>4
    <3>2. w[j + 1] = p
      BY <2>6, <2>7, <3>1
    <3>3. Ways(p, u, k - (j + 1)) # {}
      BY <2>4, <3>1, <3>2, WayFromAbove
    <3>4. k <= k - (j + 1)
      BY <2>2, <3>1, <3>3
    <3> QED
      BY <2>4, <3>1, <3>4
  <2>8. Short({p}, k - 1)
    BY <1>3, <2>4 DEF Short
  <2>9. k - 1 \in Lengths({p}, Boss(p), u)
    BY <2>4, <2>5, <2>6, <2>7, <2>8 DEF Lengths, Anew
  <2> QED
    BY <2>9 DEF Reached, Above
<1> QED
  BY <1>2, <1>4, <1>5
-----------------------------------------------------------------------------
(***************************************************************************)
(* What a sync leaves behind.                                              *)
(***************************************************************************)

\* A row that began by d, and has ended by then or goes on.
Dated(a, d) == a.from <= d /\ (a.to = Forever \/ a.to <= d)

\* The rows with what a command has done to them, and who has a role in them.
Seen(c) == (held \ c.gone) \cup c.put
Having(rows, role, d) == {a.who : a \in Standing(rows, role, d)}

\* No row speaks of a day to come.
Past ==
    /\ \A a \in held : Dated(a, day)
    /\ \A h \in Hands : cmd[h].day <= day /\ \A a \in cmd[h].put : Dated(a, cmd[h].day)

\* How far a sync has come that nothing has overtaken.
Ready(c) ==
    /\ \A a \in held : Dated(a, c.day)
    /\ c.role = "manager" => Having(Seen(c), "employee", c.day) = Active
    /\ c.at \in {"revoke", "wait"} => Target(c.role) \subseteq Having(Seen(c), c.role, c.day)
    /\ c.at = "wait" =>
          c.doomed = {a \in Standing(Seen(c), c.role, c.day) : a.who \notin Target(c.role)}
    /\ c.at = "done" /\ IsSync(c) => Having(Seen(c), "manager", c.day) = Managers

SyncsReady == \A h \in Hands \ overtaken : cmd[h].at # "idle" => Ready(cmd[h])

\* A derived role goes on for those whom the staff gives it.
Synced ==
    fresh => \A role \in Derived :
                {a.who : a \in {r \in held : r.role = role /\ r.to = Forever}} = Target(role)

TreeInv == Past /\ SyncsReady /\ Synced

LEMMA DayFacts ==
  /\ \A d \in Days : d \in Int /\ d >= 1 /\ d < Forever
  /\ Forever \in Int
  /\ \A a \in Assignment, d, e \in Days : Dated(a, d) /\ d <= e => Dated(a, e)
<1>1. (\A d \in Days : d \in Int /\ d >= 1 /\ d < Forever) /\ Forever \in Int
  BY BoundsAssumption DEF Days, Forever
<1>2. ASSUME NEW a \in Assignment, NEW d \in Days, NEW e \in Days, Dated(a, d), d <= e
      PROVE  Dated(a, e)
  <2>1. a.from \in Int /\ a.to \in Int /\ d \in Int /\ e \in Int
    BY <1>1, RowFacts
  <2> QED
    BY <1>2, <2>1 DEF Dated
<1> QED
  BY <1>1, <1>2

\* Of dated rows those stand that go on.
LEMMA StandingFacts ==
  ASSUME NEW d \in Days, NEW rows \in SUBSET Assignment, \A a \in rows : Dated(a, d), NEW role
  PROVE  Standing(rows, role, d) = {a \in rows : a.role = role /\ a.to = Forever}
<1>1. \A a \in rows : a.to > d <=> a.to = Forever
  <2>1. \A a \in rows : a.to \in Int
    BY RowFacts
  <2>2. d \in Int /\ d < Forever /\ Forever \in Int
    BY DayFacts
  <2> QED
    BY <2>1, <2>2 DEF Dated
<1> QED
  BY <1>1 DEF Standing

\* One command goes on to n, and sees what it needs.
LEMMA TreeGoes ==
  ASSUME RolesIInv, TreeInv, NEW h \in Hands, NEW n \in Command, Goes(h, n),
         overtaken' \in {overtaken, overtaken \ {h}},
         n.day <= day, \A a \in n.put : Dated(a, n.day),
         h \notin overtaken' /\ n.at # "idle" => Ready(n)
  PROVE  TreeInv'
<1>1. cmd \in [Hands -> Command]
  BY DEF RolesIInv, TypeOK
<1>2. cmd' = [cmd EXCEPT ![h] = n] /\ UNCHANGED <<day, end, line, held, fresh>>
  BY DEF Goes, staff
<1>3. cmd'[h] = n /\ \A o \in Hands \ {h} : cmd'[o] = cmd[o]
  BY <1>1, <1>2
<1>4. Past'
  BY <1>2, <1>3 DEF TreeInv, Past, Dated
<1>5. /\ Active' = Active /\ Managers' = Managers
      /\ \A role : Target(role)' = Target(role)
  BY <1>2 DEF Target, Active, Managers
<1>6. \A c : Ready(c)' <=> Ready(c)
  BY <1>2, <1>5 DEF Ready, Seen, Having, Standing, IsSync, Dated
<1>7. SyncsReady'
  <2> SUFFICES ASSUME NEW o \in Hands, o \notin overtaken', cmd'[o].at # "idle"
               PROVE  Ready(cmd[o])'
    BY DEF SyncsReady
  <2>1. CASE o = h
    <3>1. Ready(n)
      BY <1>3, <2>1
    <3> QED
      BY <1>2, <1>3, <1>5, <2>1, <3>1 DEF Ready, Seen, Having, Standing, IsSync, Dated
  <2>2. CASE o # h
    <3>1. cmd'[o] = cmd[o] /\ o \notin overtaken
      BY <1>3, <2>2
    <3>2. Ready(cmd[o])
      BY <3>1 DEF TreeInv, SyncsReady
    <3> QED
      BY <1>2, <1>5, <3>1, <3>2 DEF Ready, Seen, Having, Standing, IsSync, Dated
  <2> QED
    BY <2>1, <2>2
<1>8. Synced'
  BY <1>2, <1>5 DEF TreeInv, Synced
<1> QED
  BY <1>4, <1>7, <1>8 DEF TreeInv

LEMMA TreeInitially ==
  ASSUME Init
  PROVE  TreeInv
<1>1. \A h \in Hands : cmd[h] = Idle
  BY DEF Init
<1>2. held = {} /\ day = 1 /\ ~fresh
  BY DEF Init
<1>3. Past
  BY <1>1, <1>2, IdleFacts DEF Past, Idle
<1>4. SyncsReady
  BY <1>1, IdleFacts DEF SyncsReady
<1>5. Synced
  BY <1>2 DEF Synced
<1> QED
  BY <1>3, <1>4, <1>5 DEF TreeInv

\* A change of staff overtakes every command, and ends what the last sync was for.
LEMMA TreeStaff ==
  ASSUME RolesIInv, TreeInv, StaffMoves
  PROVE  TreeInv'
<1>1. UNCHANGED <<day, held, cmd>> /\ overtaken' = Running /\ ~fresh'
  BY DEF StaffMoves
<1>2. Past'
  BY <1>1 DEF TreeInv, Past, Dated
<1>3. SyncsReady'
  BY <1>1 DEF SyncsReady, Running
<1>4. Synced'
  BY <1>1 DEF Synced
<1> QED
  BY <1>2, <1>3, <1>4 DEF TreeInv

\* The rows and the staff stay, and the day may come to an end.
LEMMA TreeDay ==
  ASSUME RolesIInv, TreeInv, UNCHANGED <<end, line, held, cmd, overtaken, fresh>>,
         day' \in Days, day <= day'
  PROVE  TreeInv'
<1>1. /\ day \in Days /\ held \subseteq Assignment
      /\ \A h \in Hands : cmd[h].day \in Days
  BY CommandFacts DEF RolesIInv, TypeOK
<1>2. Past'
  <2>1. \A a \in held : Dated(a, day')
    BY <1>1, DayFacts DEF TreeInv, Past
  <2>2. \A h \in Hands : cmd[h].day <= day'
    <3>1. \A h \in Hands : cmd[h].day <= day /\ cmd[h].day \in Int
      BY <1>1, DayFacts DEF TreeInv, Past
    <3>2. day \in Int /\ day' \in Int
      BY <1>1, DayFacts
    <3> QED
      BY <3>1, <3>2
  <2> QED
    BY <2>1, <2>2 DEF TreeInv, Past, Dated
<1>3. /\ Active' = Active /\ Managers' = Managers
      /\ \A role : Target(role)' = Target(role)
  BY DEF Target, Active, Managers
<1>4. SyncsReady'
  BY <1>3 DEF TreeInv, SyncsReady, Ready, Seen, Having, Standing, IsSync, Dated
<1>5. Synced'
  BY <1>3 DEF TreeInv, Synced
<1> QED
  BY <1>2, <1>4, <1>5 DEF TreeInv

LEMMA TreeStart ==
  ASSUME RolesIInv, TreeInv, NEW h \in Hands, StartSync(h)
  PROVE  TreeInv'
<1> DEFINE n == [Idle EXCEPT !.at = "grant", !.day = day]
<1>1. day \in Days /\ day \in Int
  BY DayFacts DEF RolesIInv, TypeOK
<1>2. /\ n \in Command /\ n.put = {} /\ n.day = day
      /\ n.at = "grant" /\ n.role = "employee"
  BY <1>1 DEF Idle, Command, Derived
<1>3. Goes(h, n) /\ overtaken' = overtaken \ {h}
  BY DEF StartSync, Start
<1> HIDE DEF n
<1>4. Ready(n)
  BY <1>2 DEF Ready, TreeInv, Past, IsSync
<1> QED
  BY <1>1, <1>2, <1>3, <1>4, TreeGoes

LEMMA TreeGrantRole ==
  ASSUME RolesIInv, TreeInv, NEW h \in Hands, NEW p \in People, NEW role \in Given,
         GrantRole(h, p, role)
  PROVE  TreeInv'
<1> DEFINE rows == Inserted(h, {p}, role, day)
           n    == [Idle EXCEPT !.at = "done", !.day = day, !.put = rows]
<1>1. day \in Days /\ day \in Int
  BY DayFacts DEF RolesIInv, TypeOK
<1>2. rows \subseteq Assignment /\ \A a \in rows : a.from = day /\ a.to = Forever
  BY <1>1, InsertedFacts DEF Inserted
<1>3. Goes(h, n) /\ overtaken' = overtaken \ {h}
  BY DEF GrantRole, Start
<1> HIDE DEF rows
<1>4. /\ n \in Command /\ n.put = rows /\ n.day = day
      /\ n.at = "done" /\ n.role = "employee"
  BY <1>1, <1>2 DEF Idle, Command, Derived
<1> HIDE DEF n
<1>5. Ready(n)
  BY <1>4 DEF Ready, TreeInv, Past, IsSync
<1>6. \A a \in n.put : Dated(a, n.day)
  BY <1>1, <1>2, <1>4 DEF Dated
<1> QED
  BY <1>1, <1>3, <1>4, <1>5, <1>6, TreeGoes

LEMMA TreeRollback ==
  ASSUME RolesIInv, TreeInv, NEW h \in Hands, Rollback(h)
  PROVE  TreeInv'
<1>1. Goes(h, Idle) /\ overtaken' = overtaken
  BY DEF Rollback
<1>2. Idle.day <= day
  BY DayFacts DEF RolesIInv, TypeOK, Idle
<1> QED
  BY <1>1, <1>2, IdleFacts, TreeGoes

\* What a command of a sync is at hand with.
LEMMA ReadyFacts ==
  ASSUME RolesIInv, TreeInv, NEW h \in Hands, cmd[h].at # "idle"
  PROVE  /\ cmd[h] \in Command /\ cmd[h].day \in Days /\ cmd[h].day <= day
         /\ \A a \in cmd[h].put : Dated(a, cmd[h].day)
         /\ View(h) = Seen(cmd[h]) /\ Seen(cmd[h]) \subseteq Assignment
         /\ h \notin overtaken => /\ Ready(cmd[h])
                                  /\ \A a \in Seen(cmd[h]) : Dated(a, cmd[h].day)
<1>1. cmd[h] \in Command /\ held \subseteq Assignment
  BY DEF RolesIInv, TypeOK
<1>2. cmd[h].day \in Days /\ cmd[h].put \subseteq Assignment
  BY <1>1, CommandFacts
<1>3. cmd[h].day <= day /\ \A a \in cmd[h].put : Dated(a, cmd[h].day)
  BY DEF TreeInv, Past
<1>4. View(h) = Seen(cmd[h]) /\ Seen(cmd[h]) \subseteq Assignment
  BY <1>1, <1>2 DEF View, Seen
<1>5. h \notin overtaken => Ready(cmd[h])
  BY DEF TreeInv, SyncsReady
<1>6. h \notin overtaken => \A a \in Seen(cmd[h]) : Dated(a, cmd[h].day)
  BY <1>3, <1>5 DEF Ready, Seen
<1> QED
  BY <1>1, <1>2, <1>3, <1>4, <1>5, <1>6

LEMMA TreeGrant ==
  ASSUME RolesIInv, TreeInv, NEW h \in Hands, Grant(h)
  PROVE  TreeInv'
<1> DEFINE c    == cmd[h]
           had  == Having(Seen(c), c.role, c.day)
           rows == Inserted(h, Target(c.role), c.role, c.day)
           n    == [c EXCEPT !.at = "revoke", !.put = @ \cup rows]
<1>1. c.at = "grant" /\ Goes(h, n) /\ overtaken' = overtaken
  BY DEF Grant
<1>2. /\ c \in Command /\ c.day \in Days /\ c.day <= day /\ \A a \in c.put : Dated(a, c.day)
      /\ View(h) = Seen(c) /\ (h \notin overtaken => Ready(c))
  BY <1>1, ReadyFacts
<1>3. c.day \in Int /\ c.day < Forever /\ c.role \in Given
  BY <1>2, DayFacts, CommandFacts DEF Given
<1>4. rows \subseteq Assignment
  BY <1>2, <1>3, TargetFacts, InsertedFacts
<1>5. /\ \A a \in rows : a.role = c.role /\ a.from = c.day /\ a.to = Forever
      /\ \A p \in Target(c.role) \ had : \E a \in rows : a.who = p
  <2>1. rows = {[who |-> p, role |-> c.role, from |-> c.day, to |-> Forever, by |-> h] :
                   p \in Target(c.role) \ had}
    BY <1>2 DEF Inserted, Having
  <2> HIDE DEF rows, had, c
  <2>2. \A a \in rows : a.role = c.role /\ a.from = c.day /\ a.to = Forever
    BY <2>1
  <2>3. ASSUME NEW p \in Target(c.role) \ had PROVE \E a \in rows : a.who = p
    <3> DEFINE a == [who |-> p, role |-> c.role, from |-> c.day, to |-> Forever, by |-> h]
    <3>1. a \in rows /\ a.who = p
      BY <2>1
    <3> QED
      BY <3>1
  <2> QED
    BY <2>2, <2>3
<1> HIDE DEF rows, c, had
<1>6. /\ n \in Command /\ n.day = c.day /\ n.put = c.put \cup rows /\ n.gone = c.gone
      /\ n.at = "revoke" /\ n.role = c.role
  BY <1>2, <1>4 DEF Command
<1> HIDE DEF n
<1>7. Seen(n) = Seen(c) \cup rows
  BY <1>6 DEF Seen
<1>8. \A a \in n.put : Dated(a, n.day)
  BY <1>2, <1>3, <1>5, <1>6 DEF Dated
<1>9. ASSUME h \notin overtaken PROVE Ready(n)
  <2>1. Ready(c)
    BY <1>2, <1>9
  <2>2. Target(n.role) \subseteq Having(Seen(n), n.role, n.day)
    <3> SUFFICES ASSUME NEW p \in Target(c.role)
                 PROVE  \E a \in Seen(n) : a.role = c.role /\ a.to > c.day /\ a.who = p
      BY <1>6 DEF Having, Standing
    <3>1. CASE p \in had
      BY <1>7, <3>1 DEF had, Having, Standing
    <3>2. CASE p \notin had
      BY <1>3, <1>5, <1>7, <3>2
    <3> QED
      BY <3>1, <3>2
  <2>3. ASSUME c.role = "manager"
        PROVE  Having(Seen(n), "employee", n.day) = Active
    <3>1. Standing(Seen(n), "employee", n.day) = Standing(Seen(c), "employee", c.day)
      BY <1>5, <1>6, <1>7, <2>3 DEF Standing
    <3> QED
      BY <2>1, <2>3, <3>1 DEF Ready, Having
  <2> QED
    BY <1>6, <2>1, <2>2, <2>3 DEF Ready
<1> QED
  BY <1>1, <1>2, <1>6, <1>8, <1>9, TreeGoes

LEMMA TreeRevoke ==
  ASSUME RolesIInv, TreeInv, NEW h \in Hands, Revoke(h)
  PROVE  TreeInv'
<1> DEFINE c    == cmd[h]
           rows == {a \in Standing(View(h), c.role, c.day) : a.who \notin Target(c.role)}
           n    == [c EXCEPT !.at = "wait", !.doomed = rows]
<1>1. c.at = "revoke" /\ Goes(h, n) /\ overtaken' = overtaken
  BY DEF Revoke
<1>2. /\ c \in Command /\ c.day \in Days /\ c.day <= day /\ \A a \in c.put : Dated(a, c.day)
      /\ View(h) = Seen(c) /\ Seen(c) \subseteq Assignment /\ (h \notin overtaken => Ready(c))
  BY <1>1, ReadyFacts
<1>3. rows \subseteq Assignment
      /\ rows = {a \in Standing(Seen(c), c.role, c.day) : a.who \notin Target(c.role)}
  BY <1>2 DEF Standing
<1> HIDE DEF rows, c
<1>4. /\ n \in Command /\ n.day = c.day /\ n.put = c.put /\ n.gone = c.gone
      /\ n.at = "wait" /\ n.role = c.role /\ n.doomed = rows
  <2>1. c \in Command /\ rows \subseteq Assignment
    BY <1>2, <1>3
  <2> QED
    BY <2>1 DEF Command
<1> HIDE DEF n
<1>5. Seen(n) = Seen(c)
  BY <1>4 DEF Seen
<1>6. ASSUME h \notin overtaken PROVE Ready(n)
  <2>1. Ready(c)
    BY <1>2, <1>6
  <2> QED
    BY <1>1, <1>3, <1>4, <1>5, <2>1 DEF Ready, c
<1> QED
  BY <1>1, <1>2, <1>4, <1>6, TreeGoes

\* Striking takes the role from those, and only those, whom the staff does not give
\* it; a closed row stands no more.
LEMMA TreeStrike ==
  ASSUME RolesIInv, TreeInv, NEW h \in Hands, Strike(h)
  PROVE  TreeInv'
<1> DEFINE c   == cmd[h]
           hit == c.doomed \cap View(h)
           new == Closed(hit, c.day)
           at  == IF c.role = "employee" THEN "grant" ELSE "done"
           n   == [c EXCEPT !.at = at, !.role = "manager", !.doomed = {},
                            !.put = (@ \ hit) \cup new, !.gone = @ \cup (hit \cap held)]
<1>1. c.at = "wait" /\ Goes(h, n) /\ overtaken' = overtaken
  BY DEF Strike
<1>2. /\ c \in Command /\ c.day \in Days /\ c.day <= day /\ \A a \in c.put : Dated(a, c.day)
      /\ View(h) = Seen(c) /\ Seen(c) \subseteq Assignment /\ (h \notin overtaken => Ready(c))
  BY <1>1, ReadyFacts
<1>3. c.day \in Int /\ c.day < Forever /\ c.role \in Derived
      /\ c.put \subseteq Assignment /\ c.gone \subseteq Assignment
  BY <1>2, DayFacts, CommandFacts
<1>4. hit \subseteq Assignment /\ hit = c.doomed \cap Seen(c) /\ held \subseteq Assignment
  BY <1>2 DEF RolesIInv, TypeOK
<1>5. at \in {"grant", "done"} /\ (at = "done" <=> c.role = "manager")
  BY <1>3 DEF Derived
<1> HIDE DEF hit, at, c
<1>6. \A g \in Assignment : /\ [g EXCEPT !.to = c.day] \in Assignment
                            /\ [g EXCEPT !.to = c.day].to = c.day
                            /\ [g EXCEPT !.to = c.day].from = g.from
  BY <1>2 DEF Assignment
<1>7. new \subseteq Assignment /\ \A a \in new : a.to = c.day /\ a.from < c.day
  <2>1. \A a \in new : \E r \in hit : r.from < c.day /\ a = [r EXCEPT !.to = c.day]
    BY DEF Closed
  <2> HIDE DEF new
  <2> QED
    BY <1>4, <1>6, <2>1
<1> HIDE DEF new
<1>8. /\ n \in Command /\ n.day = c.day /\ n.at = at /\ n.role = "manager" /\ n.doomed = {}
      /\ n.put = (c.put \ hit) \cup new /\ n.gone = c.gone \cup (hit \cap held)
  <2>1. (c.put \ hit) \cup new \subseteq Assignment /\ c.gone \cup (hit \cap held) \subseteq Assignment
    BY <1>3, <1>4, <1>7
  <2>2. c \in Command
    BY <1>2
  <2> QED
    BY <1>5, <2>1, <2>2 DEF Command, Derived
<1> HIDE DEF n
<1>9. \A a \in n.put : Dated(a, n.day)
  <2>1. \A a \in new : Dated(a, c.day)
    <3>1. \A a \in new : a.from \in Int /\ a.to = c.day /\ a.from < c.day
      BY <1>7, RowFacts
    <3> QED
      BY <1>3, <3>1 DEF Dated
  <2> QED
    BY <1>2, <1>8, <2>1
<1>10. Seen(n) = (Seen(c) \ hit) \cup new
  BY <1>8 DEF Seen
<1>11. \A role : Standing(Seen(n), role, n.day) = Standing(Seen(c), role, c.day) \ hit
  <2>1. \A a \in new : ~ (a.to > c.day)
    BY <1>3, <1>7
  <2> QED
    BY <1>8, <1>10, <2>1 DEF Standing
<1>12. ASSUME h \notin overtaken PROVE Ready(n)
  <2>1. Ready(c)
    BY <1>2, <1>12
  <2>2. /\ Target(c.role) \subseteq Having(Seen(c), c.role, c.day)
        /\ c.doomed = {a \in Standing(Seen(c), c.role, c.day) : a.who \notin Target(c.role)}
    BY <1>1, <2>1 DEF Ready, c
  <2>3. hit = c.doomed
    BY <1>4, <2>2 DEF Standing
  <2>4. Having(Seen(n), c.role, n.day) = Target(c.role)
    <3>1. \A a \in Standing(Seen(n), c.role, n.day) : a.who \in Target(c.role)
      BY <1>11, <2>2, <2>3
    <3>2. \A p \in Target(c.role) : \E a \in Standing(Seen(n), c.role, n.day) : a.who = p
      BY <1>11, <2>2, <2>3 DEF Having
    <3> QED
      BY <3>1, <3>2 DEF Having
  <2>5. Having(Seen(n), "employee", n.day) = Active
    <3>1. CASE c.role = "employee"
      BY <2>4, <3>1 DEF Target
    <3>2. CASE c.role = "manager"
      <4>1. \A a \in hit : a.role = "manager"
        BY <2>2, <2>3, <3>2 DEF Standing
      <4>2. Standing(Seen(n), "employee", n.day) = Standing(Seen(c), "employee", c.day)
        BY <1>11, <4>1 DEF Standing
      <4> QED
        BY <2>1, <3>2, <4>2 DEF Ready, Having
    <3> QED
      BY <1>3, <3>1, <3>2 DEF Derived
  <2>6. n.at = "done" => Having(Seen(n), "manager", n.day) = Managers
    <3>1. c.role = "manager" => Target(c.role) = Managers
      BY DEF Target
    <3> QED
      BY <1>5, <1>8, <2>4, <3>1
  <2>7. \A a \in held : Dated(a, n.day)
    BY <1>8, <2>1 DEF Ready
  <2> QED
    BY <1>5, <1>8, <2>5, <2>6, <2>7 DEF Ready
<1> QED
  BY <1>1, <1>2, <1>8, <1>9, <1>12, TreeGoes

LEMMA TreeCommit ==
  ASSUME RolesIInv, TreeInv, NEW h \in Hands, Commit(h)
  PROVE  TreeInv'
<1> DEFINE c == cmd[h]
<1>1. /\ c.at = "done" /\ cmd' = [cmd EXCEPT ![h] = Idle] /\ held' = Seen(c)
      /\ UNCHANGED <<day, end, line, moves>>
  BY DEF Commit, staff, Seen
<1>2. /\ c \in Command /\ c.day \in Days /\ c.day <= day /\ \A a \in c.put : Dated(a, c.day)
      /\ Seen(c) \subseteq Assignment
      /\ (h \notin overtaken => Ready(c) /\ \A a \in Seen(c) : Dated(a, c.day))
  BY <1>1, ReadyFacts
<1>3. cmd'[h] = Idle /\ \A o \in Hands \ {h} : cmd'[o] = cmd[o]
  BY <1>1 DEF RolesIInv, TypeOK
<1>4. overtaken' = (IF held' = held THEN overtaken ELSE overtaken \cup (Running \ {h}))
      /\ fresh' = (IF IsSync(c) THEN h \notin overtaken ELSE fresh /\ held' = held)
  BY DEF Commit
<1>5. day \in Days /\ day \in Int
  BY DayFacts DEF RolesIInv, TypeOK
<1> HIDE DEF c
<1>6. Past'
  <2>1. \A a \in held' : Dated(a, day)
    <3>1. \A a \in c.put : Dated(a, day)
      BY <1>2, <1>5, DayFacts, CommandFacts
    <3> QED
      BY <1>1, <3>1 DEF TreeInv, Past, Seen
  <2>2. Idle.day <= day /\ Idle.put = {}
    BY <1>5, DayFacts DEF Idle
  <2>3. \A o \in Hands : cmd'[o].day <= day /\ \A a \in cmd'[o].put : Dated(a, cmd'[o].day)
    BY <1>3, <2>2 DEF TreeInv, Past
  <2> QED
    BY <1>1, <2>1, <2>3 DEF Past, Dated
<1>7. /\ Active' = Active /\ Managers' = Managers
      /\ \A role : Target(role)' = Target(role)
  BY <1>1 DEF Target, Active, Managers
<1>8. SyncsReady'
  <2> SUFFICES ASSUME NEW o \in Hands, o \notin overtaken', cmd'[o].at # "idle"
               PROVE  Ready(cmd[o])'
    BY DEF SyncsReady
  <2>1. o # h /\ cmd'[o] = cmd[o] /\ o \in Running
    BY <1>3, IdleFacts DEF Running
  <2>2. held' = held /\ o \notin overtaken
    BY <1>4, <2>1
  <2>3. Ready(cmd[o])
    BY <2>1, <2>2 DEF TreeInv, SyncsReady
  <2> QED
    BY <1>1, <1>7, <2>1, <2>2, <2>3 DEF Ready, Seen, Having, Standing, IsSync, Dated
<1>9. Synced'
  <2>1. CASE IsSync(c)
    <3> SUFFICES ASSUME h \notin overtaken, NEW role \in Derived
                 PROVE  {a.who : a \in {r \in held' : r.role = role /\ r.to = Forever}} = Target(role)
      BY <1>4, <1>7, <2>1 DEF Synced
    <3>1. Ready(c) /\ \A a \in Seen(c) : Dated(a, c.day)
      BY <1>2
    <3>2. Standing(Seen(c), role, c.day) = {r \in held' : r.role = role /\ r.to = Forever}
      BY <1>1, <1>2, <3>1, StandingFacts
    <3>3. Having(Seen(c), role, c.day) = Target(role)
      <4>1. CASE role = "employee"
        BY <2>1, <3>1, <4>1 DEF Ready, IsSync, Target
      <4>2. CASE role = "manager"
        BY <1>1, <2>1, <3>1, <4>2 DEF Ready, IsSync, Target, c
      <4> QED
        BY <4>1, <4>2 DEF Derived
    <3> QED
      BY <3>2, <3>3 DEF Having
  <2>2. CASE ~ IsSync(c)
    BY <1>4, <1>7, <2>2 DEF TreeInv, Synced
  <2> QED
    BY <2>1, <2>2
<1> QED
  BY <1>6, <1>8, <1>9 DEF TreeInv

LEMMA TreeSteps ==
  RolesIInv /\ TreeInv /\ [Next]_vars => TreeInv'
<1> SUFFICES ASSUME RolesIInv, TreeInv, [Next]_vars PROVE TreeInv'
  OBVIOUS
<1>1. ASSUME NEW p \in People, NEW b \in People \cup {Nobody}, Hire(p, b) PROVE TreeInv'
  BY <1>1, TreeStaff DEF Hire
<1>2. ASSUME NEW p \in People, NEW b \in People, NEW d \in Days, Move(p, b, d) PROVE TreeInv'
  BY <1>2, TreeStaff DEF Move
<1>3. ASSUME NEW p \in People, NEW last \in 1..LastDay + 1, Leave(p, last) PROVE TreeInv'
  BY <1>3, TreeStaff DEF Leave
<1>4. ASSUME NewDay PROVE TreeInv'
  <2>1. UNCHANGED <<end, line, held, cmd, overtaken, fresh>> /\ day' = day + 1 /\ day < LastDay
    BY <1>4 DEF NewDay, staff, ghosts
  <2>2. day' \in Days /\ day <= day'
    BY <2>1, BoundsAssumption DEF RolesIInv, TypeOK, Days
  <2> QED
    BY <2>1, <2>2, TreeDay
<1>5. ASSUME NEW h \in Hands, SyncStep(h) PROVE TreeInv'
  BY <1>5, TreeStart, TreeGrant, TreeRevoke, TreeStrike DEF SyncStep
<1>6. ASSUME NEW h \in Hands, Commit(h) \/ Rollback(h) PROVE TreeInv'
  BY <1>6, TreeCommit, TreeRollback
<1>7. ASSUME NEW h \in Hands, NEW p \in People, NEW role \in Given, GrantRole(h, p, role)
      PROVE  TreeInv'
  BY <1>7, TreeGrantRole
<1>8. CASE UNCHANGED vars
  <2>1. UNCHANGED <<day, end, line, held, cmd, overtaken, fresh>>
    BY <1>8 DEF vars, staff, ghosts
  <2>2. day' \in Days /\ day <= day'
    BY <2>1, DayFacts DEF RolesIInv, TypeOK
  <2> QED
    BY <2>1, <2>2, TreeDay
<1> QED
  BY <1>1, <1>2, <1>3, <1>4, <1>5, <1>6, <1>7, <1>8 DEF Next

LEMMA TreeInvariant ==
  Spec => []TreeInv
<1>1. Init => TreeInv
  BY TreeInitially
<1> QED
  BY <1>1, TreeSteps, RolesInvariant, PTL DEF Spec

\* Whoever is above somebody is the boss of somebody.
LEMMA AboveFacts ==
  ASSUME NEW t \in People, NEW u \in Above(t, MaxDepth)
  PROVE  u \in People /\ \E p \in People : Boss(p) = u
<1>1. PICK k \in 1..MaxDepth : Ways(t, u, k) # {}
  BY DEF Above
<1>2. PICK w \in Ways(t, u, k) : TRUE
  BY <1>1
<1>3. w \in [0..k -> People] /\ w[k] = u /\ \A j \in 1..k : w[j] = Boss(w[j - 1])
  BY DEF Ways
<1>4. k \in 1..k /\ k - 1 \in 0..k /\ k \in 0..k
  BY DepthAssumption
<1> QED
  BY <1>3, <1>4

\* After a sync that nothing overtook, and while nothing changes, those who are
\* employed see themselves and everybody at most MaxDepth lines below them in the
\* chart, those who left see nothing, and nobody sees anyone else (sync-roles.ts:12,
\* app.reports_to), for any people, chart, cap and number of commands.
THEOREM TreeCorrect ==
  Spec => []SeesOwnTree
<1>1. ASSUME RolesIInv, TreeInv PROVE SeesOwnTree
  <2> SUFFICES ASSUME fresh, NothingAhead, NEW u \in People, NEW t \in People,
                      end[t] # 0, ~Holds(u, "hr_admin")
               PROVE  CanRead(u, t) <=> /\ day < end[u]
                                        /\ u = t \/ u \in Above(t, MaxDepth)
    BY DEF SeesOwnTree
  <2>1. TypeOK /\ day \in Days /\ held \subseteq Assignment
    BY <1>1 DEF RolesIInv, TypeOK
  <2>2. day \in Int /\ Forever \in Int /\ day < Forever
    BY <2>1, DayFacts
  <2>3. day < end[u] <=> u \in Active
    <3>1. end[u] \in Int /\ (end[u] = Forever \/ end[u] <= day)
      BY <2>1, <2>2 DEF TypeOK, NothingAhead
    <3> QED
      BY <2>2, <3>1 DEF Active
  <2>4. \A p \in People : Boss(p) = line[p].who
    BY DEF NothingAhead, Boss
  <2>5. \A role \in Derived : Holds(u, role) <=> u \in Target(role)
    <3> SUFFICES ASSUME NEW role \in Derived PROVE Holds(u, role) <=> u \in Target(role)
      OBVIOUS
    <3>1. \A a \in held : InForce(a, day) <=> a.to = Forever
      <4>1. \A a \in held : a.from \in Int /\ a.to \in Int /\ Dated(a, day)
        BY <1>1, <2>1, RowFacts DEF TreeInv, Past
      <4> QED
        BY <2>2, <4>1 DEF Dated, InForce
    <3>2. {a.who : a \in {r \in held : r.role = role /\ r.to = Forever}} = Target(role)
      BY <1>1 DEF TreeInv, Synced
    <3> QED
      BY <3>1, <3>2 DEF Holds
  <2>6. /\ Holds(u, "employee") <=> u \in Active
        /\ Holds(u, "manager") <=> u \in Managers
    BY <2>5 DEF Derived, Target
  <2>7. CanRead(u, t) <=> \/ u = t /\ u \in Active
                          \/ u \in Managers /\ u \in Above(t, MaxDepth)
    <3>1. (\E role \in Given : Holds(u, role)) <=> u \in Active
      <4>1. Managers \subseteq Active
        BY DEF Managers
      <4> QED
        BY <2>6, <4>1 DEF Given, Derived
    <3>2. ReportsTo(t, u) <=> u \in Above(t, MaxDepth)
      BY <2>1, ChainIsAbove DEF ReportsTo
    <3> QED
      BY <2>6, <3>1, <3>2 DEF CanRead
  <2>8. u \in Above(t, MaxDepth) => (u \in Managers <=> u \in Active)
    BY <2>1, <2>4, AboveFacts DEF Managers
  <2>9. u \in Managers => u \in Active
    BY DEF Managers
  <2> QED
    BY <2>3, <2>7, <2>8, <2>9
<1> QED
  BY <1>1, RolesInvariant, TreeInvariant, PTL
=============================================================================
