------------------------------- MODULE SignIn -------------------------------
(***************************************************************************)
(* From an account of the identity provider to an employee: the sign-in of *)
(* the web client (auth.ts), AuthGuard with its cache, and the function    *)
(* resolve_employee_by_subject (0006), which links an account to the       *)
(* employee with its work email the first time.  A page asks several       *)
(* questions at once; each runs through the guard on its own.              *)
(***************************************************************************)
EXTENDS Naturals

CONSTANTS
    Employees, \* employee rows of one organisation
    Subjects,  \* accounts of the identity provider
    Mails,     \* work emails
    ClaimOf,   \* ClaimOf[u]: the email in the token of u
    Asks,      \* Asks[u]: the questions of a page (me, my reports, the goal periods)
    None,      \* no subject, no email, no employee
    MaxWrites  \* bound: how often HR or an import writes an employee

ASSUME ClaimsAssumption == ClaimOf \in [Subjects -> Mails]
ASSUME AsksAssumption == DOMAIN Asks = Subjects
ASSUME NoneAssumption == None \notin Employees \cup Subjects \cup Mails
ASSUME WritesAssumption == MaxWrites \in Nat

VARIABLES
    row,     \* row[e]: employee
    cache,   \* cache[u]: subjectCache, the entries that have not expired
    call,    \* call[c]: the request that asks q for u, c = <<u, q>>
    gone,    \* requests whose page has been left
    tab,     \* tab[u]: where the browser of u is
    asked,   \* asked[u]: what has become of the questions of its page
    writes   \* employees written

serverVars  == <<row, cache, writes>>
browserVars == <<gone, tab, asked>>
signInVars == <<serverVars, call, browserVars>>

Calls == UNION {{u} \X Asks[u] : u \in Subjects}

Row == [status : {"absent", "active", "separated"},
        subject : Subjects \cup {None}, mail : Mails \cup {None}]

\* reading and linking: at the SELECT and the UPDATE of the function.  linked: its
\* row is written and held.  found: the employee is known and goes into the
\* cache.  Last, the answers.
Steps == {"idle", "reading", "linking", "linked", "found",
          "served", "refused", "failed"}

Call == [at : Steps, id : Employees \cup {None}]
To(at, id) == [at |-> at, id |-> id]

SignInTypeOK ==
    /\ row \in [Employees -> Row]
    /\ cache \in [Subjects -> Employees \cup {None}]
    /\ call \in [Calls -> Call]
    /\ gone \subseteq Calls
    /\ tab \in [Subjects -> {"provider", "page"}]
    /\ \A u \in Subjects : asked[u] \in [Asks[u] -> {"open", "again", "done", "error"}]
    /\ writes \in 0..MaxWrites

\* The row a request is linking is held until it commits.
Held(e) == \E c \in Calls : call[c] = To("linked", e)

LinkOf(u) == {e \in Employees : row[e].subject = u}

NewPage(u) == [q \in Asks[u] |-> "open"]

SignInInit ==
    /\ row \in [Employees -> {[status |-> "absent", subject |-> None, mail |-> None]}
                          \cup [status : {"active"}, subject : {None}, mail : Mails]]
    /\ \A d, e \in Employees : row[d].mail = row[e].mail /\ row[e].mail # None => d = e
    /\ cache = [u \in Subjects |-> None]
    /\ call = [c \in Calls |-> To("idle", None)]
    /\ gone = {}
    /\ tab = [u \in Subjects |-> "provider"]
    /\ asked = [u \in Subjects |-> NewPage(u)]
    /\ writes = 0

(***************************************************************************)
(* The browser.  Opened without a token that is good, the application goes *)
(* to the provider at once.                                                *)
(***************************************************************************)
\* The provider knows the account; completeSigninIfCallback() opens the page.
SignIn(u) ==
    /\ tab[u] = "provider"
    /\ tab' = [tab EXCEPT ![u] = "page"]
    /\ asked' = [asked EXCEPT ![u] = NewPage(u)]
    /\ UNCHANGED <<serverVars, call, gone>>

\* What is still under way for u is not listened to any more.
Abandoned(u) == gone \cup {c \in Calls : c[1] = u /\ call[c].at # "idle"}

\* The page is loaded again, or asks after the session was closed or the token has
\* expired by the browser's own clock (currentUser).
OpenAnew(u) ==
    /\ tab[u] = "page"
    /\ \E to \in {"page", "provider"} : tab' = [tab EXCEPT ![u] = to]
    /\ asked' = [asked EXCEPT ![u] = NewPage(u)]
    /\ gone' = Abandoned(u)
    /\ UNCHANGED <<serverVars, call>>

\* A query that fails is retried once (main.tsx).
AfterFailure(status) == IF status = "open" THEN "again" ELSE "error"

\* The answer reaches the browser.  A 401 removes the user and leaves for the
\* provider, whatever else the page was waiting for.
Hear(u, q) ==
    LET c == <<u, q>>
        done == call' = [call EXCEPT ![c] = To("idle", None)]
        set(status) == asked' = [asked EXCEPT ![u][q] = status]
    IN
    /\ done
    /\ \/ /\ c \in gone /\ call[c].at \in {"served", "refused", "failed"}
          /\ gone' = gone \ {c}
          /\ UNCHANGED <<tab, asked>>
       \/ /\ c \notin gone /\ call[c].at = "served"
          /\ set("done") /\ UNCHANGED <<gone, tab>>
       \/ /\ c \notin gone /\ call[c].at = "failed"
          /\ set(AfterFailure(asked[u][q])) /\ UNCHANGED <<gone, tab>>
       \/ /\ c \notin gone /\ call[c].at = "refused"
          /\ tab' = [tab EXCEPT ![u] = "provider"]
          /\ gone' = Abandoned(u) \ {c} /\ asked' = asked
    /\ UNCHANGED serverVars

(***************************************************************************)
(* The guard.                                                              *)
(***************************************************************************)
Proceeds(c, at, id) == call' = [call EXCEPT ![c] = To(at, id)]

\* api(), for a question of the page or once more after it failed.
Asking(u, q) ==
    /\ tab[u] = "page" /\ asked[u][q] \in {"open", "again"}
    /\ call[<<u, q>>].at = "idle"

\* The token is not accepted, though the browser takes it for good: no bearer, a
\* check of jwtVerify() that fails (clocks apart, another issuer or audience, keys
\* that cannot be fetched), no subject.  Nothing is looked up, not even the cache.
Reject(u, q) ==
    /\ Asking(u, q)
    /\ Proceeds(<<u, q>>, "refused", None)
    /\ UNCHANGED <<serverVars, browserVars>>

\* The token is accepted, and an entry of the cache that has not expired answers at
\* once (resolveEmployee).
Ask(u, q) ==
    /\ Asking(u, q)
    /\ IF cache[u] # None THEN Proceeds(<<u, q>>, "served", cache[u])
                           ELSE Proceeds(<<u, q>>, "reading", None)
    /\ UNCHANGED <<serverVars, browserVars>>

\* Mutant: the employee's status is not looked at.
EmployedEver(e) == row[e].status # "absent"

Employed(e) == row[e].status = "active"

\* Mutant: nobody looks for the link that is there.
ReadUnlinked(u, q) ==
    /\ call[<<u, q>>].at = "reading"
    /\ Proceeds(<<u, q>>, "linking", None)
    /\ UNCHANGED <<serverVars, browserVars>>

\* The SELECT of resolve_employee_by_subject.
Read(u, q) ==
    /\ call[<<u, q>>].at = "reading"
    /\ \/ \E e \in LinkOf(u) : Employed(e) /\ Proceeds(<<u, q>>, "found", e)
       \/ /\ \A e \in LinkOf(u) : ~Employed(e)
          /\ Proceeds(<<u, q>>, "linking", None)
    /\ UNCHANGED <<serverVars, browserVars>>

\* Mutant: without the safety clause.
LinkableAgain(u, e) == row[e].mail = ClaimOf[u] /\ Employed(e)

\* Its UPDATE takes the row with this work email that nobody is linked to.
Linkable(u, e) ==
    row[e].mail = ClaimOf[u] /\ row[e].subject = None /\ Employed(e)

\* A row that somebody holds is waited for, and looked at again; a subject that
\* another row has, or is being given, is waited for and refused by the index.
Link(u, q) ==
    LET c == <<u, q>> IN
    /\ call[c].at = "linking"
    /\ \/ \E e \in Employees :
             /\ Linkable(u, e) /\ ~Held(e)
             /\ \A r \in Asks[u] : call[<<u, r>>].at # "linked"
             /\ IF LinkOf(u) \ {e} = {} THEN Proceeds(c, "linked", e)
                                        ELSE Proceeds(c, "failed", None)
       \/ /\ \A e \in Employees : ~Linkable(u, e)
          /\ Proceeds(c, "refused", None)
    /\ UNCHANGED <<serverVars, browserVars>>

CommitLink(u, q) ==
    LET e == call[<<u, q>>].id IN
    /\ call[<<u, q>>].at = "linked"
    /\ row' = [row EXCEPT ![e].subject = u]
    /\ Proceeds(<<u, q>>, "found", e)
    /\ UNCHANGED <<cache, writes, browserVars>>

\* The entry is made after the transaction, for a minute from then.
Remember(u, q) ==
    /\ call[<<u, q>>].at = "found"
    /\ cache' = [cache EXCEPT ![u] = call[<<u, q>>].id]
    /\ Proceeds(<<u, q>>, "served", call[<<u, q>>].id)
    /\ UNCHANGED <<row, writes, browserVars>>

\* The database is not there, the connection is lost: the transaction is undone.
Fail(c) ==
    /\ call[c].at \in {"reading", "linking", "linked"}
    /\ Proceeds(c, "failed", None)
    /\ UNCHANGED <<serverVars, browserVars>>

\* The minute is over, or the cache was full and is cleared.
EntryExpires(u) ==
    /\ cache[u] # None
    /\ cache' = [cache EXCEPT ![u] = None]
    /\ UNCHANGED <<row, writes, call, browserVars>>

(***************************************************************************)
(* The employees.                                                          *)
(***************************************************************************)
\* separate_employee: the link stays.
Separate(e) ==
    /\ Employed(e) /\ ~Held(e)
    /\ row' = [row EXCEPT ![e].status = "separated"]
    /\ UNCHANGED <<cache, writes, call, browserVars>>

\* HR or an import: a new row, or another email for one that is there.  The index
\* employee_work_email_active_uq looks at everybody who is not deleted.
WriteEmployee(e, mail) ==
    /\ writes < MaxWrites /\ ~Held(e)
    /\ \A d \in Employees \ {e} : mail # None => row[d].mail # mail
    /\ row' = [row EXCEPT ![e].mail = mail,
                          ![e].status = IF @ = "absent" THEN "active" ELSE @]
    /\ writes' = writes + 1
    /\ UNCHANGED <<cache, call, browserVars>>

Guard(u, q) ==
    \/ Read(u, q) \/ Link(u, q) \/ CommitLink(u, q)
    \/ Remember(u, q)

SignInNext ==
    \/ \E u \in Subjects :
          \/ SignIn(u) \/ OpenAnew(u) \/ EntryExpires(u)
          \/ \E q \in Asks[u] : Ask(u, q) \/ Reject(u, q) \/ Hear(u, q) \/ Guard(u, q)
    \/ \E c \in Calls : Fail(c)
    \/ \E e \in Employees : Separate(e) \/ (\E mail \in Mails \cup {None} : WriteEmployee(e, mail))

SignInSpec == SignInInit /\ [][SignInNext]_signInVars

\* Requests are answered, who waits for a row gets it in turn, entries expire,
\* and a browser that is open goes on.  Nobody has to open a page, to join or to
\* leave, no request has to fail, and no token has to be accepted in the end.
FairSpec ==
    /\ SignInSpec
    /\ \A u \in Subjects :
          /\ WF_signInVars(SignIn(u)) /\ WF_signInVars(EntryExpires(u))
          /\ \A q \in Asks[u] :
                /\ WF_signInVars(Ask(u, q)) /\ WF_signInVars(Hear(u, q))
                /\ WF_signInVars(Guard(u, q)) /\ SF_signInVars(Link(u, q))

(***************************************************************************)
(* Properties                                                              *)
(***************************************************************************)

\* An employee bound to an account stays bound to it, and an account to one
\* employee, whichever requests link at the same time and whoever has the email
\* next: "can never be re-bound" (0006).
BoundForGood ==
    [][\A u \in Subjects, e \in Employees :
          row[e].subject = u =>
             \A d \in Employees : row'[d].subject = u <=> d = e]_signInVars

\* A stale entry does not outlive a separation by long (subjectCache): from some
\* point on no request and no entry names somebody who has left.
LeaverShutOut ==
    \A e \in Employees :
       row[e].status = "separated"
          ~> [](/\ \A c \in Calls : call[c].id # e
                /\ \A u \in Subjects : cache[u] # e)

\* The account has its employee, or will have at its next request.
Welcome(u) ==
    \/ \E e \in LinkOf(u) : Employed(e)
    \/ LinkOf(u) = {} /\ \E e \in Employees : Linkable(u, e)

Settled(u) ==
    tab[u] = "page" /\ \A q \in Asks[u] : asked[u][q] \in {"done", "error"}

Rejected(u) == \E q \in Asks[u] : Reject(u, q)

\* Somebody who has an employee record gets their page, however the first
\* requests of it race for the link, and whatever tokens were rejected before:
\* once they are accepted and nobody opens it anew, its questions are answered, or
\* have failed twice, and it is not left for the provider again.
SignInSettles ==
    \A u \in Subjects :
       /\ <>[]Welcome(u)
       /\ <>[][~OpenAnew(u)]_signInVars
       /\ <>[][~Rejected(u)]_signInVars
       => <>[]Settled(u)

(***************************************************************************)
(* What documents say and the code does not do                             *)
(***************************************************************************)

\* Who is signed in is shown a page, if only one that "says there is no employee
\* record" (basics-signing-in.md).
SignInEnds ==
    \A u \in Subjects :
       <>[][~OpenAnew(u)]_signInVars /\ <>[][~Rejected(u)]_signInVars => <>[]Settled(u)

\* To a token "rejected despite looking valid locally -- clock skew" the client's
\* answer is "Re-authenticate rather than showing a confusing empty state"
\* (auth.ts:150): while the clocks stay apart an employee goes to the provider and
\* back for ever.
ReauthenticationHelps ==
    \A u \in Subjects :
       <>[]Welcome(u) /\ <>[][~OpenAnew(u)]_signInVars => <>[]Settled(u)

\* Denying an account its employee is for who "exist in AD but were never imported"
\* (canActivate): none is denied who has an employee record.
RefusedOnlyUnlinked ==
    [][\A c \in Calls :
          call[c].at = "linking" /\ call'[c].at = "refused" => ~Welcome(c[1])]_signInVars
=============================================================================
