-------------------------- MODULE Enrolment_proofs --------------------------
(***************************************************************************)
(* However requests interleave, fail or die: the tables stay in order, and  *)
(* as long as two requests for a passphrase have not overlapped, a valid    *)
(* passphrase opens one scope and no member is refused.                     *)
(***************************************************************************)
EXTENDS Enrolment, TLAPS

-----------------------------------------------------------------------------
(* The inductive invariant *)

IssuePcs == {"checkCohorts", "checkGroups", "store"}
LoginPcs == {"seekCohort", "seekGroup", "belongs", "admitted", "refused"}

\* What a request has when it comes to a statement.
JobOK(j) ==
  /\ j.pc \in IssuePcs => j.scope \in Scopes /\ j.phrase \in Phrases
  /\ j.pc \in {"findActive", "clear"} => j.scope \in Scopes
  /\ j.pc \in {"insertGroup", "rename", "createOU", "insertCohort"} => j.name \in Names
  /\ j.pc \in {"rename", "dropGroup", "findMember", "addMember", "remove", "belongs"} =>
       j.scope \in Groups
  /\ j.pc \in {"findMember", "addMember", "remove", "insertUser", "patch", "createUser"} =>
       j.user \in Users
  /\ j.pc \in {"seekCohort", "seekGroup"} =>
       j.user \in Users /\ j.phrase \in Phrases /\ j.then \in {"signUp", "login"}
  /\ j.pc \in {"addMember", "patch"} => user[j.user].known
  /\ j.pc = "createUser" => j.scope \in Scopes /\ (j.scope \in Cohorts => Live(j.scope))
  /\ j.then = "login" => j.user \in Users /\ j.phrase \in Phrases /\ j.pc \in LoginPcs
  /\ j.pc = "belongs" => j.then = "login"

JobsOK == \A h \in Handlers : JobOK(job[h])

ActiveKnown == \A u \in Users : user[u].active => user[u].known

\* What is owed to a login is what entitles its user, and of cohorts only the user's.
OwedOK(h) ==
  IF job[h].then = "login"
    THEN owed[h] \subseteq Entitling(h) /\ owed[h] \cap Cohorts \subseteq {job[h].cohort}
    ELSE owed[h] = {}

\* No two scopes have the same passphrase that is valid after t.
Distinct(t) ==
  \A r, s \in Scopes :
    r # s /\ scope[r].phrase # "none" /\ scope[r].phrase = scope[s].phrase
      => scope[r].expires <= t \/ scope[s].expires <= t

\* No scope of K but j's has j's phrase any more.
Free(K, j) ==
  \A s \in K : s # j.scope /\ scope[s].phrase = j.phrase => scope[s].expires <= j.at

\* What a request for a passphrase knows of the rows compared.
IssueOK(j) ==
  j.pc \in IssuePcs =>
    /\ j.at <= now /\ Distinct(j.at)
    /\ j.pc \in {"checkGroups", "store"} => Free(Cohorts, j)
    /\ j.pc = "store" => Free(Groups, j)

OneIssues == \A h, k \in Handlers : Issuing(h) /\ Issuing(k) => h = k

\* What a login owed something knows of where it can be found.
LoginOK(h) ==
  LET j == job[h] IN
  j.then = "login" =>
    /\ j.pc = "seekGroup" =>
         /\ j.at <= now
         /\ owed[h] \cap Cohorts = {}
         /\ \A g \in owed[h], s \in Scopes :
              s # g /\ scope[s].phrase = j.phrase => scope[s].expires <= j.at
    /\ j.pc = "belongs" => owed[h] \subseteq {j.scope}
    /\ j.pc = "refused" => owed[h] = {}

Uncrossed ==
  /\ OneIssues
  /\ Distinct(now)
  /\ \A h \in Handlers : IssueOK(job[h]) /\ LoginOK(h)

IInv ==
  /\ TypeOK
  /\ ActiveKnown
  /\ JobsOK
  /\ \A h \in Handlers : OwedOK(h)
  /\ ~crossed => Uncrossed

-----------------------------------------------------------------------------
(* Requests as records *)

Rest(k, j) ==
  /\ k.scope = j.scope /\ k.phrase = j.phrase /\ k.chosen = j.chosen /\ k.at = j.at
  /\ k.tries = j.tries /\ k.user = j.user /\ k.cohort = j.cohort /\ k.inactive = j.inactive
  /\ k.name = j.name /\ k.todo = j.todo /\ k.then = j.then

LEMMA NoJobIsJob == NoJob \in Job /\ NoJob.pc = "idle" /\ NoJob.then = "none"
BY EnrolmentAssumption DEF NoJob, Job, Pcs

-----------------------------------------------------------------------------
(* What a step leaves of what other requests know *)

Keeps ==
  /\ \A u \in Users : user[u].known => user'[u].known
  /\ \A c \in Cohorts : Live(c) => Live(c)'

\* No passphrase is stored.
Shrinks ==
  \A s \in Scopes :
    /\ scope'[s].phrase \in {scope[s].phrase, "none"}
    /\ scope'[s].phrase # "none" => scope'[s].expires = scope[s].expires

Later == now' \in Nat /\ now <= now'

LEMMA OwedNone ==
  ASSUME NEW k \in Handlers, Watch, job'[k].then # "login"
  PROVE  OwedOK(k)'
BY DEF Watch, OwedOK

LEMMA OwedShrinks ==
  ASSUME NEW k \in Handlers, Watch, OwedOK(k), job[k].then = "login", job[k].pc # "idle",
         job'[k].cohort = job[k].cohort
  PROVE  OwedOK(k)' /\ (job'[k].then = "login" => owed'[k] \subseteq owed[k] \cap Entitling(k)')
<1>1. CASE job'[k].then = "login"
  <2>1. owed'[k] = owed[k] \cap Entitling(k)'
    BY <1>1 DEF Watch, At
  <2>2. owed[k] \cap Cohorts \subseteq {job[k].cohort}
    BY DEF OwedOK
  <2> QED BY <1>1, <2>1, <2>2 DEF OwedOK
<1>2. CASE job'[k].then # "login"
  BY <1>2, OwedNone
<1> QED BY <1>1, <1>2

LEMMA OthersOwed ==
  ASSUME JobsOK, NEW k \in Handlers, Watch, OwedOK(k), job'[k] = job[k]
  PROVE  OwedOK(k)' /\ owed'[k] \subseteq owed[k]
<1>1. CASE job[k].then = "login"
  <2>1. job[k].pc # "idle"
    BY <1>1 DEF JobsOK, JobOK, LoginPcs
  <2> QED BY <1>1, <2>1, OwedShrinks
<1>2. CASE job[k].then # "login"
  BY <1>2 DEF Watch, OwedOK
<1> QED BY <1>1, <1>2

LEMMA OthersJob ==
  ASSUME Keeps, NEW k \in Handlers, JobOK(job[k]), job'[k] = job[k]
  PROVE  JobOK(job[k])'
BY DEF JobOK, Keeps

LEMMA DistinctKept ==
  ASSUME TypeOK, TypeOK', Shrinks, NEW t \in Nat, Distinct(t)
  PROVE  \A r, s \in Scopes :
           r # s /\ scope'[r].phrase # "none" /\ scope'[r].phrase = scope'[s].phrase
             => scope'[r].expires <= t \/ scope'[s].expires <= t
BY DEF Distinct, Shrinks

LEMMA OthersIssue ==
  ASSUME TypeOK, TypeOK', Shrinks, Later, NEW k \in Handlers, JobOK(job[k]), IssueOK(job[k]),
         job'[k] = job[k]
  PROVE  IssueOK(job[k])'
<1> SUFFICES ASSUME job[k].pc \in IssuePcs
             PROVE  IssueOK(job[k])'
  BY DEF IssueOK
<1>1. job[k].at \in Nat /\ job[k].at <= now /\ Distinct(job[k].at) /\ now \in Nat
  BY DEF IssueOK, TypeOK, Job
<1>2. (job[k].at <= now)'
  BY <1>1 DEF Later
<1>3. Distinct(job[k].at)'
  BY <1>1, DistinctKept DEF Distinct
<1>4. job[k].phrase # "none"
  BY EnrolmentAssumption DEF JobOK
<1>5. Free(Cohorts, job[k]) => Free(Cohorts, job[k])'
  BY <1>4 DEF Free, Shrinks, Scopes
<1>6. Free(Groups, job[k]) => Free(Groups, job[k])'
  BY <1>4 DEF Free, Shrinks, Scopes
<1> QED BY <1>2, <1>3, <1>5, <1>6 DEF IssueOK

LEMMA OthersLogin ==
  ASSUME TypeOK, TypeOK', Shrinks, Later, NEW k \in Handlers, JobOK(job[k]), LoginOK(k),
         job'[k] = job[k], owed'[k] \subseteq owed[k]
  PROVE  LoginOK(k)'
<1> SUFFICES ASSUME job[k].then = "login"
             PROVE  LoginOK(k)'
  BY DEF LoginOK
<1>1. job[k].phrase # "none"
  BY EnrolmentAssumption DEF JobOK
<1>2. job[k].at \in Nat /\ now \in Nat
  BY DEF TypeOK, Job
<1>3. owed[k] \subseteq Scopes
  BY DEF TypeOK
<1>4. ASSUME job[k].pc = "seekGroup"
      PROVE  /\ job[k].at <= now'
             /\ owed'[k] \cap Cohorts = {}
             /\ \A g \in owed'[k], s \in Scopes :
                  s # g /\ scope'[s].phrase = job[k].phrase => scope'[s].expires <= job[k].at
  <2>1. job[k].at <= now' /\ owed'[k] \cap Cohorts = {}
    BY <1>2, <1>4 DEF LoginOK, Later
  <2>2. ASSUME NEW g \in owed'[k], NEW s \in Scopes, s # g, scope'[s].phrase = job[k].phrase
        PROVE  scope'[s].expires <= job[k].at
    <3>1. scope[s].phrase = job[k].phrase /\ scope'[s].expires = scope[s].expires
      BY <1>1, <2>2 DEF Shrinks
    <3> QED BY <1>4, <2>2, <3>1 DEF LoginOK
  <2> QED BY <2>1, <2>2
<1>5. job[k].pc = "belongs" => owed'[k] \subseteq {job[k].scope}
  BY DEF LoginOK
<1>6. job[k].pc = "refused" => owed'[k] = {}
  BY DEF LoginOK
<1> QED BY <1>4, <1>5, <1>6 DEF LoginOK

-----------------------------------------------------------------------------
(* A step of one request *)

Moves(h, j) == job' = [job EXCEPT ![h] = j]

LEMMA OneStep ==
  ASSUME IInv, TypeOK', ActiveKnown', Keeps, Watch, Later,
         NEW h \in Handlers, NEW j \in Job, Moves(h, j), JobOK(j)', OwedOK(h)',
         ~crossed' => ~crossed /\ Shrinks /\ OneIssues' /\ IssueOK(j)' /\ LoginOK(h)'
  PROVE  IInv'
<1>0. job'[h] = j /\ \A k \in Handlers : k # h => job'[k] = job[k]
  BY DEF Moves, IInv, TypeOK
<1>1. JobsOK'
  <2>1. ASSUME NEW k \in Handlers, k # h PROVE JobOK(job[k])'
    BY <1>0, <2>1, OthersJob DEF IInv, JobsOK
  <2>2. JobOK(job[h])'
    BY <1>0 DEF JobOK
  <2> QED BY <2>1, <2>2 DEF JobsOK
<1>2. ASSUME NEW k \in Handlers PROVE OwedOK(k)' /\ (k # h => owed'[k] \subseteq owed[k])
  BY <1>0, OthersOwed DEF IInv
<1>3. ASSUME ~crossed' PROVE Uncrossed'
  <2>1. ~crossed /\ Shrinks /\ Uncrossed /\ JobsOK /\ TypeOK
    BY <1>3 DEF IInv
  <2>2. OneIssues'
    BY <1>3
  <2>3. Distinct(now)'
    <3>1. now \in Nat /\ now' \in Nat /\ now <= now' /\ Distinct(now)
      BY <2>1 DEF Uncrossed, TypeOK, Later
    <3>2. \A s \in Scopes : scope'[s].expires \in Nat
      BY DEF TypeOK, Row
    <3> QED BY <2>1, <3>1, <3>2, DistinctKept DEF Distinct
  <2>4. ASSUME NEW k \in Handlers, k # h PROVE IssueOK(job[k])' /\ LoginOK(k)'
    <3>1. JobOK(job[k]) /\ IssueOK(job[k]) /\ LoginOK(k)
      BY <2>1 DEF Uncrossed, JobsOK
    <3> QED BY <1>0, <1>2, <2>1, <2>4, <3>1, OthersIssue, OthersLogin
  <2>5. IssueOK(job[h])' /\ LoginOK(h)'
    BY <1>0, <1>3 DEF IssueOK, Free, Distinct
  <2> QED BY <2>2, <2>3, <2>4, <2>5 DEF Uncrossed
<1> QED BY <1>1, <1>2, <1>3 DEF IInv

\* Of a request that neither issues a passphrase afterwards nor signs in.
LEMMA PlainStep ==
  ASSUME IInv, TypeOK', ActiveKnown', Keeps, Shrinks, Watch, Later, crossed' = crossed,
         NEW h \in Handlers, NEW j \in Job, Moves(h, j), JobOK(j)',
         j.pc \notin IssuePcs, j.then # "login"
  PROVE  IInv'
<1>0. job'[h] = j /\ \A k \in Handlers : k # h => job'[k] = job[k]
  BY DEF Moves, IInv, TypeOK
<1>1. OwedOK(h)'
  BY <1>0, OwedNone
<1>2. IssueOK(j)' /\ LoginOK(h)'
  BY <1>0 DEF IssueOK, LoginOK
<1>3. OneIssues => OneIssues'
  BY <1>0 DEF OneIssues, Issuing, IssuePcs
<1> QED BY <1>1, <1>2, <1>3, OneStep DEF IInv, Uncrossed

\* Requests that stay where they are or end.
LEMMA Fades ==
  ASSUME IInv, TypeOK', ActiveKnown', Keeps, Shrinks, Watch, Later, crossed' = crossed,
         \A k \in Handlers : job'[k] = job[k] \/ job'[k] = NoJob
  PROVE  IInv'
<1>0. ASSUME NEW k \in Handlers, job'[k] = NoJob
      PROVE  JobOK(job[k])' /\ OwedOK(k)' /\ IssueOK(job[k])' /\ LoginOK(k)'
  <2>1. job'[k].pc = "idle" /\ job'[k].then = "none"
    BY <1>0, NoJobIsJob
  <2> QED BY <2>1, OwedNone DEF JobOK, IssueOK, LoginOK, IssuePcs
<1>1. ASSUME NEW k \in Handlers, job'[k] = job[k]
      PROVE  /\ JobOK(job[k])' /\ OwedOK(k)'
             /\ ~crossed => IssueOK(job[k])' /\ LoginOK(k)'
  <2>1. JobOK(job[k])' /\ OwedOK(k)' /\ owed'[k] \subseteq owed[k]
    BY <1>1, OthersJob, OthersOwed DEF IInv, JobsOK
  <2>2. ASSUME ~crossed PROVE IssueOK(job[k])' /\ LoginOK(k)'
    BY <1>1, <2>1, <2>2, OthersIssue, OthersLogin DEF IInv, Uncrossed, JobsOK
  <2> QED BY <2>1, <2>2
<1>2. JobsOK' /\ \A k \in Handlers : OwedOK(k)'
  BY <1>0, <1>1 DEF JobsOK
<1>3. ASSUME ~crossed PROVE Uncrossed'
  <2>1. OneIssues'
    <3>1. \A k \in Handlers : job'[k].pc \in IssuePcs => job[k].pc \in IssuePcs
      BY NoJobIsJob DEF IssuePcs
    <3> QED BY <1>3, <3>1 DEF IInv, Uncrossed, OneIssues, Issuing, IssuePcs
  <2>2. Distinct(now)'
    <3>1. now \in Nat /\ now' \in Nat /\ now <= now' /\ Distinct(now) /\ TypeOK
      BY <1>3 DEF IInv, Uncrossed, TypeOK, Later
    <3>2. \A s \in Scopes : scope'[s].expires \in Nat
      BY DEF TypeOK, Row
    <3> QED BY <3>1, <3>2, DistinctKept DEF Distinct
  <2> QED BY <1>0, <1>1, <1>3, <2>1, <2>2 DEF Uncrossed
<1> QED BY <1>2, <1>3 DEF IInv

-----------------------------------------------------------------------------
(* Steps that change no table *)

LEMMA OwedTyped == ASSUME Watch PROVE owed' \in [Handlers -> SUBSET Scopes]
<1>1. \A h \in Handlers : Entitling(h)' \subseteq Scopes
  BY DEF Entitling
<1>2. \A h \in Handlers : owed'[h] \in SUBSET Scopes
  BY <1>1 DEF Watch
<1> QED BY <1>2 DEF Watch

LEMMA TablesStay ==
  ASSUME IInv, UNCHANGED <<scope, user, member, ou, now>>, Watch, job' \in [Handlers -> Job],
         crossed' \in BOOLEAN, ops' \in Nat, mishaps' \in Nat
  PROVE  TypeOK' /\ ActiveKnown' /\ Keeps /\ Shrinks /\ Later
<1>1. TypeOK'
  BY OwedTyped DEF IInv, TypeOK, Live
<1>2. ActiveKnown' /\ Keeps /\ Shrinks /\ Later
  BY DEF IInv, TypeOK, ActiveKnown, Keeps, Live, Shrinks, Later
<1> QED BY <1>1, <1>2

LEMMA Moved ==
  ASSUME TypeOK, NEW h \in Handlers, NEW j \in Job, Moves(h, j)
  PROVE  job' \in [Handlers -> Job] /\ job'[h] = j /\ \A k \in Handlers : k # h => job'[k] = job[k]
BY DEF Moves, TypeOK

LEMMA Counted ==
  ASSUME TypeOK, NEW op, Count(op)
  PROVE  ops' \in Nat /\ mishaps' \in Nat
BY DEF TypeOK, Count

LEMMA Began ==
  ASSUME IInv, NEW h \in Handlers, NEW op, NEW j \in Job, Begin(h, op, j), Watch,
         crossed' \in BOOLEAN
  PROVE  /\ Moves(h, j) /\ At(h, "idle") /\ UNCHANGED <<scope, user, member, ou, now>>
         /\ TypeOK' /\ ActiveKnown' /\ Keeps /\ Shrinks /\ Later
<1>1. Moves(h, j) /\ At(h, "idle") /\ UNCHANGED <<scope, user, member, ou, now>> /\ Count(op)
  BY DEF Begin, Moves, Set, people
<1>2. TypeOK
  BY DEF IInv
<1> QED BY <1>1, <1>2, Moved, Counted, TablesStay

LEMMA BeginsPlain ==
  ASSUME IInv, NEW h \in Handlers, NEW op, NEW j \in Job, Begin(h, op, j), Watch,
         crossed' = crossed, JobOK(j), j.pc \notin IssuePcs, j.then # "login"
  PROVE  IInv'
<1>1. crossed' \in BOOLEAN
  BY DEF IInv, TypeOK
<1>2. UNCHANGED <<scope, user>>
  BY <1>1, Began
<1>3. JobOK(j)'
  BY <1>2 DEF JobOK, Live
<1> QED BY <1>1, <1>3, Began, PlainStep

ReadsOnly == UNCHANGED <<scope, people, ou, now, budget, crossed>>

LEMMA Read ==
  ASSUME IInv, NEW h \in Handlers, NEW j \in Job, Moves(h, j), ReadsOnly, Watch
  PROVE  TypeOK' /\ ActiveKnown' /\ Keeps /\ Shrinks /\ Later /\ (JobOK(j) => JobOK(j)')
<1>1. /\ UNCHANGED <<scope, user, member, ou, now>>
      /\ crossed' \in BOOLEAN /\ ops' \in Nat /\ mishaps' \in Nat
  BY DEF ReadsOnly, people, budget, IInv, TypeOK
<1>2. job' \in [Handlers -> Job]
  BY Moved DEF IInv
<1>3. JobOK(j) => JobOK(j)'
  BY <1>1 DEF JobOK, Live
<1> QED BY <1>1, <1>2, <1>3, TablesStay

LEMMA ReadsPlain ==
  ASSUME IInv, NEW h \in Handlers, NEW j \in Job, Moves(h, j), ReadsOnly, Watch,
         JobOK(j), j.pc \notin IssuePcs, j.then # "login"
  PROVE  IInv'
<1>1. crossed' = crossed
  BY DEF ReadsOnly
<1> QED BY <1>1, Read, PlainStep

LEMMA NoJobOK == JobOK(NoJob) /\ NoJob \in Job /\ NoJob.pc \notin IssuePcs /\ NoJob.then # "login"
BY NoJobIsJob DEF JobOK, IssuePcs, LoginPcs

LEMMA EndReads ==
  ASSUME IInv, NEW h \in Handlers, End(h), ReadsOnly, Watch
  PROVE  IInv'
BY NoJobOK, ReadsPlain DEF End, Set, Moves

-----------------------------------------------------------------------------
(* Requests that begin *)

LEMMA StartRevokeStep ==
  ASSUME IInv, NEW h \in Handlers, NEW s \in Scopes, StartRevoke(h, s) PROVE IInv'
<1>0. PICK j : j = [NoJob EXCEPT !.pc = "findActive", !.scope = s]
  OBVIOUS
<1>1. "findActive" \in Pcs
  BY DEF Pcs
<1>2. j \in Job /\ j.pc = "findActive" /\ j.scope = s /\ j.then = "none"
  <2>1. j \in Job
    BY ZenonT(60), <1>0, <1>1, NoJobIsJob DEF Job, Pcs, Scopes
  <2>2. j.pc = "findActive" /\ j.scope = s /\ j.then = "none"
    BY ZenonT(60), <1>0, <1>1, NoJobIsJob DEF NoJob
  <2> QED BY <2>1, <2>2
<1>3. Begin(h, "revoke", j) /\ crossed' = crossed /\ Watch
  BY <1>0 DEF StartRevoke
<1>4. JobOK(j) /\ j.pc \notin IssuePcs /\ j.then # "login"
  BY <1>2 DEF JobOK, IssuePcs, LoginPcs
<1> QED BY <1>2, <1>3, <1>4, BeginsPlain

LEMMA StartGroupStep ==
  ASSUME IInv, NEW h \in Handlers, NEW n \in Names, StartGroup(h, n) PROVE IInv'
<1>0. PICK j : j = [NoJob EXCEPT !.pc = "insertGroup", !.name = n]
  OBVIOUS
<1>1. "insertGroup" \in Pcs
  BY DEF Pcs
<1>2. j \in Job /\ j.pc = "insertGroup" /\ j.name = n /\ j.then = "none"
  <2>1. j \in Job
    BY ZenonT(60), <1>0, <1>1, NoJobIsJob DEF Job, Pcs, Scopes
  <2>2. j.pc = "insertGroup" /\ j.name = n /\ j.then = "none"
    BY ZenonT(60), <1>0, <1>1, NoJobIsJob DEF NoJob
  <2> QED BY <2>1, <2>2
<1>3. Begin(h, "group", j) /\ crossed' = crossed /\ Watch
  BY <1>0 DEF StartGroup
<1>4. JobOK(j) /\ j.pc \notin IssuePcs /\ j.then # "login"
  BY <1>2 DEF JobOK, IssuePcs, LoginPcs
<1> QED BY <1>2, <1>3, <1>4, BeginsPlain

LEMMA StartCohortStep ==
  ASSUME IInv, NEW h \in Handlers, NEW n \in Names, StartCohort(h, n) PROVE IInv'
<1>0. PICK j : j = [NoJob EXCEPT !.pc = "createOU", !.name = n]
  OBVIOUS
<1>1. "createOU" \in Pcs
  BY DEF Pcs
<1>2. j \in Job /\ j.pc = "createOU" /\ j.name = n /\ j.then = "none"
  <2>1. j \in Job
    BY ZenonT(60), <1>0, <1>1, NoJobIsJob DEF Job, Pcs, Scopes
  <2>2. j.pc = "createOU" /\ j.name = n /\ j.then = "none"
    BY ZenonT(60), <1>0, <1>1, NoJobIsJob DEF NoJob
  <2> QED BY <2>1, <2>2
<1>3. Begin(h, "cohort", j) /\ crossed' = crossed /\ Watch
  BY <1>0 DEF StartCohort
<1>4. JobOK(j) /\ j.pc \notin IssuePcs /\ j.then # "login"
  BY <1>2 DEF JobOK, IssuePcs, LoginPcs
<1> QED BY <1>2, <1>3, <1>4, BeginsPlain

LEMMA StartSyncGroupsStep ==
  ASSUME IInv, NEW h \in Handlers, StartSyncGroups(h) PROVE IInv'
<1>1. PICK T \in SUBSET Names : T = ou
  BY DEF IInv, TypeOK
<1>0. PICK j : j = [NoJob EXCEPT !.pc = "findGroup", !.todo = T]
  OBVIOUS
<1>2. j \in Job /\ j.pc = "findGroup" /\ j.then = "none"
  <2>1. j \in Job
    BY ZenonT(60), <1>0, NoJobIsJob DEF Job, Pcs, Scopes
  <2>2. j.pc = "findGroup" /\ j.then = "none"
    BY ZenonT(60), <1>0, NoJobIsJob DEF NoJob
  <2> QED BY <2>1, <2>2
<1>3. Begin(h, "syncGroups", j) /\ crossed' = crossed /\ Watch
  BY <1>0, <1>1 DEF StartSyncGroups
<1>4. JobOK(j) /\ j.pc \notin IssuePcs /\ j.then # "login"
  BY <1>2 DEF JobOK, IssuePcs, LoginPcs
<1> QED BY <1>2, <1>3, <1>4, BeginsPlain

LEMMA StartRenameStep ==
  ASSUME IInv, NEW h \in Handlers, NEW g \in Groups, NEW n \in Names, StartRename(h, g, n)
  PROVE  IInv'
<1>0. PICK j : j = [NoJob EXCEPT !.pc = "rename", !.scope = g, !.name = n]
  OBVIOUS
<1>2. j \in Job /\ j.pc = "rename" /\ j.scope = g /\ j.name = n /\ j.then = "none"
  <2>1. j \in Job
    BY ZenonT(60), <1>0, NoJobIsJob DEF Job, Pcs, Scopes
  <2>2. j.pc = "rename" /\ j.scope = g /\ j.name = n /\ j.then = "none"
    BY ZenonT(60), <1>0, NoJobIsJob DEF NoJob
  <2> QED BY <2>1, <2>2
<1>3. Begin(h, "rename", j) /\ crossed' = crossed /\ Watch
  BY <1>0 DEF StartRename
<1>4. JobOK(j) /\ j.pc \notin IssuePcs /\ j.then # "login"
  BY <1>2 DEF JobOK, IssuePcs, LoginPcs
<1> QED BY <1>2, <1>3, <1>4, BeginsPlain

LEMMA StartDropGroupStep ==
  ASSUME IInv, NEW h \in Handlers, NEW g \in Groups, StartDropGroup(h, g) PROVE IInv'
<1>0. PICK j : j = [NoJob EXCEPT !.pc = "dropGroup", !.scope = g]
  OBVIOUS
<1>1. "dropGroup" \in Pcs /\ g \in Scopes
  BY DEF Pcs, Scopes
<1>2. j \in Job /\ j.pc = "dropGroup" /\ j.scope = g /\ j.then = "none"
  <2>1. j \in Job
    BY ZenonT(60), <1>0, <1>1, NoJobIsJob DEF Job, Pcs, Scopes
  <2>2. j.pc = "dropGroup" /\ j.scope = g /\ j.then = "none"
    BY ZenonT(60), <1>0, <1>1, NoJobIsJob DEF NoJob
  <2> QED BY <2>1, <2>2
<1>3. Begin(h, "dropGroup", j) /\ crossed' = crossed /\ Watch
  BY <1>0 DEF StartDropGroup
<1>4. JobOK(j) /\ j.pc \notin IssuePcs /\ j.then # "login"
  BY <1>2 DEF JobOK, IssuePcs, LoginPcs
<1> QED BY <1>2, <1>3, <1>4, BeginsPlain

LEMMA StartAddStep ==
  ASSUME IInv, NEW h \in Handlers, NEW g \in Groups, NEW u \in Users, StartAdd(h, g, u)
  PROVE  IInv'
<1>0. PICK j : j = [NoJob EXCEPT !.pc = "findMember", !.scope = g, !.user = u]
  OBVIOUS
<1>1. "findMember" \in Pcs
  BY DEF Pcs
<1>2. j \in Job /\ j.pc = "findMember" /\ j.scope = g /\ j.user = u /\ j.then = "none"
  <2>1. j \in Job
    BY ZenonT(60), <1>0, <1>1, NoJobIsJob DEF Job, Pcs, Scopes
  <2>2. j.pc = "findMember" /\ j.scope = g /\ j.user = u /\ j.then = "none"
    BY ZenonT(60), <1>0, <1>1, NoJobIsJob DEF NoJob
  <2> QED BY <2>1, <2>2
<1>3. Begin(h, "add", j) /\ crossed' = crossed /\ Watch
  BY <1>0 DEF StartAdd
<1>4. JobOK(j) /\ j.pc \notin IssuePcs /\ j.then # "login"
  BY <1>2 DEF JobOK, IssuePcs, LoginPcs
<1> QED BY <1>2, <1>3, <1>4, BeginsPlain

LEMMA StartRemoveStep ==
  ASSUME IInv, NEW h \in Handlers, NEW g \in Groups, NEW u \in Users, StartRemove(h, g, u)
  PROVE  IInv'
<1>0. PICK j : j = [NoJob EXCEPT !.pc = "remove", !.scope = g, !.user = u]
  OBVIOUS
<1>1. "remove" \in Pcs
  BY DEF Pcs
<1>2. j \in Job /\ j.pc = "remove" /\ j.scope = g /\ j.user = u /\ j.then = "none"
  <2>1. j \in Job
    BY ZenonT(60), <1>0, <1>1, NoJobIsJob DEF Job, Pcs, Scopes
  <2>2. j.pc = "remove" /\ j.scope = g /\ j.user = u /\ j.then = "none"
    BY ZenonT(60), <1>0, <1>1, NoJobIsJob DEF NoJob
  <2> QED BY <2>1, <2>2
<1>3. Begin(h, "remove", j) /\ crossed' = crossed /\ Watch
  BY <1>0 DEF StartRemove
<1>4. JobOK(j) /\ j.pc \notin IssuePcs /\ j.then # "login"
  BY <1>2 DEF JobOK, IssuePcs, LoginPcs
<1> QED BY <1>2, <1>3, <1>4, BeginsPlain

LEMMA StartSyncUserStep ==
  ASSUME IInv, NEW h \in Handlers, NEW u \in Users, StartSyncUser(h, u) PROVE IInv'
<1>1. PICK c \in Cohorts \cup {NoScope} : c = user[u].cohort
  BY DEF IInv, TypeOK, User
<1>2. PICK b \in BOOLEAN : b = (user[u].known /\ ~user[u].active)
  OBVIOUS
<1>3. PICK pc \in Pcs : pc = IF user[u].known THEN "patch" ELSE "insertUser"
  BY DEF Pcs
<1>0. PICK j : j = [NoJob EXCEPT !.pc = pc, !.user = u, !.cohort = c, !.inactive = b]
  OBVIOUS
<1>4. j \in Job /\ j.pc = pc /\ j.user = u /\ j.then = "none"
  <2>1. j \in Job
    BY ZenonT(60), <1>0, NoJobIsJob DEF Job, Pcs, Scopes
  <2>2. j.pc = pc /\ j.user = u /\ j.then = "none"
    BY ZenonT(60), <1>0, NoJobIsJob DEF NoJob
  <2> QED BY <2>1, <2>2
<1>5. Begin(h, "syncUser", j) /\ crossed' = crossed /\ Watch
  BY Zenon, <1>0, <1>1, <1>2, <1>3 DEF StartSyncUser
<1>6. JobOK(j) /\ j.pc \notin IssuePcs /\ j.then # "login"
  BY <1>3, <1>4 DEF JobOK, IssuePcs, LoginPcs
<1> QED BY <1>4, <1>5, <1>6, BeginsPlain

LEMMA StartSignUpStep ==
  ASSUME IInv, NEW h \in Handlers, NEW u \in Users, NEW p \in Phrases, StartSignUp(h, u, p)
  PROVE  IInv'
<1>0. PICK j : j = [NoJob EXCEPT !.pc = "seekCohort", !.user = u, !.phrase = p, !.then = "signUp"]
  OBVIOUS
<1>2. j \in Job /\ j.pc = "seekCohort" /\ j.user = u /\ j.phrase = p /\ j.then = "signUp"
  <2>1. j \in Job
    BY ZenonT(60), <1>0, NoJobIsJob DEF Job, Pcs, Scopes
  <2>2. j.pc = "seekCohort" /\ j.user = u /\ j.phrase = p /\ j.then = "signUp"
    BY ZenonT(60), <1>0, NoJobIsJob DEF NoJob
  <2> QED BY <2>1, <2>2
<1>3. Begin(h, "signUp", j) /\ crossed' = crossed /\ Watch
  BY <1>0 DEF StartSignUp
<1>4. JobOK(j) /\ j.pc \notin IssuePcs /\ j.then # "login"
  BY <1>2 DEF JobOK, IssuePcs, LoginPcs
<1> QED BY <1>2, <1>3, <1>4, BeginsPlain

\* The user's row was read just now, so its cohort is the user's.
LEMMA StartLoginStep ==
  ASSUME IInv, NEW h \in Handlers, NEW u \in Users, NEW p \in Phrases, StartLogin(h, u, p)
  PROVE  IInv'
<1>1. PICK c \in Cohorts \cup {NoScope} : c = user[u].cohort
  BY DEF IInv, TypeOK, User
<1>0. PICK j : j = [NoJob EXCEPT !.pc = "seekCohort", !.user = u, !.phrase = p, !.cohort = c,
                               !.then = "login"]
  OBVIOUS
<1>2. j \in Job /\ j.pc = "seekCohort" /\ j.user = u /\ j.phrase = p /\ j.cohort = c /\ j.then = "login"
  <2>1. j \in Job
    BY ZenonT(60), <1>0, NoJobIsJob DEF Job, Pcs, Scopes
  <2>2. j.pc = "seekCohort" /\ j.user = u /\ j.phrase = p /\ j.cohort = c /\ j.then = "login"
    BY ZenonT(60), <1>0, NoJobIsJob DEF NoJob
  <2> QED BY <2>1, <2>2
<1>3. Begin(h, "login", j) /\ crossed' = crossed /\ Watch
  BY <1>0, <1>1 DEF StartLogin
<1>4. JobOK(j)
  BY <1>2 DEF JobOK, LoginPcs, IssuePcs
<1>5. /\ Moves(h, j) /\ At(h, "idle") /\ UNCHANGED <<scope, user, member, ou, now>>
      /\ TypeOK' /\ ActiveKnown' /\ Keeps /\ Shrinks /\ Later
  BY <1>2, <1>3, Began DEF IInv, TypeOK
<1>6. JobOK(j)'
  BY <1>4, <1>5 DEF JobOK, Live
<1>7. job'[h] = j /\ \A k \in Handlers : k # h => job'[k] = job[k]
  BY <1>2, <1>5, Moved DEF IInv
<1>8. OwedOK(h)'
  <2>1. owed'[h] = Entitling(h)'
    BY <1>2, <1>3, <1>5, <1>7 DEF Watch
  <2>2. Entitling(h)' \cap Cohorts \subseteq {job'[h].cohort}
    BY <1>1, <1>2, <1>5, <1>7 DEF Entitling, Belongs
  <2> QED BY <1>2, <1>7, <2>1, <2>2 DEF OwedOK
<1>9. ASSUME ~crossed' PROVE ~crossed /\ Shrinks /\ OneIssues' /\ IssueOK(j)' /\ LoginOK(h)'
  <2>1. OneIssues'
    BY <1>2, <1>3, <1>7, <1>9 DEF IInv, Uncrossed, OneIssues, Issuing
  <2>2. IssueOK(j)' /\ LoginOK(h)'
    BY <1>2, <1>7 DEF IssueOK, LoginOK, IssuePcs
  <2> QED BY <1>3, <1>5, <1>9, <2>1, <2>2
<1> QED BY <1>2, <1>3, <1>5, <1>6, <1>8, <1>9, OneStep

-----------------------------------------------------------------------------
(* Statements of requests *)

LEMMA Goes ==
  ASSUME IInv, NEW h \in Handlers, NEW pc \in Pcs, Go(h, pc)
  PROVE  \E j \in Job : Moves(h, j) /\ j.pc = pc /\ Rest(j, job[h])
<1>1. PICK i \in Job : i = job[h]
  BY DEF IInv, TypeOK
<1>2. PICK k : k = [i EXCEPT !.pc = pc]
  OBVIOUS
<1>3. k \in Job /\ k.pc = pc
  BY ZenonT(60), <1>2 DEF Job
<1>4. Rest(k, i)
  BY ZenonT(60), <1>2 DEF Job, Rest
<1>5. Moves(h, k)
  BY Zenon, <1>1, <1>2 DEF Go, Set, Moves
<1> QED BY Zenon, <1>1, <1>3, <1>4, <1>5

LEMMA NotLogin ==
  ASSUME IInv, NEW h \in Handlers, job[h].pc \notin LoginPcs
  PROVE  job[h].then # "login"
BY DEF IInv, JobsOK, JobOK

LEMMA FindActiveStep ==
  ASSUME IInv, NEW h \in Handlers, FindActive(h) PROVE IInv'
<1>1. ReadsOnly /\ Watch /\ job[h].pc = "findActive"
  BY DEF FindActive, ReadsOnly, At
<1>2. CASE End(h)
  BY <1>1, <1>2, EndReads
<1>3. CASE Go(h, "clear")
  <2>1. PICK j \in Job : Moves(h, j) /\ j.pc = "clear" /\ Rest(j, job[h])
    BY <1>3, Goes DEF Pcs
  <2>2. JobOK(j) /\ j.pc \notin IssuePcs /\ j.then # "login"
    BY <1>1, <2>1, NotLogin DEF IInv, JobsOK, JobOK, Rest, IssuePcs, LoginPcs
  <2> QED BY <1>1, <2>1, <2>2, ReadsPlain
<1> QED BY <1>2, <1>3 DEF FindActive

LEMMA FindMemberStep ==
  ASSUME IInv, NEW h \in Handlers, FindMember(h) PROVE IInv'
<1>1. ReadsOnly /\ Watch /\ job[h].pc = "findMember"
  BY DEF FindMember, ReadsOnly, At
<1>2. CASE End(h)
  BY <1>1, <1>2, EndReads
<1>3. CASE user[job[h].user].known /\ Go(h, "addMember")
  <2>1. PICK j \in Job : Moves(h, j) /\ j.pc = "addMember" /\ Rest(j, job[h])
    BY <1>3, Goes DEF Pcs
  <2>2. JobOK(j) /\ j.pc \notin IssuePcs /\ j.then # "login"
    BY <1>1, <1>3, <2>1, NotLogin DEF IInv, JobsOK, JobOK, Rest, IssuePcs, LoginPcs
  <2> QED BY <1>1, <2>1, <2>2, ReadsPlain
<1> QED BY <1>2, <1>3 DEF FindMember

LEMMA RespondStep ==
  ASSUME IInv, NEW h \in Handlers, Respond(h) PROVE IInv'
BY EndReads DEF Respond, ReadsOnly

\* What a sync of groups goes on with.
LEMMA NextOUFine ==
  ASSUME NEW j \in Job, j.then # "login"
  PROVE  /\ NextOU(j) \in Job /\ NextOU(j).pc \in {"idle", "findGroup"}
         /\ NextOU(j).then # "login"
<1>1. CASE j.todo = {}
  BY <1>1, NoJobIsJob DEF NextOU
<1>2. CASE j.todo # {}
  <2>1. PICK k : k = [j EXCEPT !.pc = "findGroup", !.name = "none"]
    OBVIOUS
  <2>2. k \in Job
    BY ZenonT(60), <2>1 DEF Job, Pcs
  <2>3. k.pc = "findGroup" /\ k.then = j.then
    BY ZenonT(60), <2>1 DEF Job
  <2>4. NextOU(j) = k
    BY Zenon, <1>2, <2>1 DEF NextOU
  <2> QED BY <2>2, <2>3, <2>4
<1> QED BY <1>1, <1>2

LEMMA FindGroupStep ==
  ASSUME IInv, NEW h \in Handlers, FindGroup(h) PROVE IInv'
<1>1. ReadsOnly /\ Watch /\ job[h].pc = "findGroup"
  BY DEF FindGroup, ReadsOnly, At
<1>2. PICK i \in Job : i = job[h]
  BY DEF IInv, TypeOK
<1>3. PICK n \in i.todo :
        LET j == [i EXCEPT !.todo = i.todo \ {n}] IN
        IF Named(Groups, n) # {} THEN Set(h, NextOU(j))
                                 ELSE Set(h, [j EXCEPT !.pc = "insertGroup", !.name = n])
  BY Zenon, <1>2 DEF FindGroup
<1>4. PICK T : T = i.todo \ {n}
  OBVIOUS
<1>5. i.todo \in SUBSET Names
  BY DEF Job
<1>6. n \in Names /\ T \in SUBSET Names
  BY SMT, <1>4, <1>5
<1>7. PICK j : j = [i EXCEPT !.todo = T]
  OBVIOUS
<1>8. j \in Job
  BY ZenonT(60), <1>6, <1>7 DEF Job
<1>9. j.then # "login"
  <2>1. j.then = i.then
    BY ZenonT(60), <1>7 DEF Job
  <2> QED BY <1>1, <1>2, <2>1, NotLogin DEF LoginPcs
<1>10. CASE Set(h, NextOU(j))
  <2>1. PICK k \in Job : k = NextOU(j) /\ k.pc \in {"idle", "findGroup"} /\ k.then # "login"
    BY <1>8, <1>9, NextOUFine
  <2>2. JobOK(k) /\ k.pc \notin IssuePcs
    BY <2>1 DEF JobOK, IssuePcs, LoginPcs
  <2> QED BY <1>1, <1>10, <2>1, <2>2, ReadsPlain DEF Set, Moves
<1>11. CASE Set(h, [j EXCEPT !.pc = "insertGroup", !.name = n])
  <2>1. PICK k : k = [j EXCEPT !.pc = "insertGroup", !.name = n]
    OBVIOUS
  <2>2. k \in Job
    BY ZenonT(60), <1>6, <1>8, <2>1 DEF Job, Pcs
  <2>3. k.pc = "insertGroup" /\ k.name = n /\ k.then = j.then
    BY ZenonT(60), <1>8, <2>1 DEF Job
  <2>4. JobOK(k) /\ k.pc \notin IssuePcs /\ k.then # "login"
    BY <1>6, <1>9, <2>3 DEF JobOK, IssuePcs, LoginPcs
  <2>5. Moves(h, k)
    BY Zenon, <1>11, <2>1 DEF Set, Moves
  <2> QED BY <1>1, <2>2, <2>4, <2>5, ReadsPlain
<1> QED BY Zenon, <1>3, <1>4, <1>7, <1>10, <1>11

\* Statements that write.
Tables ==
  /\ scope \in [Scopes -> Row]
  /\ user \in [Users -> User]
  /\ member \subseteq Groups \X Users
  /\ ou \subseteq Names
  /\ \A s \in Scopes : ~Live(s) => scope[s].phrase = "none"
  /\ \A m \in member : Live(m[1]) /\ user[m[2]].known
  /\ \A u \in Users : user[u].cohort # NoScope => Live(user[u].cohort)
  /\ ActiveKnown

LEMMA TablesTyped == ASSUME IInv PROVE Tables
BY DEF IInv, TypeOK, Tables

LEMMA Written ==
  ASSUME IInv, Tables', UNCHANGED now, Watch, job' \in [Handlers -> Job],
         crossed' \in BOOLEAN, ops' \in Nat, mishaps' \in Nat
  PROVE  TypeOK' /\ ActiveKnown' /\ Later
<1>1. ActiveKnown' /\ Later
  BY DEF IInv, TypeOK, Tables, Later
<1>2. TypeOK'
  BY OwedTyped DEF IInv, TypeOK, Tables
<1> QED BY <1>1, <1>2

LEMMA Writes ==
  ASSUME IInv, Tables', Keeps, Shrinks, UNCHANGED <<now, budget, crossed>>, Watch,
         NEW h \in Handlers, NEW j \in Job, Moves(h, j), JobOK(j)',
         j.pc \notin IssuePcs, j.then # "login"
  PROVE  IInv'
<1>1. crossed' \in BOOLEAN /\ ops' \in Nat /\ mishaps' \in Nat /\ UNCHANGED now /\ TypeOK
  BY DEF IInv, TypeOK, budget
<1> QED BY <1>1, Moved, Written, PlainStep

LEMMA EndWrites ==
  ASSUME IInv, Tables', Keeps, Shrinks, UNCHANGED <<now, budget, crossed>>, Watch,
         NEW h \in Handlers, End(h)
  PROVE  IInv'
<1>1. PICK j \in Job : j = NoJob
  BY NoJobIsJob
<1>2. JobOK(j)' /\ j.pc \notin IssuePcs /\ j.then # "login"
  BY <1>1, NoJobIsJob DEF JobOK, IssuePcs, LoginPcs
<1> QED BY <1>1, <1>2, Writes DEF End, Set, Moves

\* The only row that changes is s.
LEMMA RowWritten ==
  ASSUME Tables, NEW s \in Scopes, NEW r \in Row, scope' = [scope EXCEPT ![s] = r],
         UNCHANGED user,
         r.state = "live" \/ (s \notin Cohorts /\ r.phrase = "none")
  PROVE  /\ Keeps
         /\ r.phrase = "none" \/ (r.phrase = scope[s].phrase /\ r.expires = scope[s].expires)
              => Shrinks
         /\ UNCHANGED <<member, ou>> /\ (\A m \in member : m[1] = s => r.state = "live")
              => Tables'
<1>1. scope' \in [Scopes -> Row] /\ \A t \in Scopes : scope'[t] = IF t = s THEN r ELSE scope[t]
  BY DEF Tables
<1>2. \A t \in Scopes : ~Live(t)' => scope'[t].phrase = "none"
  BY <1>1 DEF Tables, Live
<1>3. \A c \in Cohorts : Live(c) => Live(c)'
  BY <1>1 DEF Live, Scopes
<1>4. Keeps
  BY <1>3 DEF Keeps
<1>5. r.phrase = "none" \/ (r.phrase = scope[s].phrase /\ r.expires = scope[s].expires)
        => Shrinks
  BY <1>1 DEF Shrinks
<1>6. ASSUME UNCHANGED <<member, ou>>, \A m \in member : m[1] = s => r.state = "live"
      PROVE  Tables'
  <2>1. \A m \in member : Live(m[1])'
    <3>1. SUFFICES ASSUME NEW m \in member PROVE Live(m[1])'
      OBVIOUS
    <3>2. m[1] \in Scopes /\ Live(m[1])
      BY DEF Tables, Scopes
    <3> QED BY <1>1, <1>6, <3>2 DEF Live
  <2>2. \A u \in Users : user[u].cohort # NoScope => Live(user[u].cohort)'
    BY <1>3 DEF Tables, User
  <2> QED BY <1>1, <1>2, <1>6, <2>1, <2>2 DEF Tables, ActiveKnown
<1> QED BY <1>4, <1>5, <1>6

LEMMA Inserted ==
  ASSUME Tables, NEW s \in Scopes, scope[s].state = "none", NEW n \in Names, Insert(s, n),
         UNCHANGED user
  PROVE  Keeps /\ Shrinks /\ Live(s)' /\ (UNCHANGED <<member, ou>> => Tables')
<1>1. PICK r : r = [NoRow EXCEPT !.state = "live", !.name = n]
  OBVIOUS
<1>2. r \in Row /\ r.state = "live" /\ r.phrase = "none"
  <2>1. NoRow \in Row
    BY DEF NoRow, Row
  <2>2. r \in Row
    BY ZenonT(60), <1>1, <2>1 DEF Row
  <2>3. r.state = "live" /\ r.phrase = "none"
    BY <1>1 DEF NoRow
  <2> QED BY <2>2, <2>3
<1>3. scope' = [scope EXCEPT ![s] = r]
  BY Zenon, <1>1 DEF Insert
<1>4. Live(s)'
  BY <1>2, <1>3 DEF Live, Tables
<1> QED BY <1>2, <1>3, <1>4, RowWritten

LEMMA SameTables ==
  ASSUME Tables, UNCHANGED <<scope, user, member>>, ou' \subseteq Names
  PROVE  Tables' /\ Keeps /\ Shrinks
BY DEF Tables, Keeps, Shrinks, Live, ActiveKnown

LEMMA ClearStep ==
  ASSUME IInv, NEW h \in Handlers, Clear(h) PROVE IInv'
<1>1. /\ UNCHANGED <<user, member, ou, now, budget, crossed>> /\ Watch /\ End(h)
      /\ job[h].pc = "clear"
  BY DEF Clear, At, people
<1>2. Tables /\ ou \subseteq Names
  BY TablesTyped DEF Tables
<1>3. PICK s \in Scopes : s = job[h].scope
  BY <1>1 DEF IInv, JobsOK, JobOK
<1>4. CASE UNCHANGED scope
  BY <1>1, <1>2, <1>4, SameTables, EndWrites
<1>5. CASE Live(s) /\ PutPhrase(s, "none", 0)
  <2>1. PICK q \in Row : q = scope[s]
    BY <1>2 DEF Tables
  <2>2. PICK r : r = [q EXCEPT !.phrase = "none", !.expires = 0]
    OBVIOUS
  <2>3. r \in Row
    BY ZenonT(60), <2>2 DEF Row
  <2>4. r.phrase = "none" /\ r.state = q.state
    BY ZenonT(60), <2>2 DEF Row
  <2>5. scope' = [scope EXCEPT ![s] = r]
    BY <1>2, <1>5, <2>1, <2>2 DEF PutPhrase, Tables, Row
  <2>6. r.state = "live"
    BY <1>5, <2>1, <2>4 DEF Live
  <2>7. Tables' /\ Keeps /\ Shrinks
    BY <1>1, <1>2, <2>3, <2>4, <2>5, <2>6, RowWritten
  <2> QED BY <1>1, <2>7, EndWrites
<1> QED BY <1>3, <1>4, <1>5 DEF Clear

LEMMA RenameStep ==
  ASSUME IInv, NEW h \in Handlers, Rename(h) PROVE IInv'
<1>1. /\ UNCHANGED <<user, member, ou, now, budget, crossed>> /\ Watch /\ End(h)
      /\ job[h].pc = "rename"
  BY DEF Rename, At, people
<1>2. Tables /\ ou \subseteq Names
  BY TablesTyped DEF Tables
<1>3. job[h].scope \in Groups /\ job[h].name \in Names
  BY <1>1 DEF IInv, JobsOK, JobOK
<1>4. PICK s \in Scopes, n \in Names : s = job[h].scope /\ n = job[h].name
  BY <1>3 DEF Scopes
<1>5. CASE UNCHANGED scope
  BY <1>1, <1>2, <1>5, SameTables, EndWrites
<1>6. CASE Live(s) /\ scope' = [scope EXCEPT ![s].name = n]
  <2>1. PICK q \in Row : q = scope[s]
    BY <1>2 DEF Tables
  <2>2. PICK r : r = [q EXCEPT !.name = n]
    OBVIOUS
  <2>3. r \in Row
    BY ZenonT(60), <2>2 DEF Row
  <2>4. r.phrase = q.phrase /\ r.state = q.state /\ r.expires = q.expires
    BY ZenonT(60), <2>2 DEF Row
  <2>5. scope' = [scope EXCEPT ![s] = r]
    BY <1>2, <1>6, <2>1, <2>2 DEF Tables, Row
  <2>6. r.state = "live"
    BY <1>6, <2>1, <2>4 DEF Live
  <2>7. Tables' /\ Keeps /\ Shrinks
    BY <1>1, <1>2, <2>1, <2>3, <2>4, <2>5, <2>6, RowWritten
  <2> QED BY <1>1, <2>7, EndWrites
<1> QED BY <1>4, <1>5, <1>6 DEF Rename

LEMMA DropGroupStep ==
  ASSUME IInv, NEW h \in Handlers, DropGroup(h) PROVE IInv'
<1>1. /\ UNCHANGED <<user, ou, now, budget, crossed>> /\ Watch /\ End(h)
      /\ job[h].pc = "dropGroup"
  BY DEF DropGroup, At
<1>2. Tables
  BY TablesTyped
<1>3. PICK g \in Groups : g = job[h].scope
  BY <1>1 DEF IInv, JobsOK, JobOK
<1>4. g \in Scopes /\ g \notin Cohorts
  BY EnrolmentAssumption DEF Scopes
<1>5. PICK r : r = [NoRow EXCEPT !.state = "gone"]
  OBVIOUS
<1>6. r \in Row /\ r.phrase = "none"
  <2>1. NoRow \in Row
    BY DEF NoRow, Row
  <2>2. r \in Row
    BY ZenonT(60), <1>5, <2>1 DEF Row
  <2>3. r.phrase = "none"
    BY <1>5 DEF NoRow
  <2> QED BY <2>2, <2>3
<1>7. scope' = [scope EXCEPT ![g] = r] /\ member' = {m \in member : m[1] # g}
  BY Zenon, <1>3, <1>5 DEF DropGroup
<1>8. Keeps /\ Shrinks
  BY <1>1, <1>2, <1>4, <1>6, <1>7, RowWritten
<1>9. Tables'
  <2>1. scope' \in [Scopes -> Row] /\ \A t \in Scopes : scope'[t] = IF t = g THEN r ELSE scope[t]
    BY <1>2, <1>6, <1>7 DEF Tables
  <2>2. \A t \in Scopes : ~Live(t)' => scope'[t].phrase = "none"
    BY <1>2, <1>6, <2>1 DEF Tables, Live
  <2>3. ASSUME NEW m \in member' PROVE Live(m[1])' /\ user'[m[2]].known
    <3>1. m \in member /\ m[1] # g
      BY <1>7
    <3>2. m[1] \in Scopes /\ Live(m[1]) /\ user[m[2]].known
      BY <1>2, <3>1 DEF Tables, Scopes
    <3> QED BY <1>1, <2>1, <3>1, <3>2 DEF Live
  <2>4. \A u \in Users : user[u].cohort # NoScope => Live(user[u].cohort)'
    BY <1>1, <1>2, <1>8 DEF Tables, User, Keeps
  <2>5. member' \subseteq Groups \X Users
    BY <1>2, <1>7 DEF Tables
  <2> QED BY <1>1, <1>2, <2>1, <2>2, <2>3, <2>4, <2>5 DEF Tables, ActiveKnown
<1> QED BY <1>1, <1>8, <1>9, EndWrites

LEMMA InsertGroupStep ==
  ASSUME IInv, NEW h \in Handlers, InsertGroup(h) PROVE IInv'
<1>1. UNCHANGED <<user, member, ou, now, budget, crossed>> /\ Watch /\ job[h].pc = "insertGroup"
  BY DEF InsertGroup, At, people
<1>2. Tables /\ ou \subseteq Names
  BY TablesTyped DEF Tables
<1>3. PICK n \in Names : n = job[h].name
  BY <1>1 DEF IInv, JobsOK, JobOK
<1>4. CASE UNCHANGED scope /\ End(h)
  BY <1>1, <1>2, <1>4, SameTables, EndWrites
<1>5. CASE (\E g \in Fresh(Groups) : Insert(g, n)) /\ Set(h, NextOU(job[h]))
  <2>1. PICK g \in Scopes : scope[g].state = "none" /\ Insert(g, n)
    BY <1>5 DEF Fresh, Scopes
  <2>2. Tables' /\ Keeps /\ Shrinks
    BY <1>1, <1>2, <2>1, Inserted
  <2>3. job[h] \in Job /\ job[h].then # "login"
    BY <1>1, NotLogin DEF IInv, TypeOK, LoginPcs
  <2>4. PICK k \in Job : k = NextOU(job[h]) /\ k.pc \in {"idle", "findGroup"} /\ k.then # "login"
    BY <2>3, NextOUFine
  <2>5. JobOK(k)' /\ k.pc \notin IssuePcs
    BY <2>4 DEF JobOK, IssuePcs, LoginPcs
  <2> QED BY <1>1, <1>5, <2>2, <2>4, <2>5, Writes DEF Set, Moves
<1> QED BY <1>3, <1>4, <1>5 DEF InsertGroup

LEMMA InsertCohortStep ==
  ASSUME IInv, NEW h \in Handlers, InsertCohort(h) PROVE IInv'
<1>1. /\ UNCHANGED <<user, member, ou, now, budget, crossed>> /\ Watch /\ End(h)
      /\ job[h].pc = "insertCohort"
  BY DEF InsertCohort, At, people
<1>2. Tables /\ ou \subseteq Names
  BY TablesTyped DEF Tables
<1>3. PICK n \in Names : n = job[h].name
  BY <1>1 DEF IInv, JobsOK, JobOK
<1>4. CASE UNCHANGED scope
  BY <1>1, <1>2, <1>4, SameTables, EndWrites
<1>5. CASE \E c \in Fresh(Cohorts) : Insert(c, n)
  <2>1. PICK c \in Scopes : scope[c].state = "none" /\ Insert(c, n)
    BY <1>5 DEF Fresh, Scopes
  <2> QED BY <1>1, <1>2, <2>1, Inserted, EndWrites
<1> QED BY <1>3, <1>4, <1>5 DEF InsertCohort

LEMMA CreateOUStep ==
  ASSUME IInv, NEW h \in Handlers, CreateOU(h) PROVE IInv'
<1>1. /\ UNCHANGED <<scope, user, member, now, budget, crossed>> /\ Watch
      /\ job[h].pc = "createOU" /\ ou' = ou \cup {job[h].name}
  BY DEF CreateOU, At, people
<1>2. job[h].name \in Names
  BY <1>1 DEF IInv, JobsOK, JobOK
<1>3. Tables' /\ Keeps /\ Shrinks
  <2>1. ou' \subseteq Names
    BY <1>1, <1>2, TablesTyped DEF Tables
  <2> QED BY <1>1, <2>1, TablesTyped, SameTables
<1>4. CASE End(h)
  BY <1>1, <1>3, <1>4, EndWrites
<1>5. CASE Go(h, "insertCohort")
  <2>1. PICK j \in Job : Moves(h, j) /\ j.pc = "insertCohort" /\ Rest(j, job[h])
    BY <1>5, Goes DEF Pcs
  <2>2. JobOK(j)' /\ j.pc \notin IssuePcs /\ j.then # "login"
    BY <1>1, <1>2, <2>1, NotLogin DEF JobOK, Rest, IssuePcs, LoginPcs
  <2> QED BY <1>1, <1>3, <2>1, <2>2, Writes
<1> QED BY <1>4, <1>5 DEF CreateOU

LEMMA MembersWritten ==
  ASSUME Tables, UNCHANGED <<scope, user, ou>>, member' \subseteq Groups \X Users,
         \A m \in member' : m \in member \/ (Live(m[1]) /\ user[m[2]].known)
  PROVE  Tables' /\ Keeps /\ Shrinks
<1>1. \A m \in member' : Live(m[1])' /\ user'[m[2]].known
  BY DEF Tables, Live
<1> QED BY <1>1 DEF Tables, Keeps, Shrinks, Live, ActiveKnown

LEMMA AddMemberStep ==
  ASSUME IInv, NEW h \in Handlers, AddMember(h) PROVE IInv'
<1>1. /\ UNCHANGED <<scope, user, ou, now, budget, crossed>> /\ Watch /\ End(h)
      /\ job[h].pc = "addMember"
  BY DEF AddMember, At
<1>2. Tables
  BY TablesTyped
<1>3. PICK g \in Groups, u \in Users : g = job[h].scope /\ u = job[h].user /\ user[u].known
  BY <1>1 DEF IInv, JobsOK, JobOK
<1>4. member' = IF Live(g) THEN member \cup {<<g, u>>} ELSE member
  BY <1>3 DEF AddMember
<1>5. member' \subseteq Groups \X Users
  BY <1>2, <1>3, <1>4 DEF Tables
<1>6. \A m \in member' : m \in member \/ (Live(m[1]) /\ user[m[2]].known)
  BY <1>3, <1>4
<1> QED BY <1>1, <1>2, <1>5, <1>6, MembersWritten, EndWrites

LEMMA RemoveMemberStep ==
  ASSUME IInv, NEW h \in Handlers, RemoveMember(h) PROVE IInv'
<1>1. UNCHANGED <<scope, user, ou, now, budget, crossed>> /\ Watch /\ End(h)
  BY DEF RemoveMember
<1>2. member' \subseteq member
  BY DEF RemoveMember
<1>3. member' \subseteq Groups \X Users
  BY <1>2, TablesTyped DEF Tables
<1> QED BY <1>1, <1>2, <1>3, TablesTyped, MembersWritten, EndWrites

\* The only user that changes is u.
LEMMA UserWritten ==
  ASSUME Tables, NEW u \in Users, NEW v \in User, user' = [user EXCEPT ![u] = v],
         UNCHANGED <<scope, ou>>, v.known, v.cohort # NoScope => Live(v.cohort),
         member' \subseteq member
  PROVE  Tables' /\ Keeps /\ Shrinks
<1>1. user' \in [Users -> User] /\ \A w \in Users : user'[w] = IF w = u THEN v ELSE user[w]
  BY DEF Tables
<1>2. Keeps /\ Shrinks
  BY <1>1 DEF Keeps, Shrinks, Live
<1>3. ASSUME NEW m \in member' PROVE Live(m[1])' /\ user'[m[2]].known
  <2>1. Live(m[1]) /\ user[m[2]].known /\ m[2] \in Users
    BY DEF Tables
  <2> QED BY <1>1, <2>1 DEF Live
<1>4. \A w \in Users : user'[w].cohort # NoScope => scope'[user'[w].cohort].state = "live"
  BY <1>1 DEF Tables, Live
<1>5. \A w \in Users : user'[w].active => user'[w].known
  BY <1>1 DEF Tables, ActiveKnown
<1>6. member' \subseteq Groups \X Users
  BY DEF Tables
<1> QED BY <1>1, <1>2, <1>3, <1>4, <1>5, <1>6 DEF Tables, ActiveKnown, Live

LEMMA NewUser ==
  ASSUME NEW u \in Users, NEW c \in Cohorts \cup {NoScope}, NEW v,
         v = [known |-> TRUE, active |-> TRUE, cohort |-> c]
  PROVE  v \in User /\ v.known /\ v.cohort = c
BY DEF User

LEMMA InsertUserStep ==
  ASSUME IInv, NEW h \in Handlers, InsertUser(h) PROVE IInv'
<1>1. /\ UNCHANGED <<scope, member, ou, now, budget, crossed>> /\ Watch /\ End(h)
      /\ job[h].pc = "insertUser"
  BY DEF InsertUser, At
<1>2. Tables /\ ou \subseteq Names
  BY TablesTyped DEF Tables
<1>3. PICK u \in Users : u = job[h].user
  BY <1>1 DEF IInv, JobsOK, JobOK
<1>4. CASE UNCHANGED user
  BY <1>1, <1>2, <1>4, SameTables, EndWrites
<1>5. CASE user' = [user EXCEPT ![u] = [Stranger EXCEPT !.known = TRUE, !.active = TRUE]]
  <2>1. PICK v : v = [Stranger EXCEPT !.known = TRUE, !.active = TRUE]
    OBVIOUS
  <2>2. v \in User
    <3>1. Stranger \in User
      BY DEF Stranger, User
    <3> QED BY ZenonT(60), <2>1, <3>1 DEF User
  <2>3. v.known /\ v.cohort = NoScope
    BY <2>1 DEF Stranger
  <2>4. user' = [user EXCEPT ![u] = v]
    BY Zenon, <1>5, <2>1
  <2> QED BY <1>1, <1>2, <2>2, <2>3, <2>4, UserWritten, EndWrites
<1> QED BY <1>3, <1>4, <1>5 DEF InsertUser

LEMMA PatchUserStep ==
  ASSUME IInv, NEW h \in Handlers, PatchUser(h) PROVE IInv'
<1>1. /\ UNCHANGED <<scope, member, ou, now, budget, crossed>> /\ Watch /\ End(h)
      /\ job[h].pc = "patch"
  BY DEF PatchUser, At
<1>2. Tables
  BY TablesTyped
<1>3. PICK u \in Users : u = job[h].user /\ user[u].known
  BY <1>1 DEF IInv, JobsOK, JobOK
<1>4. PICK q \in User : q = user[u]
  BY <1>2 DEF Tables
<1>5. PICK i \in Job : i = job[h]
  BY DEF IInv, TypeOK
<1>6. PICK c \in Cohorts \cup {NoScope} : c = IF i.cohort = NoScope THEN q.cohort ELSE NoScope
  BY DEF User
<1>7. PICK a \in BOOLEAN : a = (q.active \/ i.inactive)
  OBVIOUS
<1>8. PICK v : v = [q EXCEPT !.active = a, !.cohort = c]
  OBVIOUS
<1>9. v \in User
  BY ZenonT(60), <1>8 DEF User
<1>10. v.known = q.known /\ v.cohort = c
  BY ZenonT(60), <1>8 DEF User
<1>11. user' = [user EXCEPT ![u].active = @ \/ i.inactive,
                            ![u].cohort = IF i.cohort = NoScope THEN @ ELSE NoScope]
  BY Zenon, <1>3, <1>5 DEF PatchUser
<1>12. user' = [user EXCEPT ![u] = v]
  BY <1>2, <1>4, <1>6, <1>7, <1>8, <1>11 DEF Tables, User
<1>13. v.cohort # NoScope => Live(v.cohort)
  BY <1>2, <1>4, <1>6, <1>10 DEF Tables
<1> QED BY <1>1, <1>2, <1>3, <1>4, <1>9, <1>10, <1>12, <1>13, UserWritten, EndWrites

LEMMA CreateUserStep ==
  ASSUME IInv, NEW h \in Handlers, CreateUser(h) PROVE IInv'
<1>1. /\ UNCHANGED <<scope, member, ou, now, budget, crossed>> /\ Watch
      /\ job[h].pc = "createUser"
  BY DEF CreateUser, At
<1>2. Tables /\ ou \subseteq Names
  BY TablesTyped DEF Tables
<1>3. PICK u \in Users, s \in Scopes :
        u = job[h].user /\ s = job[h].scope /\ (s \in Cohorts => Live(s))
  BY <1>1 DEF IInv, JobsOK, JobOK
<1>4. PICK c \in Cohorts \cup {NoScope} : c = IF s \in Cohorts THEN s ELSE NoScope
  OBVIOUS
<1>5. CASE UNCHANGED user /\ End(h)
  BY <1>1, <1>2, <1>5, SameTables, EndWrites
<1>6. CASE /\ user' = [user EXCEPT ![u] = [known |-> TRUE, active |-> TRUE, cohort |-> c]]
           /\ IF s \in Groups THEN Go(h, "findMember") ELSE End(h)
  <2>1. PICK v : v = [known |-> TRUE, active |-> TRUE, cohort |-> c]
    OBVIOUS
  <2>2. v \in User /\ v.known /\ v.cohort = c
    BY <2>1, NewUser
  <2>3. user' = [user EXCEPT ![u] = v]
    BY Zenon, <1>6, <2>1
  <2>4. v.cohort # NoScope => Live(v.cohort)
    BY <1>3, <1>4, <2>2
  <2>5. Tables' /\ Keeps /\ Shrinks
    BY <1>1, <1>2, <2>2, <2>3, <2>4, UserWritten
  <2>6. CASE End(h)
    BY <1>1, <2>5, <2>6, EndWrites
  <2>7. CASE s \in Groups /\ Go(h, "findMember")
    <3>1. PICK j \in Job : Moves(h, j) /\ j.pc = "findMember" /\ Rest(j, job[h])
      BY <2>7, Goes DEF Pcs
    <3>2. JobOK(j)' /\ j.pc \notin IssuePcs /\ j.then # "login"
      BY <1>1, <1>3, <2>7, <3>1, NotLogin DEF JobOK, Rest, IssuePcs, LoginPcs
    <3> QED BY <1>1, <2>5, <3>1, <3>2, Writes
  <2> QED BY <1>6, <2>6, <2>7
<1>7. \/ UNCHANGED user /\ End(h)
      \/ /\ user' = [user EXCEPT ![u] = [known |-> TRUE, active |-> TRUE, cohort |-> c]]
         /\ IF s \in Groups THEN Go(h, "findMember") ELSE End(h)
  BY Zenon, <1>3, <1>4 DEF CreateUser
<1> QED BY <1>5, <1>6, <1>7

-----------------------------------------------------------------------------
(* Single transactions, the clock and failures *)

LEMMA AtOnceStep ==
  ASSUME IInv, NEW op, AtOnce(op), Tables', Keeps, Shrinks, Watch
  PROVE  IInv'
<1>1. UNCHANGED <<now, job, crossed>> /\ ops' \in Nat /\ mishaps' \in Nat
  BY Counted DEF AtOnce, IInv
<1>2. job' \in [Handlers -> Job] /\ crossed' \in BOOLEAN
  BY <1>1 DEF IInv, TypeOK
<1> QED BY <1>1, <1>2, Written, Fades

LEMMA SyncToGroupStep ==
  ASSUME IInv, NEW c \in Cohorts, SyncToGroup(c) PROVE IInv'
<1>1. AtOnce("toGroup") /\ UNCHANGED <<user, ou>> /\ Live(c) /\ Watch
  BY DEF SyncToGroup, AtOnce
<1>2. Tables
  BY TablesTyped
<1>3. PICK n \in Names \cup {"none"} : n = scope[c].name
  BY <1>2 DEF Tables, Row, Scopes
<1>4. PICK g \in IF Named(Groups, n) = {} THEN Fresh(Groups) ELSE Named(Groups, n) :
        /\ IF Named(Groups, n) = {} THEN Insert(g, n) ELSE UNCHANGED scope
        /\ member' = member \cup
             {<<g, u>> : u \in {v \in Students : user[v].active /\ user[v].cohort = c}}
  BY Zenon, <1>3 DEF SyncToGroup
<1>5. g \in Groups /\ g \in Scopes
  BY <1>4 DEF Fresh, Named, Scopes
<1>6. member' \subseteq Groups \X Users
  BY <1>2, <1>4, <1>5, EnrolmentAssumption DEF Tables
<1>7. \A m \in member' : m \in member \/ (m[1] = g /\ m[2] \in Users /\ user[m[2]].known)
  <2>1. \A u \in Students : u \in Users /\ (user[u].active => user[u].known)
    BY <1>2, EnrolmentAssumption DEF Tables, ActiveKnown
  <2> QED BY <1>4, <2>1
<1>8. CASE Named(Groups, n) # {}
  <2>1. Live(g) /\ UNCHANGED scope
    BY <1>4, <1>8 DEF Named
  <2>2. \A m \in member' : m \in member \/ (Live(m[1]) /\ user[m[2]].known)
    BY <1>7, <2>1
  <2> QED BY <1>1, <1>2, <1>6, <2>1, <2>2, MembersWritten, AtOnceStep
<1>9. CASE Named(Groups, n) = {}
  <2>1. scope[g].state = "none" /\ Insert(g, n)
    BY <1>4, <1>9 DEF Fresh
  <2>2. PICK r : r = [NoRow EXCEPT !.state = "live", !.name = n]
    OBVIOUS
  <2>3. r \in Row /\ r.state = "live" /\ r.phrase = "none"
    <3>1. NoRow \in Row
      BY DEF NoRow, Row
    <3>2. r \in Row
      BY ZenonT(60), <2>2, <3>1 DEF Row
    <3>3. r.state = "live" /\ r.phrase = "none"
      BY <2>2 DEF NoRow
    <3> QED BY <3>2, <3>3
  <2>4. scope' = [scope EXCEPT ![g] = r]
    BY Zenon, <2>1, <2>2 DEF Insert
  <2>5. Keeps /\ Shrinks
    BY <1>1, <1>2, <1>5, <2>3, <2>4, RowWritten
  <2>6. scope' \in [Scopes -> Row] /\ \A t \in Scopes : scope'[t] = IF t = g THEN r ELSE scope[t]
    BY <1>2, <1>5, <2>3, <2>4 DEF Tables
  <2>7. ASSUME NEW m \in member' PROVE Live(m[1])' /\ user'[m[2]].known
    <3>1. CASE m \in member
      <4>1. m[1] \in Scopes /\ Live(m[1]) /\ user[m[2]].known
        BY <1>2, <3>1 DEF Tables, Scopes
      <4> QED BY <1>1, <2>3, <2>6, <4>1 DEF Live
    <3>2. CASE m[1] = g /\ user[m[2]].known
      BY <1>1, <1>5, <2>3, <2>6, <3>2 DEF Live
    <3> QED BY <1>7, <3>1, <3>2
  <2>8. \A u \in Users : user[u].cohort # NoScope => Live(user[u].cohort)'
    BY <1>1, <1>2, <2>5 DEF Tables, User, Keeps
  <2>9. \A t \in Scopes : ~Live(t)' => scope'[t].phrase = "none"
    BY <1>2, <2>3, <2>6 DEF Tables, Live
  <2>10. Tables'
    BY <1>1, <1>2, <1>6, <2>6, <2>7, <2>8, <2>9 DEF Tables, ActiveKnown
  <2> QED BY <1>1, <2>5, <2>10, AtOnceStep
<1> QED BY <1>8, <1>9

LEMMA ActiveSet ==
  ASSUME Tables, NEW u \in Users, user[u].known, NEW a \in BOOLEAN,
         user' = [user EXCEPT ![u].active = a], UNCHANGED <<scope, ou>>, member' \subseteq member
  PROVE  Tables' /\ Keeps /\ Shrinks
<1>1. PICK q \in User : q = user[u]
  BY DEF Tables
<1>2. PICK v : v = [q EXCEPT !.active = a]
  OBVIOUS
<1>3. v \in User
  BY ZenonT(60), <1>2 DEF User
<1>4. v.known = q.known /\ v.cohort = q.cohort
  BY ZenonT(60), <1>2 DEF User
<1>5. user' = [user EXCEPT ![u] = v]
  BY <1>1, <1>2 DEF Tables, User
<1>6. v.cohort # NoScope => Live(v.cohort)
  BY <1>1, <1>4 DEF Tables
<1> QED BY <1>1, <1>3, <1>4, <1>5, <1>6, UserWritten

LEMMA UnseenStep == ASSUME IInv, NEW u \in Users, Unseen(u) PROVE IInv'
<1>1. user[u].known
  BY DEF Unseen, IInv, ActiveKnown
<1> QED BY <1>1, TablesTyped, ActiveSet, AtOnceStep DEF Unseen, AtOnce

LEMMA DeleteStep == ASSUME IInv, NEW u \in Users, Delete(u) PROVE IInv'
<1>1. member' \subseteq member
  BY DEF Delete
<1> QED BY <1>1, TablesTyped, ActiveSet, AtOnceStep DEF Delete, AtOnce

LEMMA ReenterStep == ASSUME IInv, NEW u \in Users, Reenter(u) PROVE IInv'
BY TablesTyped, ActiveSet, AtOnceStep DEF Reenter, AtOnce

LEMMA MergeStep == ASSUME IInv, NEW u \in Users, NEW v \in Users, Merge(u, v) PROVE IInv'
<1>1. /\ AtOnce("merge") /\ UNCHANGED <<scope, ou>> /\ Watch
      /\ u # v /\ user[u].known /\ user[v].known
  BY DEF Merge, AtOnce
<1>2. Tables
  BY TablesTyped
<1>3. /\ user' \in [Users -> User]
      /\ \A w \in Users :
           /\ user'[w].known = user[w].known
           /\ user'[w].active => user[w].active
           /\ user'[w].cohort \in {user[w].cohort, user[v].cohort}
  <2>1. PICK c \in Cohorts \cup {NoScope} :
          c = IF user[u].cohort = NoScope THEN user[v].cohort ELSE user[u].cohort
    BY <1>2 DEF Tables, User
  <2>2. user' = [user EXCEPT ![u].cohort = IF @ = NoScope THEN user[v].cohort ELSE @,
                             ![v].active = FALSE]
    BY DEF Merge
  <2>3. PICK q \in User, z \in User : q = user[u] /\ z = user[v]
    BY <1>2 DEF Tables
  <2>4. PICK x, y : x = [q EXCEPT !.cohort = c] /\ y = [z EXCEPT !.active = FALSE]
    OBVIOUS
  <2>5. x \in User /\ y \in User
    BY ZenonT(60), <2>4 DEF User
  <2>6. x.known = q.known /\ x.active = q.active /\ x.cohort = c
    BY ZenonT(60), <2>4 DEF User
  <2>7. y.known = z.known /\ y.active = FALSE /\ y.cohort = z.cohort
    BY ZenonT(60), <2>4 DEF User
  <2>8. user' = [user EXCEPT ![u] = x, ![v] = y]
    BY <1>1, <1>2, <2>1, <2>2, <2>3, <2>4 DEF Tables, User
  <2>9. /\ user' \in [Users -> User]
        /\ user'[u] = x /\ user'[v] = y /\ \A w \in Users : w # u /\ w # v => user'[w] = user[w]
    BY <1>1, <1>2, <2>5, <2>8 DEF Tables
  <2> QED BY <2>1, <2>3, <2>6, <2>7, <2>9
<1>4. member' \subseteq Groups \X Users
  BY <1>2 DEF Merge, Tables
<1>5. \A m \in member' : Live(m[1]) /\ user[m[2]].known
  BY <1>1, <1>2 DEF Merge, Tables
<1>6. \A w \in Users : user'[w].cohort # NoScope => Live(user'[w].cohort)
  BY <1>2, <1>3 DEF Tables
<1>7. \A m \in member' : Live(m[1])' /\ user'[m[2]].known
  <2>1. \A m \in member' : m[2] \in Users
    BY <1>4
  <2> QED BY <1>1, <1>3, <1>5, <2>1 DEF Live
<1>8. \A w \in Users : user'[w].cohort # NoScope => scope'[user'[w].cohort].state = "live"
  BY <1>1, <1>6 DEF Live
<1>9. \A w \in Users : user'[w].active => user'[w].known
  BY <1>2, <1>3 DEF Tables, ActiveKnown
<1>10. Keeps /\ Shrinks
  BY <1>1, <1>3 DEF Keeps, Shrinks, Live
<1>11. Tables'
  BY <1>1, <1>2, <1>3, <1>4, <1>7, <1>8, <1>9 DEF Tables, Live, ActiveKnown
<1> QED BY <1>1, <1>10, <1>11, AtOnceStep

LEMMA TickStep == ASSUME IInv, Tick PROVE IInv'
<1>1. UNCHANGED <<scope, user, member, ou, job, ops, mishaps, crossed>> /\ Watch
  BY DEF Tick, people, budget
<1>2. Later
  BY DEF Tick, Later, IInv, TypeOK
<1>3. TypeOK' /\ ActiveKnown' /\ Keeps /\ Shrinks
  BY <1>1, <1>2, OwedTyped DEF IInv, TypeOK, ActiveKnown, Keeps, Shrinks, Live, Later
<1> QED BY <1>1, <1>2, <1>3, Fades

LEMMA FailsStep == ASSUME IInv, NEW H, Fails(H) PROVE IInv'
<1>1. /\ UNCHANGED <<scope, user, member, ou, now, crossed>> /\ Watch /\ ops' \in Nat
      /\ mishaps' \in Nat /\ crossed' \in BOOLEAN
  BY DEF Fails, people, IInv, TypeOK
<1>2. job' = [k \in Handlers |-> IF k \in H THEN NoJob ELSE job[k]]
  BY DEF Fails
<1>3. job' \in [Handlers -> Job]
  BY <1>2, NoJobIsJob DEF IInv, TypeOK
<1>4. \A k \in Handlers : job'[k] = job[k] \/ job'[k] = NoJob
  BY <1>2
<1> QED BY <1>1, <1>3, <1>4, TablesStay, Fades

-----------------------------------------------------------------------------
(* Passphrases *)

\* From the second of two such requests on nothing is promised.
LEMMA StartIssueStep ==
  ASSUME IInv, NEW h \in Handlers, NEW s \in Scopes, NEW p \in Phrases, NEW c \in BOOLEAN,
         StartIssue(h, s, p, c)
  PROVE  IInv'
<1>1. PICK t \in Nat : t = now
  BY DEF IInv, TypeOK
<1>2. PICK j : j = [NoJob EXCEPT !.pc = "checkCohorts", !.scope = s, !.phrase = p,
                                 !.chosen = c, !.at = t]
  OBVIOUS
<1>3. j \in Job
  BY ZenonT(60), <1>2, NoJobIsJob DEF Job, Pcs
<1>4. j.pc = "checkCohorts" /\ j.scope = s /\ j.phrase = p /\ j.at = t /\ j.then = "none"
  BY ZenonT(60), <1>2, NoJobIsJob DEF NoJob
<1>5. /\ Begin(h, "issue", j) /\ Watch
      /\ crossed' = (crossed \/ \E k \in Handlers : Issuing(k))
  BY Zenon, <1>1, <1>2 DEF StartIssue
<1>6. crossed' \in BOOLEAN
  BY <1>5 DEF IInv, TypeOK
<1>7. /\ Moves(h, j) /\ UNCHANGED <<scope, user, member, ou, now>>
      /\ TypeOK' /\ ActiveKnown' /\ Keeps /\ Shrinks /\ Later
  BY <1>3, <1>5, <1>6, Began
<1>8. job'[h] = j /\ \A k \in Handlers : k # h => job'[k] = job[k]
  BY <1>3, <1>7, Moved DEF IInv
<1>9. JobOK(j)'
  BY <1>4 DEF JobOK, IssuePcs, LoginPcs
<1>10. OwedOK(h)'
  BY <1>4, <1>5, <1>8, OwedNone
<1>11. ASSUME ~crossed' PROVE ~crossed /\ Shrinks /\ OneIssues' /\ IssueOK(j)' /\ LoginOK(h)'
  <2>1. ~crossed /\ (\A k \in Handlers : ~Issuing(k)) /\ Uncrossed
    BY <1>5, <1>11 DEF IInv
  <2>2. OneIssues'
    BY <1>8, <2>1 DEF OneIssues, Issuing
  <2>3. Distinct(t)'
    BY <1>1, <1>7, <2>1 DEF Uncrossed, Distinct
  <2>4. IssueOK(j)'
    BY <1>1, <1>4, <1>7, <2>3 DEF IssueOK
  <2>5. LoginOK(h)'
    BY <1>4, <1>8 DEF LoginOK
  <2> QED BY <1>7, <2>1, <2>2, <2>4, <2>5
<1> QED BY <1>3, <1>5, <1>7, <1>9, <1>10, <1>11, OneStep

\* A request that goes on issuing, with what it then knows.
LEMMA IssuesOn ==
  ASSUME IInv, NEW h \in Handlers, job[h].pc \in IssuePcs, ReadsOnly, Watch,
         NEW j \in Job, Moves(h, j), j.pc \in IssuePcs, j.then = job[h].then,
         j.scope \in Scopes, j.phrase \in Phrases, ~crossed => IssueOK(j)
  PROVE  IInv'
<1>1. job'[h] = j /\ \A k \in Handlers : k # h => job'[k] = job[k]
  BY Moved DEF IInv
<1>2. j.then # "login"
  BY NotLogin DEF IssuePcs, LoginPcs
<1>3. JobOK(j)
  BY <1>2 DEF JobOK, IssuePcs, LoginPcs
<1>4. TypeOK' /\ ActiveKnown' /\ Keeps /\ Shrinks /\ Later /\ JobOK(j)'
  BY <1>3, Read
<1>5. OwedOK(h)'
  BY <1>1, <1>2, OwedNone
<1>6. ASSUME ~crossed' PROVE ~crossed /\ Shrinks /\ OneIssues' /\ IssueOK(j)' /\ LoginOK(h)'
  <2>1. ~crossed /\ UNCHANGED <<scope, now>> /\ Uncrossed
    BY <1>6 DEF ReadsOnly, IInv
  <2>2. OneIssues'
    BY <1>1, <2>1 DEF Uncrossed, OneIssues, Issuing, IssuePcs
  <2>3. IssueOK(j)'
    BY <2>1 DEF IssueOK, Free, Distinct
  <2>4. LoginOK(h)'
    BY <1>1, <1>2 DEF LoginOK
  <2> QED BY <1>4, <2>1, <2>2, <2>3, <2>4
<1> QED BY <1>4, <1>5, <1>6, OneStep

LEMMA CollideStep ==
  ASSUME IInv, NEW h \in Handlers, job[h].pc \in IssuePcs, Collide(h), ReadsOnly, Watch
  PROVE  IInv'
<1>1. CASE End(h)
  BY <1>1, EndReads
<1>2. PICK i \in Job : i = job[h]
  BY DEF IInv, TypeOK
<1>3. CASE \E p \in Phrases :
             Set(h, [i EXCEPT !.pc = "checkCohorts", !.phrase = p, !.tries = @ + 1])
  <2>1. PICK p \in Phrases :
          Set(h, [i EXCEPT !.pc = "checkCohorts", !.phrase = p, !.tries = i.tries + 1])
    BY <1>3
  <2>2. PICK n \in Nat : n = i.tries + 1
    BY DEF Job
  <2>3. PICK j : j = [i EXCEPT !.pc = "checkCohorts", !.phrase = p, !.tries = n]
    OBVIOUS
  <2>4. j \in Job
    BY ZenonT(60), <2>3 DEF Job, Pcs
  <2>5. /\ j.pc = "checkCohorts" /\ j.phrase = p /\ j.scope = i.scope /\ j.at = i.at
        /\ j.then = i.then
    BY ZenonT(60), <2>3 DEF Job
  <2>6. Moves(h, j)
    BY Zenon, <2>1, <2>2, <2>3 DEF Set, Moves
  <2>7. j.scope \in Scopes
    BY <1>2, <2>5 DEF IInv, JobsOK, JobOK
  <2>8. ~crossed => IssueOK(j)
    BY <1>2, <2>5 DEF IInv, Uncrossed, IssueOK
  <2>9. j.pc \in IssuePcs
    BY <2>5 DEF IssuePcs
  <2> QED BY <1>2, <2>4, <2>5, <2>6, <2>7, <2>8, <2>9, IssuesOn
<1> QED BY Zenon, <1>1, <1>2, <1>3 DEF Collide

\* If the row found is the scope's own, no other has the passphrase.
LEMMA Compared ==
  ASSUME TypeOK, NEW K \in SUBSET Scopes, NEW i \in Job, i.scope \in Scopes, i.phrase \in Phrases,
         Distinct(i.at),
         \/ Matches(K, i.phrase, i.at) \subseteq {i.scope}
         \/ i.scope \in Matches(K, i.phrase, i.at)
  PROVE  Free(K, i)
<1>1. i.at \in Nat /\ \A s \in Scopes : scope[s].expires \in Nat
  BY DEF TypeOK, Job, Row
<1>2. SUFFICES ASSUME NEW s \in K, s # i.scope, scope[s].phrase = i.phrase
               PROVE  scope[s].expires <= i.at
  BY DEF Free
<1>3. CASE Matches(K, i.phrase, i.at) \subseteq {i.scope}
  BY <1>1, <1>2, <1>3 DEF Matches
<1>4. CASE i.scope \in Matches(K, i.phrase, i.at)
  <2>1. scope[i.scope].phrase = i.phrase /\ scope[i.scope].expires > i.at
    BY <1>4 DEF Matches
  <2>2. i.phrase # "none"
    BY EnrolmentAssumption
  <2> QED BY <1>1, <1>2, <2>1, <2>2 DEF Distinct
<1> QED BY <1>3, <1>4

LEMMA CompareStep ==
  ASSUME IInv, NEW h \in Handlers, NEW K \in SUBSET Scopes, NEW next \in IssuePcs,
         job[h].pc \in IssuePcs, Compare(h, K, next),
         ~crossed /\ Free(K, job[h]) =>
           /\ next \in {"checkGroups", "store"} => Free(Cohorts, job[h])
           /\ next = "store" => Free(Groups, job[h])
  PROVE  IInv'
<1>1. ReadsOnly /\ Watch
  BY DEF Compare, ReadsOnly
<1>2. CASE Collide(h)
  BY <1>1, <1>2, CollideStep
<1>3. job[h] \in Job /\ job[h].scope \in Scopes /\ job[h].phrase \in Phrases
  BY DEF IInv, TypeOK, JobsOK, JobOK
<1>4. CASE /\ Go(h, next)
           /\ \/ Matches(K, job[h].phrase, job[h].at) \subseteq {job[h].scope}
              \/ job[h].scope \in Matches(K, job[h].phrase, job[h].at)
  <2>1. next \in Pcs
    BY DEF IssuePcs, Pcs
  <2>2. PICK j \in Job : Moves(h, j) /\ j.pc = next /\ Rest(j, job[h])
    BY <1>4, <2>1, Goes
  <2>3. ASSUME ~crossed PROVE IssueOK(j)
    <3>1. job[h].at <= now /\ Distinct(job[h].at)
      BY <2>3 DEF IInv, Uncrossed, IssueOK
    <3>2. Free(K, job[h])
      BY <1>3, <1>4, <3>1, Compared DEF IInv
    <3>3. /\ next \in {"checkGroups", "store"} => Free(Cohorts, j)
          /\ next = "store" => Free(Groups, j)
      BY <2>2, <2>3, <3>2 DEF Free, Rest
    <3> QED BY <2>2, <3>1, <3>3 DEF IssueOK, Rest
  <2> QED BY <1>1, <1>3, <2>2, <2>3, IssuesOn DEF Rest
<1> QED BY <1>2, <1>4 DEF Compare

LEMMA CheckCohortsStep == ASSUME IInv, NEW h \in Handlers, CheckCohorts(h) PROVE IInv'
<1>1. job[h].pc \in IssuePcs /\ Compare(h, Cohorts, "checkGroups")
  BY DEF CheckCohorts, At, IssuePcs
<1>2. Cohorts \in SUBSET Scopes /\ "checkGroups" \in IssuePcs
  BY DEF Scopes, IssuePcs
<1> QED BY <1>1, <1>2, CompareStep

LEMMA CheckGroupsStep == ASSUME IInv, NEW h \in Handlers, CheckGroups(h) PROVE IInv'
<1>1. job[h].pc = "checkGroups" /\ job[h].pc \in IssuePcs /\ Compare(h, Groups, "store")
  BY DEF CheckGroups, At, IssuePcs
<1>2. Groups \in SUBSET Scopes /\ "store" \in IssuePcs
  BY DEF Scopes, IssuePcs
<1>3. ~crossed => Free(Cohorts, job[h])
  BY <1>1 DEF IInv, Uncrossed, IssueOK
<1> QED BY <1>1, <1>2, <1>3, CompareStep

\* The row gets a passphrase no other has that is still valid: what others know stays true,
\* a login that no longer looks at cohorts included, for it is owed no other scope with it.
LEMMA StoreStep ==
  ASSUME IInv, NEW h \in Handlers, Store(h) PROVE IInv'
<1>1. /\ UNCHANGED <<user, member, ou, now, budget, crossed>> /\ Watch /\ End(h)
      /\ job[h].pc = "store"
  BY DEF Store, At, people
<1>2. Tables /\ ou \subseteq Names /\ TypeOK
  BY TablesTyped DEF Tables, IInv
<1>3. PICK i \in Job, s \in Scopes, p \in Phrases, e \in Nat :
        i = job[h] /\ s = i.scope /\ p = i.phrase /\ e = i.at + Ttl
  <2>1. job[h] \in Job /\ job[h].scope \in Scopes /\ job[h].phrase \in Phrases
    BY <1>1 DEF IInv, TypeOK, JobsOK, JobOK, IssuePcs
  <2>2. job[h].at + Ttl \in Nat
    BY <2>1, EnrolmentAssumption DEF Job
  <2> QED BY <2>1, <2>2
<1>4. CASE UNCHANGED scope
  BY <1>1, <1>2, <1>4, SameTables, EndWrites
<1>5. CASE Live(s) /\ PutPhrase(s, p, e)
  <2>1. PICK q \in Row : q = scope[s]
    BY <1>2 DEF Tables
  <2>2. PICK r : r = [q EXCEPT !.phrase = p, !.expires = e]
    OBVIOUS
  <2>3. r \in Row
    BY ZenonT(60), <2>2 DEF Row
  <2>4. r.phrase = p /\ r.expires = e /\ r.state = q.state
    BY ZenonT(60), <2>2 DEF Row
  <2>5. scope' = [scope EXCEPT ![s] = r]
    BY <1>2, <1>5, <2>1, <2>2 DEF PutPhrase, Tables, Row
  <2>6. r.state = "live"
    BY <1>5, <2>1, <2>4 DEF Live
  <2>7. Tables' /\ Keeps
    BY <1>1, <1>2, <2>3, <2>5, <2>6, RowWritten
  <2>8. scope'[s] = r /\ \A t \in Scopes : t # s => scope'[t] = scope[t]
    BY <1>2, <2>5 DEF Tables
  <2>9. job' \in [Handlers -> Job] /\ job'[h] = NoJob /\ \A k \in Handlers : k # h => job'[k] = job[k]
    BY <1>1, <1>2, NoJobIsJob, Moved DEF End, Set, Moves
  <2>10. TypeOK' /\ ActiveKnown'
    BY <1>1, <1>2, <2>7, <2>9, Written DEF budget, TypeOK
  <2>11. job'[h].pc = "idle" /\ job'[h].then = "none"
    BY <2>9, NoJobIsJob
  <2>12. ASSUME NEW k \in Handlers, k # h
         PROVE  JobOK(job[k])' /\ OwedOK(k)' /\ owed'[k] \subseteq owed[k]
    BY <1>1, <2>7, <2>9, <2>12, OthersJob, OthersOwed DEF IInv, JobsOK
  <2>13. JobOK(job[h])' /\ OwedOK(h)'
    BY <1>1, <2>11, OwedNone DEF JobOK, IssuePcs
  <2>14. ASSUME ~crossed' PROVE Uncrossed'
    <3>1. Uncrossed /\ p # "none" /\ i.at \in Nat /\ now \in Nat
      BY <1>1, <1>2, <2>14, EnrolmentAssumption DEF IInv, TypeOK, Job
    <3>2. i.at <= now /\ \A t \in Scopes : t # s /\ scope[t].phrase = p => scope[t].expires <= i.at
      BY <1>1, <1>3, <3>1 DEF Uncrossed, IssueOK, Free, IssuePcs, Scopes
    <3>3. \A t \in Scopes : scope[t].expires \in Nat
      BY <1>2 DEF Tables, Row
    <3>4. OneIssues'
      BY <2>9, <2>11, <3>1 DEF Uncrossed, OneIssues, Issuing
    <3>5. Distinct(now)'
      <4>1. ASSUME NEW t \in Scopes, t # s, scope[t].phrase = p PROVE scope[t].expires <= now
        BY <3>1, <3>2, <3>3, <4>1
      <4> QED BY <1>1, <2>4, <2>8, <3>1, <4>1 DEF Uncrossed, Distinct
    <3>6. ASSUME NEW k \in Handlers PROVE IssueOK(job[k])'
      <4>1. job'[k].pc \notin IssuePcs
        BY <1>1, <2>9, <2>11, <3>1 DEF Uncrossed, OneIssues, Issuing, IssuePcs
      <4> QED BY <4>1 DEF IssueOK
    <3>7. ASSUME NEW k \in Handlers, k # h, job[k].then = "login" PROVE LoginOK(k)'
      <4>1. LoginOK(k) /\ job'[k] = job[k] /\ owed'[k] \subseteq owed[k] /\ UNCHANGED now
        BY <1>1, <2>9, <2>12, <3>1, <3>7 DEF Uncrossed
      <4>2. owed[k] \subseteq Entitling(k)
        BY <3>7 DEF IInv, OwedOK
      <4>3. ASSUME NEW g \in owed[k], g # s PROVE job[k].phrase # p
        BY <1>2, <3>1, <3>2, <3>3, <4>2, <4>3 DEF Entitling, Matches
      <4>4. ASSUME job[k].pc = "seekGroup", NEW g \in owed'[k], NEW t \in Scopes, t # g,
                   scope'[t].phrase = job[k].phrase
            PROVE  scope'[t].expires <= job[k].at
        <5>1. t # s
          BY <2>4, <2>8, <4>1, <4>3, <4>4
        <5> QED BY <2>8, <3>7, <4>1, <4>4, <5>1 DEF LoginOK
      <4> QED BY <3>7, <4>1, <4>4 DEF LoginOK
    <3>8. ASSUME NEW k \in Handlers PROVE LoginOK(k)'
      <4>1. CASE job'[k].then = "login"
        BY <2>9, <2>11, <3>7, <4>1
      <4> QED BY <4>1 DEF LoginOK
    <3> QED BY <3>4, <3>5, <3>6, <3>8 DEF Uncrossed
  <2> QED BY <2>10, <2>12, <2>13, <2>14 DEF IInv, JobsOK
<1> QED BY <1>3, <1>4, <1>5 DEF Store

-----------------------------------------------------------------------------
(* Signing in *)

\* A login that goes on, with what it then knows of what it is owed.
LEMMA LoginReads ==
  ASSUME IInv, NEW h \in Handlers, job[h].then = "login", ReadsOnly, Watch,
         NEW j \in Job, Moves(h, j), j.then = "login", j.pc \in LoginPcs,
         j.cohort = job[h].cohort, JobOK(j),
         ~crossed => LoginOK(h)'
  PROVE  IInv'
<1>1. job'[h] = j /\ \A k \in Handlers : k # h => job'[k] = job[k]
  BY Moved DEF IInv
<1>2. TypeOK' /\ ActiveKnown' /\ Keeps /\ Shrinks /\ Later /\ JobOK(j)'
  BY Read
<1>3. job[h].pc # "idle"
  BY DEF IInv, JobsOK, JobOK, LoginPcs
<1>4. OwedOK(h)'
  BY <1>1, <1>3, OwedShrinks DEF IInv
<1>5. ASSUME ~crossed' PROVE ~crossed /\ Shrinks /\ OneIssues' /\ IssueOK(j)' /\ LoginOK(h)'
  <2>1. ~crossed /\ Uncrossed
    BY <1>5 DEF ReadsOnly, IInv
  <2>2. OneIssues' /\ IssueOK(j)'
    BY <1>1, <2>1 DEF Uncrossed, OneIssues, Issuing, IssueOK, IssuePcs, LoginPcs
  <2> QED BY <1>2, <2>1, <2>2
<1> QED BY <1>2, <1>4, <1>5, OneStep

\* What a login is owed, when it only reads: of cohorts its user's as it was told, and no two
\* scopes, because only one has the passphrase.
LEMMA StillOwed ==
  ASSUME IInv, NEW h \in Handlers, job[h].then = "login", ReadsOnly, Watch,
         NEW j \in Job, Moves(h, j), j.then = "login", j.user = job[h].user,
         j.phrase = job[h].phrase
  PROVE  /\ job'[h] = j
         /\ owed'[h] \subseteq owed[h]
         /\ owed'[h] \cap Cohorts \subseteq {job[h].cohort}
         /\ \A s \in owed'[h] : /\ s \in Matches(Scopes, job[h].phrase, now)
                                /\ Belongs(job[h].user, s)
         /\ ~crossed => \A s \in owed'[h], t \in Scopes :
              t # s /\ scope[t].phrase = job[h].phrase => scope[t].expires <= now
<1>1. job'[h] = j
  BY Moved DEF IInv
<1>2. owed'[h] \subseteq owed[h]
  <2>1. job[h].pc # "idle"
    BY DEF IInv, JobsOK, JobOK, LoginPcs
  <2> QED BY <1>1, <2>1 DEF Watch, At
<1>3. owed[h] \subseteq Entitling(h) /\ owed[h] \cap Cohorts \subseteq {job[h].cohort}
  BY DEF IInv, OwedOK
<1>4. ASSUME ~crossed, NEW s \in owed'[h], NEW t \in Scopes, t # s,
             scope[t].phrase = job[h].phrase
      PROVE  scope[t].expires <= now
  <2>1. s \in Scopes /\ scope[s].phrase = job[h].phrase /\ scope[s].expires > now
    BY <1>2, <1>3, <1>4 DEF Entitling, Matches
  <2>2. job[h].phrase # "none"
    BY EnrolmentAssumption DEF IInv, JobsOK, JobOK
  <2>3. scope[s].expires \in Nat /\ now \in Nat
    BY <2>1 DEF IInv, TypeOK, Row
  <2> QED BY <1>4, <2>1, <2>2, <2>3 DEF IInv, Uncrossed, Distinct
<1> QED BY <1>1, <1>2, <1>3, <1>4 DEF Entitling

LEMMA SeekCohortStep ==
  ASSUME IInv, NEW h \in Handlers, SeekCohort(h) PROVE IInv'
<1>1. ReadsOnly /\ Watch /\ job[h].pc = "seekCohort"
  BY DEF SeekCohort, ReadsOnly, At
<1>2. PICK i \in Job, t \in Nat : i = job[h] /\ t = now
  BY DEF IInv, TypeOK
<1>3. i.user \in Users /\ i.phrase \in Phrases /\ i.then \in {"signUp", "login"} /\ i.phrase # "none"
  BY <1>1, <1>2, EnrolmentAssumption DEF IInv, JobsOK, JobOK
<1>4. PICK j : j = [i EXCEPT !.at = t]
  OBVIOUS
<1>5. j \in Job
  BY ZenonT(60), <1>4 DEF Job
<1>6. /\ j.at = t /\ j.user = i.user /\ j.phrase = i.phrase /\ j.then = i.then
      /\ j.cohort = i.cohort
  BY ZenonT(60), <1>4 DEF Job
<1>7. \/ /\ Matches(Cohorts, j.phrase, t) = {}
         /\ Set(h, [j EXCEPT !.pc = "seekGroup"])
      \/ \E c \in Matches(Cohorts, j.phrase, t) : Set(h, Found(j, c))
  BY Zenon, <1>2, <1>4 DEF SeekCohort
<1>8. CASE Matches(Cohorts, j.phrase, t) = {} /\ Set(h, [j EXCEPT !.pc = "seekGroup"])
  <2>1. PICK k : k = [j EXCEPT !.pc = "seekGroup"]
    OBVIOUS
  <2>2. k \in Job
    BY ZenonT(60), <1>5, <2>1 DEF Job, Pcs
  <2>3. /\ k.pc = "seekGroup" /\ k.at = j.at /\ k.user = j.user /\ k.phrase = j.phrase
        /\ k.then = j.then /\ k.cohort = j.cohort
    BY ZenonT(60), <1>5, <2>1 DEF Job
  <2>4. Moves(h, k)
    BY Zenon, <1>8, <2>1 DEF Set, Moves
  <2>5. JobOK(k)
    BY <1>3, <1>6, <2>3 DEF JobOK, IssuePcs, LoginPcs
  <2>6. CASE i.then = "signUp"
    BY <1>1, <1>6, <2>2, <2>3, <2>4, <2>5, <2>6, ReadsPlain DEF IssuePcs
  <2>7. CASE i.then = "login"
    <3>1. ASSUME ~crossed PROVE LoginOK(h)'
      <4>1. /\ job'[h] = k
            /\ \A s \in owed'[h] : s \in Matches(Scopes, i.phrase, now)
            /\ \A s \in owed'[h], r \in Scopes :
                 r # s /\ scope[r].phrase = i.phrase => scope[r].expires <= now
        BY <1>1, <1>2, <1>6, <2>2, <2>3, <2>4, <2>7, <3>1, StillOwed
      <4>2. owed'[h] \cap Cohorts = {}
        BY <1>2, <1>6, <1>8, <4>1 DEF Matches
      <4>3. UNCHANGED <<scope, now>> /\ now \in Nat
        BY <1>1 DEF ReadsOnly, IInv, TypeOK
      <4> QED BY <1>2, <1>6, <2>3, <4>1, <4>2, <4>3 DEF LoginOK
    <3>2. k.pc \in LoginPcs
      BY <2>3 DEF LoginPcs
    <3> QED BY <1>1, <1>2, <1>6, <2>2, <2>3, <2>4, <2>5, <2>7, <3>1, <3>2, LoginReads
  <2> QED BY <1>3, <2>6, <2>7
<1>9. CASE \E c \in Matches(Cohorts, j.phrase, t) : Set(h, Found(j, c))
  <2>1. PICK c \in Cohorts : scope[c].phrase = i.phrase /\ scope[c].expires > t /\ Set(h, Found(j, c))
    BY <1>6, <1>9 DEF Matches
  <2>2. c \in Scopes
    BY DEF Scopes
  <2>3. Live(c)
    BY <1>3, <2>1, <2>2 DEF IInv, TypeOK
  <2>4. CASE i.then = "signUp"
    <3>1. PICK k : k = [j EXCEPT !.pc = "createUser", !.scope = c]
      OBVIOUS
    <3>2. k \in Job
      BY ZenonT(60), <1>5, <2>2, <3>1 DEF Job, Pcs
    <3>3. k.pc = "createUser" /\ k.scope = c /\ k.user = j.user /\ k.then = j.then
      BY ZenonT(60), <1>5, <3>1 DEF Job
    <3>4. Moves(h, k)
      BY Zenon, <1>6, <2>1, <2>4, <3>1 DEF Set, Moves, Found
    <3>5. JobOK(k)
      BY <1>3, <1>6, <2>2, <2>3, <2>4, <3>3 DEF JobOK, IssuePcs, LoginPcs
    <3> QED BY <1>1, <1>6, <2>4, <3>2, <3>3, <3>4, <3>5, ReadsPlain DEF IssuePcs
  <2>5. CASE i.then = "login"
    <3>0. PICK pc \in {"admitted", "refused"} : pc = IF j.cohort = c THEN "admitted" ELSE "refused"
      OBVIOUS
    <3>1. PICK k : k = [j EXCEPT !.pc = pc]
      OBVIOUS
    <3>2. pc \in Pcs /\ pc \in LoginPcs
      BY DEF Pcs, LoginPcs
    <3>3. k \in Job
      BY ZenonT(60), <1>5, <3>1, <3>2 DEF Job
    <3>4. /\ k.pc = pc /\ k.user = j.user /\ k.phrase = j.phrase /\ k.then = j.then
          /\ k.cohort = j.cohort
      BY ZenonT(60), <1>5, <3>1 DEF Job
    <3>5. j.then # "signUp"
      BY <1>6, <2>5
    <3>6. Moves(h, k)
      BY Zenon, <2>1, <3>0, <3>1, <3>5 DEF Set, Moves, Found, Answered
    <3>7. JobOK(k)
      BY <1>3, <1>6, <2>5, <3>2, <3>4 DEF JobOK, IssuePcs, LoginPcs
    <3>8. ASSUME ~crossed PROVE LoginOK(h)'
      <4>1. /\ job'[h] = k
            /\ owed'[h] \cap Cohorts \subseteq {i.cohort}
            /\ \A s \in owed'[h], r \in Scopes :
                 r # s /\ scope[r].phrase = i.phrase => scope[r].expires <= now
        BY <1>1, <1>2, <1>6, <2>5, <3>3, <3>4, <3>6, <3>8, StillOwed
      <4>2. scope[c].expires \in Nat
        BY <2>2 DEF IInv, TypeOK, Row
      <4>3. owed'[h] \subseteq {c}
        BY <1>2, <2>1, <2>2, <4>1, <4>2
      <4>4. pc = "refused" => owed'[h] = {}
        BY <1>6, <3>0, <4>1, <4>3
      <4> QED BY <3>4, <4>1, <4>4 DEF LoginOK
    <3> QED BY <1>1, <1>2, <1>6, <2>5, <3>2, <3>3, <3>4, <3>6, <3>7, <3>8, LoginReads
  <2> QED BY <1>3, <2>4, <2>5
<1> QED BY <1>7, <1>8, <1>9

LEMMA SeekGroupStep ==
  ASSUME IInv, NEW h \in Handlers, SeekGroup(h) PROVE IInv'
<1>1. ReadsOnly /\ Watch /\ job[h].pc = "seekGroup"
  BY DEF SeekGroup, ReadsOnly, At
<1>2. PICK j \in Job : j = job[h]
  BY DEF IInv, TypeOK
<1>3. j.user \in Users /\ j.phrase \in Phrases /\ j.then \in {"signUp", "login"} /\ JobOK(j)
  BY <1>1, <1>2 DEF IInv, JobsOK, JobOK
<1>4. \/ /\ Matches(Groups, j.phrase, j.at) = {}
         /\ Set(h, IF j.then = "login" THEN Answered(j, FALSE) ELSE NoJob)
      \/ \E g \in Matches(Groups, j.phrase, j.at) : Set(h, Found(j, g))
  BY Zenon, <1>2 DEF SeekGroup
<1>5. ASSUME ~crossed, j.then = "login", NEW k \in Job, Moves(h, k), k.then = "login",
             k.user = j.user, k.phrase = j.phrase, NEW s \in owed'[h]
      PROVE  /\ s \in Matches(Groups, j.phrase, j.at)
             /\ \A g \in Matches(Groups, j.phrase, j.at) : s = g
  <2>1. owed'[h] \subseteq owed[h] /\ s \in Matches(Scopes, j.phrase, now)
    BY <1>1, <1>2, <1>5, StillOwed
  <2>2. /\ j.at <= now /\ owed[h] \cap Cohorts = {}
        /\ \A g \in owed[h], r \in Scopes :
             r # g /\ scope[r].phrase = j.phrase => scope[r].expires <= j.at
    BY <1>1, <1>2, <1>5 DEF IInv, Uncrossed, LoginOK
  <2>3. j.at \in Nat /\ now \in Nat /\ \A r \in Scopes : scope[r].expires \in Nat
    BY DEF Job, IInv, TypeOK, Row
  <2>4. s \in Groups /\ s \in owed[h]
    BY <1>5, <2>1, <2>2 DEF Matches, Scopes
  <2>5. s \in Matches(Groups, j.phrase, j.at)
    BY <2>1, <2>2, <2>3, <2>4 DEF Matches
  <2>6. ASSUME NEW g \in Matches(Groups, j.phrase, j.at) PROVE s = g
    BY <2>2, <2>3, <2>4, <2>6 DEF Matches, Scopes
  <2> QED BY <2>5, <2>6
<1>6. CASE /\ Matches(Groups, j.phrase, j.at) = {}
           /\ Set(h, IF j.then = "login" THEN Answered(j, FALSE) ELSE NoJob)
  <2>1. CASE j.then = "login"
    <3>1. PICK k : k = [j EXCEPT !.pc = "refused"]
      OBVIOUS
    <3>2. k \in Job
      BY ZenonT(60), <3>1 DEF Job, Pcs
    <3>3. /\ k.pc = "refused" /\ k.user = j.user /\ k.phrase = j.phrase /\ k.then = j.then
          /\ k.cohort = j.cohort
      BY ZenonT(60), <3>1 DEF Job
    <3>4. Moves(h, k)
      BY Zenon, <1>6, <2>1, <3>1 DEF Set, Moves, Answered
    <3>5. JobOK(k) /\ k.pc \in LoginPcs
      BY <1>3, <2>1, <3>3 DEF JobOK, IssuePcs, LoginPcs
    <3>6. ASSUME ~crossed PROVE LoginOK(h)'
      <4>1. job'[h] = k /\ owed'[h] = {}
        BY <1>1, <1>2, <1>5, <1>6, <2>1, <3>2, <3>3, <3>4, <3>6, StillOwed
      <4> QED BY <3>3, <4>1 DEF LoginOK
    <3> QED BY <1>1, <1>2, <2>1, <3>2, <3>3, <3>4, <3>5, <3>6, LoginReads
  <2>2. CASE j.then # "login"
    <3>1. End(h)
      BY Zenon, <1>6, <2>2 DEF End
    <3> QED BY <1>1, <3>1, EndReads
  <2> QED BY <2>1, <2>2
<1>7. CASE \E g \in Matches(Groups, j.phrase, j.at) : Set(h, Found(j, g))
  <2>1. PICK g \in Matches(Groups, j.phrase, j.at) : Set(h, Found(j, g))
    BY <1>7
  <2>2. g \in Groups /\ g \in Scopes /\ g \notin Cohorts
    BY <2>1, EnrolmentAssumption DEF Matches, Scopes
  <2>3. PICK pc \in {"createUser", "belongs"} :
          pc = IF j.then = "signUp" THEN "createUser" ELSE "belongs"
    OBVIOUS
  <2>4. PICK k : k = [j EXCEPT !.pc = pc, !.scope = g]
    OBVIOUS
  <2>5. k \in Job
    BY ZenonT(60), <2>2, <2>4 DEF Job, Pcs
  <2>6. /\ k.pc = pc /\ k.scope = g /\ k.user = j.user /\ k.phrase = j.phrase
        /\ k.then = j.then /\ k.cohort = j.cohort
    BY ZenonT(60), <2>4 DEF Job
  <2>7. Moves(h, k)
    BY Zenon, <2>1, <2>2, <2>3, <2>4 DEF Set, Moves, Found
  <2>8. JobOK(k) /\ k.pc \notin IssuePcs
    BY <1>3, <2>2, <2>3, <2>6 DEF JobOK, IssuePcs, LoginPcs
  <2>9. CASE j.then = "login"
    <3>1. ASSUME ~crossed PROVE LoginOK(h)'
      <4>1. job'[h] = k
        BY <1>1, <1>2, <2>5, <2>6, <2>7, <2>9, StillOwed
      <4>2. owed'[h] \subseteq {g}
        BY <1>5, <2>1, <2>5, <2>6, <2>7, <2>9, <3>1
      <4> QED BY <2>3, <2>6, <2>9, <4>1, <4>2 DEF LoginOK
    <3>2. k.pc \in LoginPcs
      BY <2>3, <2>6, <2>9 DEF LoginPcs
    <3> QED BY <1>1, <1>2, <2>5, <2>6, <2>7, <2>8, <2>9, <3>1, <3>2, LoginReads
  <2>10. CASE j.then # "login"
    BY <1>1, <2>5, <2>6, <2>7, <2>8, <2>10, ReadsPlain
  <2> QED BY <2>9, <2>10
<1> QED BY <1>4, <1>6, <1>7

LEMMA InGroupStep ==
  ASSUME IInv, NEW h \in Handlers, InGroup(h) PROVE IInv'
<1>1. ReadsOnly /\ Watch /\ job[h].pc = "belongs"
  BY DEF InGroup, ReadsOnly, At
<1>2. PICK j \in Job : j = job[h]
  BY DEF IInv, TypeOK
<1>3. /\ j.then = "login" /\ j.user \in Users /\ j.phrase \in Phrases /\ JobOK(j)
      /\ j.scope \in Groups /\ j.scope \notin Cohorts
  BY <1>1, <1>2, EnrolmentAssumption DEF IInv, JobsOK, JobOK
<1>4. PICK pc \in {"admitted", "refused"} :
        pc = IF <<j.scope, j.user>> \in member THEN "admitted" ELSE "refused"
  OBVIOUS
<1>5. PICK k : k = [j EXCEPT !.pc = pc]
  OBVIOUS
<1>6. pc \in Pcs /\ pc \in LoginPcs
  BY DEF Pcs, LoginPcs
<1>7. k \in Job
  BY ZenonT(60), <1>5, <1>6 DEF Job
<1>8. k.pc = pc /\ k.user = j.user /\ k.phrase = j.phrase /\ k.then = j.then /\ k.cohort = j.cohort
  BY ZenonT(60), <1>5, <1>6 DEF Job
<1>9. Moves(h, k)
  BY Zenon, <1>2, <1>4, <1>5 DEF InGroup, Set, Moves, Answered
<1>10. JobOK(k)
  BY <1>3, <1>4, <1>8 DEF JobOK, IssuePcs, LoginPcs
<1>11. ASSUME ~crossed PROVE LoginOK(h)'
  <2>1. /\ job'[h] = k /\ owed'[h] \subseteq owed[h]
        /\ \A s \in owed'[h] : Belongs(j.user, s)
    BY <1>1, <1>2, <1>3, <1>7, <1>8, <1>9, StillOwed
  <2>2. owed[h] \subseteq {j.scope}
    BY <1>1, <1>2, <1>3, <1>11 DEF IInv, Uncrossed, LoginOK
  <2>3. pc = "refused" => owed'[h] = {}
    BY <1>3, <1>4, <2>1, <2>2 DEF Belongs
  <2> QED BY <1>4, <1>8, <2>1, <2>3 DEF LoginOK
<1> QED BY <1>1, <1>2, <1>3, <1>6, <1>7, <1>8, <1>9, <1>10, <1>11, LoginReads

-----------------------------------------------------------------------------
(* The invariant holds *)

LEMMA InitIInv == Init => IInv
<1> SUFFICES ASSUME Init PROVE IInv
  OBVIOUS
<1>1. scope \in [Scopes -> Row]
  <2>1. Ttl \in Nat /\ NoRow \in Row
    BY EnrolmentAssumption DEF NoRow, Row
  <2>2. \A n \in Names, p \in Phrases \cup {"none"} :
          [state |-> "live", name |-> n, phrase |-> p,
           expires |-> IF p = "none" THEN 0 ELSE Ttl] \in Row
    BY <2>1 DEF Row
  <2> QED BY <2>1, <2>2 DEF Init
<1>2. ASSUME NEW s \in Scopes
      PROVE  /\ scope[s].phrase # "none" => Live(s)
             /\ scope[s].phrase # "none" => scope[s].expires = Ttl
  BY DEF Init, NoRow, Live
<1>3. user \in [Users -> User] /\ ActiveKnown
  <2>1. user \in [Users -> {Stranger} \cup
                   [known : {TRUE}, active : {TRUE}, cohort : Cohorts \cup {NoScope}]]
    BY PTL DEF Init
  <2>2. Stranger \in User /\ ~Stranger.active
    BY DEF Stranger, User
  <2>3. \A x \in {Stranger} \cup [known : {TRUE}, active : {TRUE}, cohort : Cohorts \cup {NoScope}] :
          x \in User /\ (x.active => x.known)
    BY <2>2 DEF User
  <2> QED BY <2>1, <2>3 DEF ActiveKnown
<1>4. /\ ou \subseteq Names
  <2>1. \A c \in Cohorts : Live(c) => scope[c].name \in Names
    BY DEF Init, NoRow, Live, Scopes
  <2> QED BY <2>1 DEF Init
<1>5. TypeOK
  <2>1. member \subseteq Groups \X Users /\ \A m \in member : Live(m[1]) /\ user[m[2]].known
    BY DEF Init
  <2>2. \A u \in Users : user[u].cohort # NoScope => Live(user[u].cohort)
    BY DEF Init
  <2>3. /\ now \in Nat /\ ops \in Nat /\ mishaps \in Nat /\ crossed \in BOOLEAN
        /\ owed \in [Handlers -> SUBSET Scopes]
    BY DEF Init
  <2>4. job \in [Handlers -> Job]
    BY NoJobIsJob DEF Init
  <2> QED BY <1>1, <1>2, <1>3, <1>4, <2>1, <2>2, <2>3, <2>4 DEF TypeOK
<1>6. \A h \in Handlers : job[h] = NoJob
  BY DEF Init
<1>7. JobsOK /\ \A h \in Handlers : OwedOK(h)
  BY <1>6, NoJobOK, NoJobIsJob DEF Init, JobsOK, OwedOK
<1>8. OneIssues /\ \A h \in Handlers : IssueOK(job[h]) /\ LoginOK(h)
  BY <1>6, NoJobIsJob DEF OneIssues, Issuing, IssueOK, LoginOK, IssuePcs
<1>9. Distinct(now)
  <2>1. ASSUME NEW r \in Scopes, NEW s \in Scopes, r # s, Live(r), Live(s),
               scope[r].phrase # "none"
        PROVE  scope[r].phrase # scope[s].phrase
    BY SMTT(30), <2>1 DEF Init
  <2> QED BY <1>2, <2>1 DEF Distinct
<1> QED BY <1>3, <1>5, <1>7, <1>8, <1>9 DEF IInv, Uncrossed

LEMMA BeginsStep == ASSUME IInv, NEW h \in Handlers, Begins(h) PROVE IInv'
BY StartIssueStep, StartRevokeStep, StartGroupStep, StartSyncGroupsStep, StartRenameStep,
   StartDropGroupStep, StartAddStep, StartRemoveStep, StartCohortStep, StartSyncUserStep,
   StartSignUpStep, StartLoginStep DEF Begins

LEMMA StepStep == ASSUME IInv, NEW h \in Handlers, Step(h) PROVE IInv'
<1>1. CASE \/ CheckCohorts(h) \/ CheckGroups(h) \/ Store(h) \/ FindActive(h) \/ Clear(h)
  BY <1>1, CheckCohortsStep, CheckGroupsStep, StoreStep, FindActiveStep, ClearStep
<1>2. CASE \/ FindGroup(h) \/ InsertGroup(h) \/ Rename(h) \/ DropGroup(h)
           \/ FindMember(h) \/ AddMember(h) \/ RemoveMember(h)
  BY <1>2, FindGroupStep, InsertGroupStep, RenameStep, DropGroupStep, FindMemberStep,
     AddMemberStep, RemoveMemberStep
<1>3. CASE CreateOU(h) \/ InsertCohort(h) \/ InsertUser(h) \/ PatchUser(h)
  BY <1>3, CreateOUStep, InsertCohortStep, InsertUserStep, PatchUserStep
<1>4. CASE SeekCohort(h) \/ SeekGroup(h) \/ InGroup(h) \/ CreateUser(h) \/ Respond(h)
  BY <1>4, SeekCohortStep, SeekGroupStep, InGroupStep, CreateUserStep, RespondStep
<1>5. CASE StatementFails(h)
  BY <1>5, FailsStep DEF StatementFails
<1> QED BY <1>1, <1>2, <1>3, <1>4, <1>5 DEF Step

LEMMA StutterStep == ASSUME IInv, UNCHANGED vars PROVE IInv'
<1>1. UNCHANGED <<scope, user, member, ou, now, job, ops, mishaps, crossed, owed>>
  BY DEF vars, people, budget
<1>2. TypeOK' /\ ActiveKnown' /\ JobsOK'
  BY <1>1 DEF IInv, TypeOK, ActiveKnown, JobsOK, JobOK, Live
<1>3. \A h \in Handlers : OwedOK(h)'
  BY <1>1 DEF IInv, OwedOK, Entitling, Matches, Belongs
<1>4. Uncrossed => Uncrossed'
  BY <1>1 DEF Uncrossed, OneIssues, Issuing, Distinct, IssueOK, Free, LoginOK
<1> QED BY <1>1, <1>2, <1>3, <1>4 DEF IInv

LEMMA NextIInv == IInv /\ [Next]_vars => IInv'
<1> SUFFICES ASSUME IInv, [Next]_vars PROVE IInv'
  OBVIOUS
<1>1. CASE \E h \in Handlers : Begins(h) \/ Step(h)
  BY <1>1, BeginsStep, StepStep
<1>2. CASE \E c \in Cohorts : SyncToGroup(c)
  BY <1>2, SyncToGroupStep
<1>3. CASE \E u \in Users : Unseen(u) \/ Delete(u) \/ Reenter(u)
  BY <1>3, UnseenStep, DeleteStep, ReenterStep
<1>4. CASE \E u, v \in Users : Merge(u, v)
  BY <1>4, MergeStep
<1>5. CASE Tick
  BY <1>5, TickStep
<1>6. CASE Crash
  BY <1>6, FailsStep DEF Crash
<1>7. CASE UNCHANGED vars
  BY <1>7, StutterStep
<1> QED BY <1>1, <1>2, <1>3, <1>4, <1>5, <1>6, <1>7 DEF Next

LEMMA Invariant == Spec => []IInv
<1> QED BY InitIInv, NextIInv, PTL DEF Spec

-----------------------------------------------------------------------------
(* What follows from it *)

\* Whatever group.service.ts, cohort.service.ts, passphrase.service.ts, the sync, the merge
\* and the two routes write, in whatever order: every membership and every cohort_id refers
\* to rows that are there, and only a group or cohort that is there has a passphrase.
THEOREM TypeCorrect == Spec => []TypeOK
<1>1. IInv => TypeOK
  BY DEF IInv
<1> QED BY <1>1, Invariant, PTL

\* The collision check of passphrase.service.ts is enough when no two requests for a
\* passphrase overlap: two scopes never have the same valid one, however long a request
\* takes between its look-ups and its write, for any number of scopes and phrases.
THEOREM OneScope == Spec => []OneScopePerPhrase
<1>1. IInv => OneScopePerPhrase
  BY DEF IInv, Uncrossed, Distinct, OneScopePerPhrase
<1> QED BY <1>1, Invariant, PTL

\* The login route of passphrase-login.ts refuses no one who was, from its first statement to
\* its last, an active member of a scope with the valid passphrase presented, unless two
\* requests for a passphrase have overlapped.
THEOREM MembersAdmitted == Spec => []MemberAdmitted
<1>1. ASSUME IInv PROVE MemberAdmitted
  <2> SUFFICES ASSUME ~crossed, NEW h \in Handlers, At(h, "refused")
               PROVE  owed[h] = {}
    BY DEF MemberAdmitted
  <2>1. CASE job[h].then = "login"
    BY <1>1, <2>1 DEF IInv, Uncrossed, LoginOK, At
  <2>2. CASE job[h].then # "login"
    BY <1>1, <2>2 DEF IInv, OwedOK
  <2> QED BY <2>1, <2>2
<1> QED BY <1>1, Invariant, PTL

=============================================================================
