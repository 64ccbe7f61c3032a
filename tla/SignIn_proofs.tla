---------------------------- MODULE SignIn_proofs ----------------------------
(***************************************************************************)
(* For any number of users, identities and requests: merges are final, and  *)
(* a sign-in that nobody disturbs ends as it should whatever crashes and    *)
(* races went before.  When requests do not overlap: whoever was removed    *)
(* stays out, nobody comes to a user merged away and, unless one failed,    *)
(* everybody who came by signing in or up keeps a login.                    *)
(***************************************************************************)
EXTENDS SignIn, FiniteSetTheorems, TLAPS

-----------------------------------------------------------------------------
(* The inductive invariant *)

KnownIn(us) == {u \in UserIds : us[u].via # "none"}
SigningIn   == {"load", "match", "reenter", "create", "attach", "ou", "elevate"}

\* What a request refers to at each point; us is the User table.
JobOK(j, us) ==
  /\ j \in Job
  /\ j.user \in KnownIn(us) \cup {Nobody}
  /\ j.pc \in SigningIn \cup {"unlink", "signUp"} => j.ident \in Identities
  /\ j.pc \in {"match", "create", "signUp"} => j.email \in Emails
  /\ j.pc \in {"load", "reenter", "attach", "ou", "elevate", "patch", "record", "approve"} =>
       j.user \in KnownIn(us)
  /\ j.pc \in {"record", "approve"} => j.other \in KnownIn(us) /\ j.other # j.user
  /\ j.pc \in {"find", "insert", "patch"} => j.todo # {}
  /\ j.pc = "patch" => j.then \in {"none", "student", "staff"}
  /\ j.pc = "drop" => j.drops # {} /\ j.drops \subseteq KnownIn(us)

\* What a request that nobody disturbs has read is still so; lg is the Login table.
Undisturbed(j, us, lg) ==
  /\ j.pc = "load" => lg[j.ident] = j.user
  /\ j.pc \in {"match", "create", "attach"} => lg[j.ident] = Nobody
  /\ j.pc = "create" => \A u \in KnownIn(us) : us[u].email = j.email => us[u].parked # <<>>
  /\ j.pc = "reenter" =>
       /\ ~us[j.user].active /\ us[j.user].approval # "permanent"
       /\ IF j.then = "attach" THEN lg[j.ident] = Nobody /\ us[j.user].parked = <<>>
                               ELSE lg[j.ident] = j.user
  /\ j.pc \in {"attach", "ou", "elevate"} => us[j.user].active
  /\ j.pc \in {"ou", "elevate"} => lg[j.ident] = j.user
  /\ j.pc = "patch" => us[j.user].parked = <<>>
  /\ j.pc = "answer" =>
       /\ j.end # "failed"
       /\ j.end = "signedIn" => lg[j.ident] = j.user /\ us[j.user].active
       /\ j.end = "denied" => us[j.user].approval = "permanent" /\ ~us[j.user].active

Idle(h) == job[h].pc = "idle"

\* A request that says it is alone is, and has not been disturbed.
AloneOK(h) ==
  ~Idle(h) /\ job[h].alone =>
    /\ \A g \in Handlers : g # h => Idle(g)
    /\ Undisturbed(job[h], user, login)

JobsOK ==
  /\ job \in [Handlers -> Job]
  /\ \A h \in Handlers : JobOK(job[h], user) /\ AloneOK(h)
  /\ races = 0 => \A h \in Handlers : Idle(h) \/ job[h].alone

\* Users get their ids in order; of one who is not there nothing is noted.
IdsInOrder ==
  /\ \E n \in Nat : Known = 1..n
  /\ \A u \in UserIds \ Known : out[u] = "in"

\* Who was removed, and who was merged away, of user u.
RemovedOK(u) ==
  /\ out[u] = "denied" => ~user[u].active /\ user[u].approval = "permanent"
  /\ out[u] = "back" => user[u].approval = "permanent"
  /\ out[u] = "removed" => ~Usable(u)
MergedOK(u) ==
  Merged(u) /\ ~late[u] => ~user[u].active /\ \A i \in Identities : login[i] # u

\* Suggestions, and scans, are about users who are there.
Suggested ==
  /\ \A p \in Pairs : merge[p] # "none" => p[1] \in Known /\ p[2] \in Known
  /\ \A u \in UserIds : /\ scan[u].todo \subseteq Known
                        /\ scan[u].state # "none" \/ scan[u].todo # {} => u \in Known

Tables ==
  /\ user \in [UserIds -> User]
  /\ login \in [Identities -> Known \cup {Nobody}]
  /\ merge \in [Pairs -> Statuses]
  /\ scan \in [UserIds -> [state: {"none", "queued", "running"}, todo: SUBSET UserIds]]
  /\ out \in [UserIds -> {"in", "removed", "denied", "back"}]
  /\ late \in [UserIds -> BOOLEAN]
  /\ Suggested

Counters == ops \in Nat /\ races \in Nat /\ fails \in Nat

People == races = 0 => \A u \in UserIds : RemovedOK(u) /\ MergedOK(u)

IInv == Tables /\ Counters /\ IdsInOrder /\ People /\ JobsOK

-----------------------------------------------------------------------------
(* Ids *)

LEMMA NobodyIsNoUser == Nobody \notin UserIds
BY SignInAssumption DEF Nobody, UserIds

LEMMA KnownIsKnownIn == Known = KnownIn(user)
BY DEF Known, KnownIn, Exists

LEMMA NextIdIsNew ==
  ASSUME NEW n \in Nat, Known = 1..n
  PROVE  NextId = n + 1 /\ NextId \notin Known
<1>1. Cardinality(1..n) = n
  BY FS_Interval
<1> QED BY <1>1 DEF NextId

\* An insertion makes the next user, and nobody else's row changes.
LEMMA InsertIds ==
  ASSUME IInv, NEW e \in Emails, NEW approval \in Approvals, NEW role \in Roles,
         NEW via \in {"social", "passphrase", "import", "sync"}, Insert(e, approval, role, via)
  PROVE  /\ user' \in [UserIds -> User]
         /\ NextId \in UserIds \ Known /\ Known' = Known \cup {NextId}
         /\ \E n \in Nat : Known' = 1..n
         /\ user'[NextId].email = e /\ user'[NextId].parked = <<>> /\ user'[NextId].active
         /\ user'[NextId].approval = approval /\ user'[NextId].via = via
         /\ \A u \in UserIds : u # NextId => user'[u] = user[u]
         /\ \A u \in Known : user[u].email = e => Merged(u)
<1> DEFINE row == [email |-> e, parked |-> <<>>, active |-> TRUE, approval |-> approval,
                   role |-> role, via |-> via]
<1>1. row \in User
  BY DEF User
<1>2. NextId \in UserIds /\ user' = [user EXCEPT ![NextId] = row] /\ OwnerOf(e) = {}
  BY DEF Insert
<1>3. PICK n \in Nat : Known = 1..n
  BY DEF IInv, IdsInOrder
<1>4. NextId = n + 1 /\ NextId \notin Known
  BY <1>3, NextIdIsNew
<1>5. user \in [UserIds -> User]
  BY DEF IInv, Tables
<1>6. row.via # "none" /\ row.email = e /\ row.parked = <<>> /\ row.active /\ row.approval = approval /\ row.via = via
  OBVIOUS
<1> HIDE DEF row
<1>7. user'[NextId] = row /\ user' \in [UserIds -> User] /\ \A u \in UserIds : u # NextId => user'[u] = user[u]
  BY <1>1, <1>2, <1>5
<1>8. Known' = Known \cup {NextId}
  BY <1>2, <1>6, <1>7 DEF Known, Exists
<1>9. Known' = 1..(n + 1) /\ n + 1 \in Nat
  BY <1>3, <1>4, <1>8
<1>10. \A u \in Known : user[u].email = e => Merged(u)
  BY <1>2 DEF OwnerOf
<1> QED BY <1>2, <1>4, <1>6, <1>7, <1>8, <1>9, <1>10

-----------------------------------------------------------------------------
(* What steps do to requests *)

\* A record that a request of the same aloneness may have; us and lg are the tables then.
Ready(j, alone, us, lg) ==
  /\ JobOK(j, us)
  /\ j.pc # "idle" => j.alone = alone
  /\ j.pc # "idle" /\ alone => Undisturbed(j, us, lg)

LEMMA JobTyped ==
  ASSUME IInv, NEW h \in Handlers
  PROVE  /\ JobOK(job[h], user) /\ job[h] \in Job
         /\ ~Idle(h) /\ job[h].alone => /\ \A g \in Handlers : g # h => Idle(g)
                                        /\ Undisturbed(job[h], user, login)
BY DEF IInv, JobsOK, JobOK, AloneOK

\* Users stay, so that what a request refers to is still there.
LEMMA JobStays ==
  ASSUME NEW us, NEW vs, NEW j, JobOK(j, us), KnownIn(us) \subseteq KnownIn(vs)
  PROVE  JobOK(j, vs)
BY DEF JobOK

LEMMA NoJobIsJob == NoJob \in Job /\ NoJob.pc = "idle" /\ NoJob.user = Nobody
BY DEF NoJob, Job, Points

LEMMA NoJobOK ==
  /\ \A us : JobOK(NoJob, us)
  /\ \A us, lg, alone : Ready(NoJob, alone, us, lg)
<1>1. ASSUME NEW us PROVE JobOK(NoJob, us)
  BY NoJobIsJob DEF JobOK, SigningIn
<1> QED BY <1>1, NoJobIsJob DEF Ready

\* A request goes on: if it is alone no other is under way.  Others may end with it.
LEMMA HandlersMove ==
  ASSUME IInv, NEW h \in Handlers, ~Idle(h), NEW j,
         job' = [g \in Handlers |-> job'[g]], job'[h] = j,
         \A g \in Handlers : g # h => job'[g] \in {job[g], NoJob},
         Ready(j, job[h].alone, user', login'), Known \subseteq Known', races' = races
  PROVE  JobsOK'
<1>1. KnownIn(user) \subseteq KnownIn(user')
  BY DEF Known, KnownIn, Exists
<1>2. ASSUME NEW g \in Handlers PROVE JobOK(job'[g], user')
  <2>1. CASE g = h
    BY <2>1 DEF Ready
  <2>2. CASE g # h
    BY <1>1, <2>2, JobTyped, JobStays, NoJobOK
  <2> QED BY <2>1, <2>2
<1>3. job' \in [Handlers -> Job]
  BY <1>2 DEF JobOK
<1>4. ASSUME NEW g \in Handlers, job'[g].pc # "idle", job'[g].alone
      PROVE  /\ \A k \in Handlers : k # g => job'[k].pc = "idle"
             /\ Undisturbed(job'[g], user', login')
  <2>1. CASE g = h
    <3>1. job[h].alone /\ Undisturbed(j, user', login')
      BY <1>4, <2>1 DEF Ready
    <3> QED BY <2>1, <3>1, JobTyped, NoJobIsJob DEF Idle
  <2>2. CASE g # h
    <3>1. job'[g] = job[g]
      BY <1>4, <2>2, NoJobIsJob
    <3> QED BY <1>4, <2>2, <3>1, JobTyped DEF Idle
  <2> QED BY <2>1, <2>2
<1>5. races' = 0 => \A g \in Handlers : job'[g].pc = "idle" \/ job'[g].alone
  BY NoJobIsJob DEF IInv, JobsOK, Idle, Ready
<1> QED BY <1>2, <1>3, <1>4, <1>5 DEF JobsOK, AloneOK, Idle

LEMMA HandlerMoves ==
  ASSUME IInv, NEW h \in Handlers, ~Idle(h), NEW j, Set(h, j), Ready(j, job[h].alone, user', login'),
         Known \subseteq Known', races' = races
  PROVE  JobsOK'
<1>1. job \in [Handlers -> Job] /\ job' = [job EXCEPT ![h] = j]
  BY DEF IInv, JobsOK, Set
<1>2. /\ job' = [g \in Handlers |-> job'[g]] /\ job'[h] = j
      /\ \A g \in Handlers : g # h => job'[g] \in {job[g], NoJob}
  BY <1>1
<1> QED BY <1>2, HandlersMove

\* A request that nobody waits for, and that disturbs whoever is under way.
LEMMA Disturbs ==
  ASSUME IInv, job' = Disturb(job), Count, Known \subseteq Known'
  PROVE  JobsOK' /\ Counters'
<1>1. KnownIn(user) \subseteq KnownIn(user')
  BY DEF Known, KnownIn, Exists
<1>2. ASSUME NEW g \in Handlers
      PROVE  /\ JobOK(job'[g], user')
             /\ job'[g].pc = job[g].pc
             /\ job'[g].pc = "idle" \/ ~job'[g].alone
  <2>1. JobOK(job[g], user') /\ job[g] \in Job
    BY <1>1, JobTyped, JobStays
  <2>2. CASE job[g].pc = "idle"
    BY <2>1, <2>2 DEF Disturb
  <2>3. CASE job[g].pc # "idle"
    <3> DEFINE k == [job[g] EXCEPT !.alone = FALSE]
    <3>1. job'[g] = k
      BY <2>3 DEF Disturb
    <3>2. /\ k \in Job /\ k.alone = FALSE /\ k.pc = job[g].pc /\ k.user = job[g].user
          /\ k.ident = job[g].ident /\ k.email = job[g].email /\ k.other = job[g].other
          /\ k.todo = job[g].todo /\ k.then = job[g].then /\ k.drops = job[g].drops
      BY <2>1 DEF Job
    <3> HIDE DEF k
    <3> QED BY <2>1, <3>1, <3>2 DEF JobOK
  <2> QED BY <2>2, <2>3
<1>3. job' \in [Handlers -> Job]
  <2>1. job' = [g \in Handlers |-> job'[g]]
    BY DEF Disturb
  <2> QED BY <1>2, <2>1 DEF JobOK
<1>4. \A g \in Handlers : AloneOK(g)'
  BY <1>2 DEF AloneOK, Idle
<1>5. races' = 0 => \A g \in Handlers : job'[g].pc = "idle"
  <2>1. races \in Nat
    BY DEF IInv, Counters
  <2> QED BY <1>2, <2>1 DEF Count, Quiet, At
<1>6. Counters'
  BY DEF IInv, Counters, Count
<1> QED BY <1>2, <1>3, <1>4, <1>5, <1>6 DEF JobsOK, Idle

LEMMA TablesKept ==
  ASSUME IInv, UNCHANGED <<user, login, merge, scan, out, late>>, races' \in Nat, races' = 0 => races = 0
  PROVE  Tables' /\ IdsInOrder' /\ People'
<1>1. Known' = Known
  BY DEF Known, Exists
<1>2. Tables'
  BY <1>1 DEF IInv, Tables, Suggested
<1>3. IdsInOrder'
  BY <1>1 DEF IInv, IdsInOrder
<1>4. People'
  BY DEF IInv, People, RemovedOK, MergedOK, Merged, Usable
<1> QED BY <1>2, <1>3, <1>4

\* A request that writes nothing but its own record.
LEMMA OnlyJob ==
  ASSUME IInv, NEW h \in Handlers, ~Idle(h), NEW j, Set(h, j), Ready(j, job[h].alone, user, login),
         UNCHANGED <<user, login, merge, scan, history>>,
         UNCHANGED budget \/ (races' = races /\ Counters')
  PROVE  IInv'
<1>1. Known' = Known /\ races' = races /\ user' = user /\ login' = login
  BY DEF Known, Exists, budget
<1>2. Ready(j, job[h].alone, user', login')
  BY <1>1
<1>3. JobsOK'
  BY <1>1, <1>2, HandlerMoves
<1>4. Counters'
  BY DEF IInv, Counters, budget
<1>5. Tables' /\ IdsInOrder' /\ People'
  BY <1>1, TablesKept DEF history, IInv, Counters
<1> QED BY <1>3, <1>4, <1>5 DEF IInv

\* A request begins.
LEMMA BeginKeeps ==
  ASSUME IInv, NEW h \in Handlers, NEW op, NEW j, Begin(h, op, j), JobOK(j, user),
         Undisturbed(j, user, login)
  PROVE  IInv'
<1> DEFINE q == Quiet
           k == [j EXCEPT !.alone = q]
<1>1. /\ job' = [Disturb(job) EXCEPT ![h] = k]
      /\ Count /\ UNCHANGED <<user, login, merge, scan, history>>
  BY DEF Begin
<1>2. q \in BOOLEAN /\ (q <=> \A g \in Handlers : Idle(g))
  BY DEF Quiet, At, Idle
<1>3. races' \in Nat /\ (races' = 0 => races = 0 /\ q) /\ Counters'
  BY <1>1 DEF IInv, Counters, Count
<1> HIDE DEF q
<1>4. /\ k \in Job /\ k.alone = q /\ k.pc = j.pc /\ k.user = j.user
      /\ k.ident = j.ident /\ k.email = j.email /\ k.other = j.other
      /\ k.todo = j.todo /\ k.then = j.then /\ k.drops = j.drops /\ k.end = j.end
  BY <1>2 DEF JobOK, Job
<1> HIDE DEF k
<1>5. JobOK(k, user) /\ Undisturbed(k, user, login)
  BY <1>4 DEF JobOK, Undisturbed
<1>6. job'[h] = k /\ \A g \in Handlers : g # h => job'[g] = Disturb(job)[g]
  BY <1>1 DEF Disturb
<1>7. ASSUME NEW g \in Handlers, g # h
      PROVE  /\ JobOK(job'[g], user)
             /\ job'[g].pc = job[g].pc
             /\ job'[g].pc = "idle" \/ ~job'[g].alone
  <2>1. JobOK(job[g], user) /\ job[g] \in Job
    BY JobTyped
  <2>2. CASE job[g].pc = "idle"
    BY <1>6, <1>7, <2>1, <2>2 DEF Disturb
  <2>3. CASE job[g].pc # "idle"
    <3> DEFINE i == [job[g] EXCEPT !.alone = FALSE]
    <3>1. job'[g] = i
      BY <1>6, <1>7, <2>3 DEF Disturb
    <3>2. /\ i \in Job /\ i.alone = FALSE /\ i.pc = job[g].pc /\ i.user = job[g].user
          /\ i.ident = job[g].ident /\ i.email = job[g].email /\ i.other = job[g].other
          /\ i.todo = job[g].todo /\ i.then = job[g].then /\ i.drops = job[g].drops
      BY <2>1 DEF Job
    <3> HIDE DEF i
    <3> QED BY <2>1, <3>1, <3>2 DEF JobOK
  <2> QED BY <2>2, <2>3
<1>8. job' \in [Handlers -> Job] /\ \A g \in Handlers : JobOK(job'[g], user')
  <2>1. job' = [g \in Handlers |-> job'[g]]
    BY <1>1 DEF Disturb
  <2>2. ASSUME NEW g \in Handlers PROVE JobOK(job'[g], user)
    BY <1>5, <1>6, <1>7
  <2> QED BY <1>1, <2>1, <2>2 DEF JobOK
<1>9. \A g \in Handlers : AloneOK(g)'
  <2> SUFFICES ASSUME NEW g \in Handlers, job'[g].pc # "idle", job'[g].alone
               PROVE  /\ \A i \in Handlers : i # g => job'[i].pc = "idle"
                      /\ Undisturbed(job'[g], user', login')
    BY DEF AloneOK, Idle
  <2>1. g = h /\ q
    BY <1>4, <1>6, <1>7
  <2>2. \A i \in Handlers : i # g => job'[i].pc = "idle"
    BY <1>2, <1>7, <2>1 DEF q, Idle
  <2> QED BY <1>1, <1>5, <1>6, <2>1, <2>2
<1>10. races' = 0 => \A g \in Handlers : job'[g].pc = "idle" \/ job'[g].alone
  <2> SUFFICES ASSUME races' = 0, NEW g \in Handlers PROVE job'[g].pc = "idle" \/ job'[g].alone
    OBVIOUS
  <2>1. q
    BY <1>3
  <2>2. CASE g = h
    BY <1>4, <1>6, <2>1, <2>2
  <2>3. CASE g # h
    BY <1>2, <1>7, <2>1, <2>3 DEF q, Idle
  <2> QED BY <2>2, <2>3
<1>11. Tables' /\ IdsInOrder' /\ People'
  BY <1>1, <1>3, TablesKept DEF history
<1> QED BY <1>3, <1>8, <1>9, <1>10, <1>11 DEF IInv, JobsOK, Idle

-----------------------------------------------------------------------------
(* The records that a sign-in goes through *)

LEMMA AnsweredReady ==
  ASSUME NEW us, NEW lg, NEW j, JobOK(j, us), NEW alone, j.alone = alone,
         NEW end \in {"signedIn", "denied", "failed", "refused"},
         alone => /\ end # "failed"
                  /\ end = "signedIn" => lg[j.ident] = j.user /\ us[j.user].active
                  /\ end = "denied" => us[j.user].approval = "permanent" /\ ~us[j.user].active
  PROVE  Ready(Answered(j, end), alone, us, lg)
<1> DEFINE i == j.ident
           u == j.user
           a == j.alone
           k == [NoJob EXCEPT !.pc = "answer", !.ident = i, !.user = u, !.end = end, !.alone = a]
<1>1. Answered(j, end) = k
  BY DEF Answered
<1>2. /\ i \in Identities \cup {NoIdentity} /\ u \in UserIds \cup {Nobody}
      /\ u \in KnownIn(us) \cup {Nobody} /\ a \in BOOLEAN
  BY DEF JobOK, Job
<1> HIDE DEF i, u, a
<1>3. k \in Job /\ k.pc = "answer" /\ k.ident = i /\ k.user = u /\ k.end = end /\ k.alone = a
  <2> DEFINE l == [NoJob EXCEPT !.pc = "answer", !.ident = i, !.user = u]
  <2>1. l \in Job /\ l.pc = "answer" /\ l.ident = i /\ l.user = u
    BY ZenonT(60), <1>2, NoJobIsJob DEF Job, Points
  <2>2. k = [l EXCEPT !.end = end, !.alone = a]
    BY DEF NoJob
  <2> HIDE DEF l, k
  <2> QED BY <1>2, <2>1, <2>2 DEF Job
<1> HIDE DEF k
<1>4. JobOK(k, us)
  BY <1>2, <1>3 DEF JobOK, SigningIn
<1>5. alone => Undisturbed(k, us, lg)
  BY <1>3 DEF Undisturbed, i, u
<1> QED BY <1>1, <1>3, <1>4, <1>5 DEF Ready, a

\* A request moves to a point of a sign-in at which user and identity are there.
LEMMA PointReady ==
  ASSUME NEW us, NEW lg, NEW j, JobOK(j, us), NEW alone, j.alone = alone,
         NEW pc \in {"attach", "ou", "elevate", "reenter"},
         j.user \in KnownIn(us), j.ident \in Identities,
         alone => Undisturbed([j EXCEPT !.pc = pc], us, lg)
  PROVE  Ready([j EXCEPT !.pc = pc], alone, us, lg)
<1> DEFINE k == [j EXCEPT !.pc = pc]
<1>1. /\ k \in Job /\ k.pc = pc /\ k.ident = j.ident /\ k.user = j.user /\ k.alone = j.alone
  BY DEF JobOK, Job, Points
<1>2. alone => Undisturbed(k, us, lg)
  OBVIOUS
<1> HIDE DEF k
<1>3. JobOK(k, us)
  BY <1>1 DEF JobOK, SigningIn
<1>4. Ready(k, alone, us, lg)
  BY <1>1, <1>2, <1>3 DEF Ready
<1> QED BY <1>4 DEF k

LEMMA CheckedReady ==
  ASSUME NEW us, NEW lg, NEW j, JobOK(j, us), NEW alone, j.alone = alone,
         j.user \in KnownIn(us), j.ident \in Identities,
         alone => lg[j.ident] = j.user /\ us[j.user].active
  PROVE  Ready(Checked(j), alone, us, lg)
<1>1. ASSUME NEW pc \in {"ou", "elevate"} PROVE Ready([j EXCEPT !.pc = pc], alone, us, lg)
  <2>1. alone => Undisturbed([j EXCEPT !.pc = pc], us, lg)
    <3> DEFINE k == [j EXCEPT !.pc = pc]
    <3>1. k.pc = pc /\ k.ident = j.ident /\ k.user = j.user
      BY DEF JobOK, Job
    <3> HIDE DEF k
    <3>2. alone => Undisturbed(k, us, lg)
      BY <3>1 DEF Undisturbed
    <3> QED BY <3>2 DEF k
  <2> QED BY <2>1, PointReady
<1>2. Ready(Answered(j, "signedIn"), alone, us, lg)
  BY AnsweredReady
<1> QED BY <1>1, <1>2 DEF Checked

LEMMA ElevatedReady ==
  ASSUME NEW us, NEW lg, NEW j, JobOK(j, us), NEW alone, j.alone = alone,
         j.user \in KnownIn(us), j.ident \in Identities,
         alone => lg[j.ident] = j.user /\ us[j.user].active
  PROVE  Ready(Elevated(j), alone, us, lg)
<1>1. Ready([j EXCEPT !.pc = "elevate"], alone, us, lg)
  <2>1. alone => Undisturbed([j EXCEPT !.pc = "elevate"], us, lg)
    <3> DEFINE k == [j EXCEPT !.pc = "elevate"]
    <3>1. k.pc = "elevate" /\ k.ident = j.ident /\ k.user = j.user
      BY DEF JobOK, Job
    <3> HIDE DEF k
    <3>2. alone => Undisturbed(k, us, lg)
      BY <3>1 DEF Undisturbed
    <3> QED BY <3>2 DEF k
  <2> QED BY <2>1, PointReady
<1>2. Ready(Answered(j, "signedIn"), alone, us, lg)
  BY AnsweredReady
<1> QED BY <1>1, <1>2 DEF Elevated

LEMMA ContinueReady ==
  ASSUME NEW us, NEW lg, NEW j, JobOK(j, us), NEW alone, j.alone = alone,
         j.user \in KnownIn(us), j.ident \in Identities,
         alone => us[j.user].active /\ (IF j.then = "attach" THEN lg[j.ident] = Nobody
                                                             ELSE lg[j.ident] = j.user)
  PROVE  Ready(Continue(j), alone, us, lg)
<1>1. CASE j.then = "attach"
  <2>1. alone => Undisturbed([j EXCEPT !.pc = "attach"], us, lg)
    <3> DEFINE k == [j EXCEPT !.pc = "attach"]
    <3>1. k.pc = "attach" /\ k.ident = j.ident /\ k.user = j.user
      BY DEF JobOK, Job
    <3> HIDE DEF k
    <3>2. alone => Undisturbed(k, us, lg)
      BY <1>1, <3>1 DEF Undisturbed
    <3> QED BY <3>2 DEF k
  <2>2. Ready([j EXCEPT !.pc = "attach"], alone, us, lg)
    BY <2>1, PointReady
  <2> QED BY <1>1, <2>2 DEF Continue
<1>2. CASE j.then # "attach"
  BY <1>2, CheckedReady DEF Continue
<1> QED BY <1>1, <1>2

LEMMA SyncNextReady ==
  ASSUME NEW us, NEW lg, NEW j \in Job, j.user \in KnownIn(us) \cup {Nobody}, NEW alone, j.alone = alone
  PROVE  Ready(SyncNext(j), alone, us, lg)
<1> DEFINE pc == IF j.todo = {} THEN "unseen" ELSE "find"
           k == [j EXCEPT !.pc = pc]
<1>1. pc \in Points /\ (pc = "find" => j.todo # {}) /\ pc \in {"unseen", "find"}
  BY DEF Points
<1>2. SyncNext(j) = k
  BY DEF SyncNext
<1> HIDE DEF pc
<1>3. /\ k \in Job /\ k.pc = pc /\ k.user = j.user /\ k.todo = j.todo /\ k.alone = j.alone
  BY <1>1 DEF Job
<1> HIDE DEF k
<1>4. JobOK(k, us) /\ Undisturbed(k, us, lg)
  BY <1>1, <1>3 DEF JobOK, SigningIn, Undisturbed
<1> QED BY <1>2, <1>3, <1>4 DEF Ready

-----------------------------------------------------------------------------
(* Signing in *)

LEMMA StartSignInKeeps ==
  ASSUME IInv, NEW h \in Handlers, NEW i \in Identities, StartSignIn(h, i) PROVE IInv'
<1> DEFINE e == i[2]
           u == login[i]
<1>1. e \in Emails /\ u \in Known \cup {Nobody} /\ Known = KnownIn(user)
  BY SignInAssumption, KnownIsKnownIn DEF IInv, Tables
<1>2. CASE u # Nobody
  <2> DEFINE j == [NoJob EXCEPT !.pc = "load", !.ident = i, !.email = e, !.user = u]
  <2>1. Begin(h, "signIn", j)
    BY <1>2 DEF StartSignIn
  <2>2. u \in KnownIn(user) /\ u \in UserIds
    BY <1>1, <1>2 DEF Known
  <2>3. login[i] = u
    OBVIOUS
  <2> HIDE DEF e, u
  <2>4. j \in Job /\ j.pc = "load" /\ j.ident = i /\ j.user = u
    BY ZenonT(60), <1>1, <2>2, NoJobIsJob DEF Job, Points
  <2> HIDE DEF j
  <2>5. JobOK(j, user) /\ Undisturbed(j, user, login)
    BY <2>2, <2>3, <2>4 DEF JobOK, SigningIn, Undisturbed
  <2> QED BY <2>1, <2>5, BeginKeeps
<1>3. CASE u = Nobody
  <2> DEFINE j == [NoJob EXCEPT !.pc = "match", !.ident = i, !.email = e]
  <2>1. Begin(h, "signIn", j)
    BY <1>3 DEF StartSignIn
  <2>2. login[i] = Nobody
    BY <1>3
  <2> HIDE DEF e
  <2>3. j \in Job /\ j.pc = "match" /\ j.ident = i /\ j.email = e /\ j.user = NoJob.user
    BY ZenonT(60), <1>1, NoJobIsJob DEF Job, Points
  <2> HIDE DEF j
  <2>4. JobOK(j, user) /\ Undisturbed(j, user, login)
    BY <1>1, <2>2, <2>3, NoJobIsJob DEF JobOK, SigningIn, Undisturbed
  <2> QED BY <2>1, <2>4, BeginKeeps
<1> QED BY <1>2, <1>3

\* Whoever is found is let on, turned away, or to be let in again first.
LEMMA FoundKeeps ==
  ASSUME IInv, NEW h \in Handlers, job[h].pc \in {"load", "match"},
         NEW u \in Known, NEW then \in {"ou", "attach"},
         Found(h, u, then), job[h].ident \in Identities,
         job[h].alone => IF then = "attach" THEN login[job[h].ident] = Nobody /\ user[u].parked = <<>>
                                            ELSE login[job[h].ident] = u,
         UNCHANGED <<user, login, merge, scan, budget, history>>
  PROVE  IInv'
<1> DEFINE b == job[h]
           ap == user[u].approval
           ro == user[u].role
           j == [b EXCEPT !.user = u, !.approval = ap, !.role = ro, !.then = then]
<1>1. u \in UserIds /\ user[u] \in User /\ u \in KnownIn(user)
  BY KnownIsKnownIn DEF IInv, Tables, Known
<1>2. ap \in Approvals /\ ro \in Roles
  BY <1>1 DEF User
<1>3. b \in Job
  BY JobTyped
<1>4. Admit(h, j)
  BY DEF Found
<1> HIDE DEF ap, ro
<1>5. j \in Job /\ j.user = u /\ j.then = then /\ j.ident = b.ident /\ j.alone = b.alone /\ j.pc = b.pc
      /\ j.email = b.email /\ j.other = b.other /\ j.todo = b.todo /\ j.drops = b.drops
  BY ZenonT(60), <1>1, <1>2, <1>3 DEF Job
<1>6. JobOK(b, user)
  BY JobTyped
<1> HIDE DEF j
<1>7. JobOK(j, user)
  BY <1>1, <1>5, <1>6 DEF JobOK
<1>8. CASE user[u].active
  <2>1. Set(h, Continue(j))
    BY <1>4, <1>5, <1>8 DEF Admit
  <2>2. Ready(Continue(j), b.alone, user, login)
    BY <1>1, <1>5, <1>7, <1>8, ContinueReady
  <2> QED BY <2>1, <2>2, OnlyJob DEF Idle
<1>9. CASE ~user[u].active /\ user[u].approval = "permanent"
  <2>1. Set(h, Answered(j, "denied"))
    BY <1>4, <1>5, <1>9 DEF Admit
  <2>2. Ready(Answered(j, "denied"), b.alone, user, login)
    BY <1>5, <1>7, <1>9, AnsweredReady
  <2> QED BY <2>1, <2>2, OnlyJob DEF Idle
<1>10. CASE ~user[u].active /\ user[u].approval # "permanent"
  <2> DEFINE k == [j EXCEPT !.pc = "reenter"]
  <2>1. Set(h, k)
    BY <1>4, <1>5, <1>10 DEF Admit
  <2>2. k.pc = "reenter" /\ k.user = u /\ k.ident = b.ident /\ k.then = then
    BY <1>5 DEF Job
  <2>3. Ready(k, b.alone, user, login)
    <3>1. b.alone => Undisturbed(k, user, login)
      <4> HIDE DEF k
      <4> QED BY <1>10, <2>2 DEF Undisturbed
    <3> QED BY <1>1, <1>5, <1>7, <3>1, PointReady
  <2> HIDE DEF k
  <2> QED BY <2>1, <2>3, OnlyJob DEF Idle
<1> QED BY <1>8, <1>9, <1>10

LEMMA LoadKeeps == ASSUME IInv, NEW h \in Handlers, Load(h) PROVE IInv'
<1>1. job[h].pc = "load" /\ ~Idle(h)
  BY DEF Load, At, Idle
<1>2. job[h].ident \in Identities /\ job[h].user \in Known
  BY <1>1, JobTyped, KnownIsKnownIn DEF JobOK, SigningIn
<1>3. job[h].alone => login[job[h].ident] = job[h].user
  BY <1>1, JobTyped DEF Undisturbed
<1>4. Found(h, job[h].user, "ou") /\ UNCHANGED <<user, login, merge, scan, budget, history>>
  BY DEF Load
<1> QED BY <1>1, <1>2, <1>3, <1>4, FoundKeeps

LEMMA MatchKeeps == ASSUME IInv, NEW h \in Handlers, Match(h) PROVE IInv'
<1> DEFINE b == job[h]
<1>1. b.pc = "match" /\ ~Idle(h)
  BY DEF Match, At, Idle
<1>2. b.ident \in Identities /\ b.email \in Emails /\ JobOK(b, user) /\ b \in Job
  BY <1>1, JobTyped DEF JobOK, SigningIn
<1>3. b.alone => login[b.ident] = Nobody
  BY <1>1, JobTyped DEF Undisturbed
<1>4. UNCHANGED <<user, login, merge, scan, budget, history>>
  BY DEF Match
<1>5. ASSUME NEW u \in OwnerOf(b.email), Found(h, u, "attach") PROVE IInv'
  <2>1. u \in Known /\ user[u].parked = <<>>
    BY DEF OwnerOf, Merged
  <2> QED BY <1>1, <1>2, <1>3, <1>4, <1>5, <2>1, FoundKeeps
<1>6. CASE OwnerOf(b.email) = {} /\ Go(h, "create")
  <2> DEFINE k == [b EXCEPT !.pc = "create"]
  <2>1. Set(h, k)
    BY <1>6 DEF Go
  <2>2. /\ k \in Job /\ k.pc = "create" /\ k.user = b.user /\ k.ident = b.ident /\ k.email = b.email
        /\ k.alone = b.alone
    BY <1>2 DEF Job, Points
  <2> HIDE DEF k
  <2>3. JobOK(k, user)
    BY <1>2, <2>2 DEF JobOK, SigningIn
  <2>4. \A u \in KnownIn(user) : user[u].email = b.email => user[u].parked # <<>>
    BY <1>6, KnownIsKnownIn DEF OwnerOf, Merged
  <2>5. b.alone => Undisturbed(k, user, login)
    BY <1>3, <2>2, <2>4 DEF Undisturbed
  <2>6. Ready(k, b.alone, user, login)
    BY <2>2, <2>3, <2>5 DEF Ready
  <2> QED BY <1>1, <1>4, <2>1, <2>6, OnlyJob
<1> QED BY <1>5, <1>6 DEF Match

-----------------------------------------------------------------------------
(* Steps that write users *)

\* The tables after a change of the row of one user, who is there and stays.
LEMMA UserTables ==
  ASSUME IInv, NEW u \in Known, NEW r \in User, user' = [user EXCEPT ![u] = r], r.via = user[u].via,
         NEW o \in {"in", "removed", "denied", "back"}, out' = [out EXCEPT ![u] = o],
         races' = 0 => races = 0 /\ RemovedOK(u)' /\ MergedOK(u)',
         UNCHANGED <<login, merge, scan, late>>
  PROVE  Tables' /\ IdsInOrder' /\ People' /\ Known' = Known
<1>1. /\ user \in [UserIds -> User] /\ out \in [UserIds -> {"in", "removed", "denied", "back"}]
      /\ u \in UserIds
  BY DEF IInv, Tables, Known
<1>2. user' \in [UserIds -> User] /\ out' \in [UserIds -> {"in", "removed", "denied", "back"}]
  BY <1>1
<1>3. \A v \in UserIds : user'[v].via = user[v].via
  BY <1>1
<1>4. Known' = Known
  BY <1>3 DEF Known, Exists
<1>5. Tables'
  BY <1>2, <1>4 DEF IInv, Tables, Suggested
<1>6. IdsInOrder'
  <2>1. \A v \in UserIds \ Known : out'[v] = "in"
    BY <1>1 DEF IInv, IdsInOrder
  <2> QED BY <1>4, <2>1 DEF IInv, IdsInOrder
<1>7. People'
  <2> SUFFICES ASSUME races' = 0, NEW v \in UserIds PROVE RemovedOK(v)' /\ MergedOK(v)'
    BY DEF People
  <2>1. CASE v = u
    BY <2>1
  <2>2. CASE v # u
    <3>1. user'[v] = user[v] /\ out'[v] = out[v]
      BY <1>1, <2>2
    <3>2. RemovedOK(v) /\ MergedOK(v)
      BY DEF IInv, People
    <3> QED BY <3>1, <3>2 DEF RemovedOK, MergedOK, Usable, Merged
  <2> QED BY <2>1, <2>2
<1> QED BY <1>4, <1>5, <1>6, <1>7

\* A step of a request that changes the row of one user.
LEMMA WriteUser ==
  ASSUME IInv, NEW h \in Handlers, ~Idle(h), NEW j, Set(h, j), Ready(j, job[h].alone, user', login'),
         NEW u \in Known, NEW r \in User, user' = [user EXCEPT ![u] = r], r.via = user[u].via,
         NEW o \in {"in", "removed", "denied", "back"}, out' = [out EXCEPT ![u] = o],
         races = 0 => RemovedOK(u)' /\ MergedOK(u)',
         UNCHANGED <<login, merge, scan, budget, late>>
  PROVE  IInv'
<1>1. Tables' /\ IdsInOrder' /\ People' /\ Known' = Known
  BY UserTables DEF budget
<1>2. JobsOK'
  BY <1>1, HandlerMoves DEF budget
<1>3. Counters'
  BY DEF IInv, Counters, budget
<1> QED BY <1>1, <1>2, <1>3 DEF IInv

\* When requests do not overlap, whoever is under way is alone.
LEMMA SerialAlone == ASSUME IInv, NEW h \in Handlers, ~Idle(h), races = 0 PROVE job[h].alone
BY DEF IInv, JobsOK

\* A user who is found by a login, or by an address that is not parked, was not merged
\* away, or was given a login afterwards.
LEMMA ReenterKeeps == ASSUME IInv, NEW h \in Handlers, Reenter(h) PROVE IInv'
<1> PICK u : u = job[h].user
  OBVIOUS
<1> DEFINE b == job[h]
           r == user[u]
           row == [r EXCEPT !.active = TRUE, !.approval = "pending"]
           o == out[u]
           j == [b EXCEPT !.approval = "pending"]
           k == Continue(j)
<1>1. b.pc = "reenter" /\ ~Idle(h)
  BY DEF Reenter, At, Idle
<1>2. b.ident \in Identities /\ JobOK(b, user) /\ b \in Job /\ u \in Known /\ u \in UserIds
  BY <1>1, JobTyped, KnownIsKnownIn DEF JobOK, SigningIn, Known
<1>3. b.alone => Undisturbed(b, user, login)
  BY <1>1, JobTyped
<1>4. /\ user' = [user EXCEPT ![u] = row] /\ Set(h, k)
      /\ UNCHANGED <<login, merge, scan, budget, history>>
  BY DEF Reenter
<1>5. r \in User /\ o \in {"in", "removed", "denied", "back"} /\ out \in [UserIds -> {"in", "removed", "denied", "back"}]
      /\ user \in [UserIds -> User]
  BY <1>2 DEF IInv, Tables
<1>6. races = 0 => o \notin {"denied", "back"} /\ (Merged(u) => late[u])
  <2> SUFFICES ASSUME races = 0 PROVE o \notin {"denied", "back"} /\ (Merged(u) => late[u])
    OBVIOUS
  <2>1. Undisturbed(b, user, login)
    BY <1>1, <1>3, SerialAlone
  <2>2. RemovedOK(u) /\ MergedOK(u)
    BY <1>2 DEF IInv, People
  <2> QED BY <1>1, <1>2, <2>1, <2>2 DEF Undisturbed, RemovedOK, MergedOK, Merged
<1>7. b.alone => IF b.then = "attach" THEN login[b.ident] = Nobody ELSE login[b.ident] = u
  BY <1>1, <1>3 DEF Undisturbed
<1> HIDE DEF r, o
<1>8. row \in User /\ row.via = r.via /\ row.active /\ row.approval = "pending" /\ row.parked = r.parked
  BY <1>5 DEF User, Approvals
<1>9. j \in Job /\ j.pc = b.pc /\ j.user = b.user /\ j.ident = b.ident /\ j.alone = b.alone /\ j.then = b.then
      /\ j.email = b.email /\ j.other = b.other /\ j.todo = b.todo /\ j.drops = b.drops
  BY SMTT(30), <1>2 DEF Job, Approvals
<1> HIDE DEF row, j
<1>10. user'[u] = row /\ KnownIn(user') = KnownIn(user) /\ u \in KnownIn(user')
  <2>1. user'[u] = row /\ \A v \in UserIds : user'[v].via = user[v].via
    BY <1>2, <1>4, <1>5, <1>8 DEF r
  <2> QED BY <1>2, <2>1, KnownIsKnownIn DEF KnownIn
<1>11. JobOK(j, user')
  BY <1>1, <1>2, <1>9, <1>10 DEF JobOK
<1>12. Ready(k, b.alone, user', login')
  <2>1. login' = login
    BY <1>4
  <2> QED BY <1>2, <1>7, <1>8, <1>9, <1>10, <1>11, <2>1, ContinueReady
<1>13. out' = [out EXCEPT ![u] = o] /\ out'[u] = o
  BY <1>2, <1>4, <1>5 DEF history, o
<1>14. races = 0 => RemovedOK(u)' /\ MergedOK(u)'
  BY <1>4, <1>5, <1>6, <1>8, <1>10, <1>13 DEF RemovedOK, MergedOK, Merged, Usable, history, o, r
<1> HIDE DEF k
<1> QED BY ZenonT(60), <1>1, <1>2, <1>4, <1>5, <1>8, <1>12, <1>13, <1>14, WriteUser DEF history, r

\* The tables after an insertion, that may come with a login of the new user.
LEMMA InsertTables ==
  ASSUME IInv, NEW e \in Emails, NEW approval \in Approvals, NEW role \in Roles,
         NEW via \in {"social", "passphrase", "import", "sync"}, Insert(e, approval, role, via),
         login' \in [Identities -> Known \cup {Nobody, NextId}],
         \A i \in Identities : login'[i] \in {login[i], NextId},
         scan' \in [UserIds -> [state: {"none", "queued", "running"}, todo: SUBSET UserIds]],
         \A u \in UserIds : scan'[u].todo = scan[u].todo /\ (u # NextId => scan'[u] = scan[u]),
         UNCHANGED <<merge, out, late>>, races' = 0 => races = 0
  PROVE  Tables' /\ IdsInOrder' /\ People' /\ Known \subseteq Known'
<1> PICK id : id = NextId
  OBVIOUS
<1>1. /\ user' \in [UserIds -> User]
      /\ id \in UserIds \ Known /\ Known' = Known \cup {id}
      /\ \E n \in Nat : Known' = 1..n
      /\ user'[id].parked = <<>> /\ user'[id].active
      /\ \A u \in UserIds : u # id => user'[u] = user[u]
  BY InsertIds
<1>2. login' \in [Identities -> Known' \cup {Nobody}]
  BY <1>1 DEF IInv, Tables
<1>3. Tables'
  <2>1. Suggested'
    BY <1>1 DEF IInv, Tables, Suggested
  <2> QED BY <1>1, <1>2, <2>1 DEF IInv, Tables
<1>4. IdsInOrder'
  BY <1>1 DEF IInv, IdsInOrder
<1>5. People'
  <2> SUFFICES ASSUME races' = 0, NEW v \in UserIds PROVE RemovedOK(v)' /\ MergedOK(v)'
    BY DEF People
  <2>1. races = 0
    OBVIOUS
  <2>2. CASE v = id
    <3>1. out'[v] = "in" /\ user'[v].parked = <<>>
      BY <1>1, <2>2 DEF IInv, IdsInOrder
    <3> QED BY <3>1 DEF RemovedOK, MergedOK, Merged
  <2>3. CASE v # id
    <3>1. user'[v] = user[v] /\ RemovedOK(v) /\ MergedOK(v)
      BY <1>1, <2>1, <2>3 DEF IInv, People
    <3>2. \A i \in Identities : login'[i] = v => login[i] = v
      BY <2>3
    <3> QED BY <3>1, <3>2 DEF RemovedOK, MergedOK, Usable, Merged
  <2> QED BY <2>2, <2>3
<1> QED BY <1>1, <1>3, <1>4, <1>5

LEMMA CreateUserKeeps == ASSUME IInv, NEW h \in Handlers, CreateUser(h) PROVE IInv'
<1> DEFINE b == job[h]
           e == b.email
<1>1. b.pc = "create" /\ ~Idle(h)
  BY DEF CreateUser, At, Idle
<1>2. b.ident \in Identities /\ e \in Emails /\ JobOK(b, user) /\ b \in Job
  BY <1>1, JobTyped DEF JobOK, SigningIn
<1>3. b.alone => Undisturbed(b, user, login)
  BY <1>1, JobTyped
<1>4. UNCHANGED <<login, merge, scan, budget, history>>
  BY DEF CreateUser
<1>5. CASE OwnerOf(e) # {} /\ Answer(h, "failed") /\ UNCHANGED user
  <2>1. ~b.alone
    <3> SUFFICES ASSUME b.alone PROVE FALSE
      OBVIOUS
    <3>1. \A u \in KnownIn(user) : user[u].email = e => user[u].parked # <<>>
      BY <1>1, <1>3 DEF Undisturbed
    <3> QED BY <1>5, <3>1, KnownIsKnownIn DEF OwnerOf, Merged
  <2>2. Ready(Answered(b, "failed"), b.alone, user, login)
    BY <1>2, <2>1, AnsweredReady
  <2>3. Set(h, Answered(b, "failed"))
    BY <1>5 DEF Answer
  <2> QED BY <1>1, <1>4, <1>5, <2>2, <2>3, OnlyJob
<1>6. CASE /\ Insert(e, "pending", "student", "social")
           /\ Set(h, [b EXCEPT !.pc = "attach", !.user = NextId, !.approval = "pending",
                               !.role = "student", !.then = "scan"])
  <2> PICK id : id = NextId
    OBVIOUS
  <2> DEFINE j == [b EXCEPT !.pc = "attach", !.user = id, !.approval = "pending",
                            !.role = "student", !.then = "scan"]
  <2>1. Set(h, j)
    BY <1>6
  <2>2. id \in UserIds /\ id \in KnownIn(user') /\ user'[id].active /\ user'[id].parked = <<>>
    BY <1>2, <1>6, InsertIds DEF Approvals, Roles, KnownIn
  <2>3. "pending" \in Approvals /\ "student" \in Roles /\ "attach" \in Points
    BY DEF Approvals, Roles, Points
  <2>4. j \in Job /\ j.pc = "attach" /\ j.user = id /\ j.ident = b.ident /\ j.alone = b.alone
    BY ZenonT(60), <1>2, <2>2, <2>3 DEF Job
  <2> HIDE DEF j
  <2>5. JobOK(j, user')
    BY <1>2, <2>2, <2>4 DEF JobOK, SigningIn
  <2>6. b.alone => Undisturbed(j, user', login')
    BY <1>1, <1>3, <1>4, <2>2, <2>4 DEF Undisturbed
  <2>7. Ready(j, b.alone, user', login')
    BY <2>4, <2>5, <2>6 DEF Ready
  <2>8. /\ login' \in [Identities -> Known \cup {Nobody, NextId}]
        /\ \A i \in Identities : login'[i] \in {login[i], NextId}
        /\ scan' \in [UserIds -> [state: {"none", "queued", "running"}, todo: SUBSET UserIds]]
        /\ scan' = scan
    BY <1>4 DEF IInv, Tables
  <2>9. Tables' /\ IdsInOrder' /\ People' /\ Known \subseteq Known'
    BY <1>2, <1>4, <1>6, <2>3, <2>8, InsertTables DEF history, budget
  <2>10. JobsOK' /\ Counters'
    BY <1>1, <1>4, <2>1, <2>7, <2>9, HandlerMoves DEF budget, IInv, Counters
  <2> QED BY <2>9, <2>10 DEF IInv
<1> QED BY <1>5, <1>6 DEF CreateUser

\* The tables after a user was given a login.
LEMMA LoginTables ==
  ASSUME IInv, NEW i \in Identities, NEW u \in Known, login' = [login EXCEPT ![i] = u],
         late' = [late EXCEPT ![u] = @ \/ Merged(u)],
         scan' \in [UserIds -> [state: {"none", "queued", "running"}, todo: SUBSET UserIds]],
         \A v \in UserIds : scan'[v].todo = scan[v].todo /\ (v # u => scan'[v] = scan[v]),
         UNCHANGED <<user, merge, out>>, races' = 0 => races = 0
  PROVE  Tables' /\ IdsInOrder' /\ People' /\ Known' = Known
<1>1. Known' = Known /\ u \in UserIds
  BY DEF Known, Exists
<1>2. Tables'
  <2>1. /\ login' \in [Identities -> Known \cup {Nobody}]
        /\ late' \in [UserIds -> BOOLEAN]
    BY DEF IInv, Tables, Merged
  <2>2. Suggested'
    BY <1>1 DEF IInv, Tables, Suggested
  <2> QED BY <1>1, <2>1, <2>2 DEF IInv, Tables
<1>3. IdsInOrder'
  BY <1>1 DEF IInv, IdsInOrder
<1>4. People'
  <2> SUFFICES ASSUME races' = 0, NEW v \in UserIds PROVE RemovedOK(v)' /\ MergedOK(v)'
    BY DEF People
  <2>1. RemovedOK(v) /\ MergedOK(v) /\ late \in [UserIds -> BOOLEAN] /\ login \in [Identities -> Known \cup {Nobody}]
    BY DEF IInv, People, Tables
  <2>2. RemovedOK(v)'
    BY <2>1 DEF RemovedOK, Usable
  <2>3. MergedOK(v)'
    <3>1. CASE v = u
      BY <1>1, <2>1, <3>1 DEF MergedOK, Merged
    <3>2. CASE v # u
      BY <1>1, <2>1, <3>2 DEF MergedOK, Merged
    <3> QED BY <3>1, <3>2
  <2> QED BY <2>2, <2>3
<1> QED BY <1>1, <1>2, <1>3, <1>4

\* A step of a request that gives a user a login.
LEMMA WriteLogin ==
  ASSUME IInv, NEW h \in Handlers, ~Idle(h), NEW j, Set(h, j), Ready(j, job[h].alone, user', login'),
         NEW i \in Identities, NEW u \in Known, login' = [login EXCEPT ![i] = u],
         late' = [late EXCEPT ![u] = @ \/ Merged(u)],
         scan' \in [UserIds -> [state: {"none", "queued", "running"}, todo: SUBSET UserIds]],
         \A v \in UserIds : scan'[v].todo = scan[v].todo /\ (v # u => scan'[v] = scan[v]),
         UNCHANGED <<user, merge, budget, out>>
  PROVE  IInv'
<1>1. Tables' /\ IdsInOrder' /\ People' /\ Known' = Known
  BY LoginTables DEF budget
<1>2. JobsOK'
  BY <1>1, HandlerMoves DEF budget
<1>3. Counters'
  BY DEF IInv, Counters, budget
<1> QED BY <1>1, <1>2, <1>3 DEF IInv

LEMMA AttachKeeps == ASSUME IInv, NEW h \in Handlers, Attach(h) PROVE IInv'
<1> DEFINE b == job[h]
<1> PICK i, u : i = b.ident /\ u = b.user
  OBVIOUS
<1>1. b.pc = "attach" /\ ~Idle(h)
  BY DEF Attach, At, Idle
<1>2. i \in Identities /\ u \in Known /\ JobOK(b, user) /\ b \in Job
  BY <1>1, JobTyped, KnownIsKnownIn DEF JobOK, SigningIn
<1>3. b.alone => Undisturbed(b, user, login)
  BY <1>1, JobTyped
<1>4. UNCHANGED <<user, merge, budget, out>>
  BY DEF Attach
<1>5. CASE login[i] = Nobody
  <2>1. /\ login' = [login EXCEPT ![i] = u]
        /\ Set(h, Checked(b))
        /\ scan' = IF b.then = "scan" THEN [scan EXCEPT ![u].state = "queued"] ELSE scan
        /\ late' = [late EXCEPT ![u] = @ \/ Merged(u)]
    BY <1>5 DEF Attach
  <2>2. /\ scan' \in [UserIds -> [state: {"none", "queued", "running"}, todo: SUBSET UserIds]]
        /\ \A v \in UserIds : scan'[v].todo = scan[v].todo /\ (v # u => scan'[v] = scan[v])
    <3>1. scan[u] \in [state: {"none", "queued", "running"}, todo: SUBSET UserIds]
      BY <1>2 DEF IInv, Tables, Known
    <3>2. [scan[u] EXCEPT !.state = "queued"] \in [state: {"none", "queued", "running"}, todo: SUBSET UserIds]
      BY <3>1
    <3> QED BY <2>1, <3>2 DEF IInv, Tables
  <2>3. login'[i] = u
    BY <1>2, <2>1 DEF IInv, Tables
  <2>4. Ready(Checked(b), b.alone, user', login')
    <3>1. user' = user
      BY <1>4
    <3>2. b.alone => login'[b.ident] = b.user /\ user[b.user].active
      BY <1>1, <1>3, <2>3 DEF Undisturbed
    <3> QED BY <1>2, <3>1, <3>2, CheckedReady, KnownIsKnownIn
  <2>5. PICK j : Set(h, j) /\ Ready(j, b.alone, user', login')
    BY <2>1, <2>4
  <2>6. login' = [login EXCEPT ![i] = u] /\ late' = [late EXCEPT ![u] = @ \/ Merged(u)]
    BY <2>1
  <2> QED BY <1>1, <1>2, <1>4, <2>2, <2>5, <2>6, WriteLogin
<1>6. CASE login[i] # Nobody
  <2>1. Set(h, Answered(b, "failed")) /\ UNCHANGED <<login, scan, late>>
    BY <1>6 DEF Attach, Answer
  <2>2. ~b.alone
    BY <1>1, <1>3, <1>6 DEF Undisturbed
  <2>3. Ready(Answered(b, "failed"), b.alone, user, login)
    BY <1>2, <2>2, AnsweredReady
  <2> QED BY <1>1, <1>4, <2>1, <2>3, OnlyJob DEF history
<1> QED BY <1>5, <1>6

LEMMA OULookupFailsKeeps == ASSUME IInv, NEW h \in Handlers, OULookupFails(h) PROVE IInv'
<1>1. job[h].pc = "ou" /\ ~Idle(h)
  BY DEF OULookupFails, At, Idle
<1>2. Set(h, Answered(job[h], "refused")) /\ UNCHANGED <<user, login, merge, scan, budget, history>>
  BY DEF OULookupFails, Answer
<1>3. Ready(Answered(job[h], "refused"), job[h].alone, user, login)
  BY <1>1, JobTyped, AnsweredReady
<1> QED BY <1>1, <1>2, <1>3, OnlyJob

LEMMA RespondKeeps == ASSUME IInv, NEW h \in Handlers, Respond(h) PROVE IInv'
<1>1. ~Idle(h) /\ Set(h, NoJob) /\ UNCHANGED <<user, login, merge, scan, budget, history>>
  BY DEF Respond, At, Idle, End
<1> QED BY <1>1, NoJobOK, OnlyJob

\* A step that changes somebody's role or approval: an approval lets in.
LEMMA WriteRole ==
  ASSUME IInv, NEW h \in Handlers, ~Idle(h), NEW u \in Known, NEW x \in Roles, NEW y \in Approvals,
         user' = [user EXCEPT ![u].role = x, ![u].approval = y],
         out' = [out EXCEPT ![u] = "in"] \/ (UNCHANGED out /\ y = user[u].approval),
         NEW j, Set(h, j),
         user'[u].active = user[u].active /\ KnownIn(user') = KnownIn(user) => Ready(j, job[h].alone, user', login'),
         UNCHANGED <<login, merge, scan, budget, late>>
  PROVE  IInv'
<1> DEFINE r == user[u]
           row == [r EXCEPT !.role = x, !.approval = y]
<1> PICK o : o = out'[u]
  OBVIOUS
<1>1. u \in UserIds /\ r \in User /\ user \in [UserIds -> User] /\ out \in [UserIds -> {"in", "removed", "denied", "back"}]
  BY DEF IInv, Tables, Known
<1>2. user' = [user EXCEPT ![u] = row]
  OBVIOUS
<1> HIDE DEF r
<1>3. row \in User /\ row.via = r.via /\ row.active = r.active /\ row.parked = r.parked /\ row.approval = y
  BY <1>1 DEF User
<1> HIDE DEF row
<1>4. user'[u] = row /\ KnownIn(user') = KnownIn(user)
  BY <1>1, <1>2, <1>3 DEF KnownIn, r
<1>5. o \in {"in", "removed", "denied", "back"} /\ out' = [out EXCEPT ![u] = o] /\ (o = "in" \/ (o = out[u] /\ y = r.approval))
  BY <1>1 DEF r
<1>6. races = 0 => RemovedOK(u)' /\ MergedOK(u)'
  <2> SUFFICES ASSUME races = 0 PROVE RemovedOK(u)' /\ MergedOK(u)'
    OBVIOUS
  <2>1. RemovedOK(u) /\ MergedOK(u)
    BY <1>1 DEF IInv, People
  <2>2. RemovedOK(u)'
    BY <1>3, <1>4, <1>5, <2>1 DEF RemovedOK, Usable, r
  <2>3. MergedOK(u)'
    BY <1>3, <1>4, <2>1 DEF MergedOK, Merged, r
  <2> QED BY <2>2, <2>3
<1>7. Ready(j, job[h].alone, user', login')
  BY <1>3, <1>4 DEF r
<1> QED BY <1>2, <1>3, <1>5, <1>6, <1>7, WriteUser DEF r

\* The facts of a request that looks at the OU, or at ADMIN_EMAILS.
LEMMA StaffTyped ==
  ASSUME IInv, NEW h \in Handlers, job[h].pc \in {"ou", "elevate"}
  PROVE  /\ ~Idle(h) /\ JobOK(job[h], user) /\ job[h] \in Job
         /\ job[h].ident \in Identities /\ job[h].user \in Known /\ job[h].user \in KnownIn(user)
         /\ user[job[h].user] \in User
         /\ job[h].alone => login[job[h].ident] = job[h].user /\ user[job[h].user].active
<1>1. /\ ~Idle(h) /\ JobOK(job[h], user) /\ job[h] \in Job
      /\ job[h].alone => Undisturbed(job[h], user, login)
  BY JobTyped DEF Idle
<1>2. job[h].ident \in Identities /\ job[h].user \in Known /\ job[h].user \in KnownIn(user)
  BY <1>1, KnownIsKnownIn DEF JobOK, SigningIn
<1>3. user[job[h].user] \in User
  BY <1>2 DEF IInv, Tables, Known
<1>4. job[h].alone => login[job[h].ident] = job[h].user /\ user[job[h].user].active
  BY <1>1 DEF Undisturbed
<1> QED BY <1>1, <1>2, <1>3, <1>4

LEMMA PromoteStaffKeeps == ASSUME IInv, NEW h \in Handlers, PromoteStaff(h) PROVE IInv'
<1> PICK u : u = job[h].user
  OBVIOUS
<1> DEFINE b == job[h]
           j == [b EXCEPT !.role = "staff", !.approval = "approved"]
           x == IF b.role # "staff" THEN "staff" ELSE user[u].role
           y == IF b.approval # "approved" THEN "approved" ELSE user[u].approval
<1>1. b.pc = "ou" /\ UNCHANGED <<login, merge, scan, budget, late>> /\ Set(h, Elevated(j))
  BY DEF PromoteStaff, At
<1>2. /\ ~Idle(h) /\ JobOK(b, user) /\ b \in Job
      /\ b.ident \in Identities /\ u \in Known /\ u \in KnownIn(user) /\ user[u] \in User
      /\ b.alone => login[b.ident] = u /\ user[u].active
  BY <1>1, StaffTyped
<1>3. x \in Roles /\ y \in Approvals
  BY <1>2 DEF User, Roles, Approvals
<1>4. /\ j \in Job /\ j.pc = b.pc /\ j.user = b.user /\ j.ident = b.ident /\ j.alone = b.alone
      /\ j.email = b.email
  BY <1>2 DEF Job, Roles, Approvals
<1> HIDE DEF j
<1>5. ASSUME NEW us, us[u].active = user[u].active, KnownIn(us) = KnownIn(user)
      PROVE  Ready(Elevated(j), b.alone, us, login)
  <2>1. JobOK(j, us)
    BY <1>1, <1>2, <1>4, <1>5 DEF JobOK
  <2> QED BY <1>2, <1>4, <1>5, <2>1, ElevatedReady
<1>6. CASE b.role # "staff" \/ b.approval # "approved"
  <2>1. user' = [user EXCEPT ![u].role = x, ![u].approval = y] /\ out' = [out EXCEPT ![u] = "in"]
    BY <1>6 DEF PromoteStaff, NoteOut
  <2>2. user'[u].active = user[u].active /\ KnownIn(user') = KnownIn(user) =>
          Ready(Elevated(j), b.alone, user', login')
    BY <1>1, <1>5
  <2> HIDE DEF x, y
  <2> QED BY <1>1, <1>2, <1>3, <2>1, <2>2, WriteRole
<1>7. CASE ~(b.role # "staff" \/ b.approval # "approved")
  <2>1. UNCHANGED <<user, out>>
    BY <1>7 DEF PromoteStaff
  <2>2. Ready(Elevated(j), b.alone, user, login)
    BY <1>5
  <2> QED BY <1>1, <1>2, <2>1, <2>2, OnlyJob DEF history
<1> QED BY <1>6, <1>7

LEMMA DemoteStaffKeeps == ASSUME IInv, NEW h \in Handlers, DemoteStaff(h) PROVE IInv'
<1> PICK u : u = job[h].user
  OBVIOUS
<1> DEFINE b == job[h]
           j == [b EXCEPT !.role = "student"]
           x == IF b.role = "staff" THEN "student" ELSE user[u].role
           y == user[u].approval
<1>1. b.pc = "ou" /\ UNCHANGED <<login, merge, scan, budget, history>> /\ Set(h, Elevated(j))
  BY DEF DemoteStaff, At
<1>2. /\ ~Idle(h) /\ JobOK(b, user) /\ b \in Job
      /\ b.ident \in Identities /\ u \in Known /\ u \in KnownIn(user) /\ user[u] \in User
      /\ b.alone => login[b.ident] = u /\ user[u].active
  BY <1>1, StaffTyped
<1>3. x \in Roles /\ y \in Approvals
  BY <1>2 DEF User, Roles, Approvals
<1>4. /\ j \in Job /\ j.pc = b.pc /\ j.user = b.user /\ j.ident = b.ident /\ j.alone = b.alone
      /\ j.email = b.email
  BY <1>2 DEF Job, Roles
<1> HIDE DEF j
<1>5. ASSUME NEW us, us[u].active = user[u].active, KnownIn(us) = KnownIn(user)
      PROVE  Ready(Elevated(j), b.alone, us, login)
  <2>1. JobOK(j, us)
    BY <1>1, <1>2, <1>4, <1>5 DEF JobOK
  <2> QED BY <1>2, <1>4, <1>5, <2>1, ElevatedReady
<1>6. CASE b.role = "staff"
  <2>1. user' = [user EXCEPT ![u].role = "student"]
    BY <1>6 DEF DemoteStaff
  <2>2. user' = [user EXCEPT ![u].role = "student", ![u].approval = y]
    BY <1>2, <2>1 DEF IInv, Tables, User, Known
  <2>3. user'[u].active = user[u].active /\ KnownIn(user') = KnownIn(user) =>
          Ready(Elevated(j), b.alone, user', login')
    BY <1>1, <1>5
  <2>4. "student" \in Roles
    BY DEF Roles
  <2> QED BY <1>1, <1>2, <1>3, <2>2, <2>3, <2>4, WriteRole DEF history
<1>7. CASE b.role # "staff"
  <2>1. UNCHANGED user
    BY <1>7 DEF DemoteStaff
  <2>2. Ready(Elevated(j), b.alone, user, login)
    BY <1>5
  <2> QED BY <1>1, <1>2, <2>1, <2>2, OnlyJob
<1> QED BY <1>6, <1>7

LEMMA ElevateKeeps == ASSUME IInv, NEW h \in Handlers, Elevate(h) PROVE IInv'
<1> PICK u : u = job[h].user
  OBVIOUS
<1> DEFINE b == job[h]
           x == IF b.role # "admin" THEN "admin" ELSE user[u].role
           y == IF b.approval # "approved" THEN "approved" ELSE user[u].approval
<1>1. b.pc = "elevate" /\ UNCHANGED <<login, merge, scan, budget, late>> /\ Set(h, Answered(b, "signedIn"))
  BY DEF Elevate, At, Answer
<1>2. /\ ~Idle(h) /\ JobOK(b, user) /\ b \in Job
      /\ b.ident \in Identities /\ u \in Known /\ u \in KnownIn(user) /\ user[u] \in User
      /\ b.alone => login[b.ident] = u /\ user[u].active
  BY <1>1, StaffTyped
<1>3. x \in Roles /\ y \in Approvals
  BY <1>2 DEF User, Roles, Approvals
<1>4. ASSUME NEW us, us[u].active = user[u].active, KnownIn(us) = KnownIn(user)
      PROVE  Ready(Answered(b, "signedIn"), b.alone, us, login)
  <2>1. JobOK(b, us)
    BY <1>2, <1>4 DEF JobOK
  <2> QED BY <1>2, <1>4, <2>1, AnsweredReady
<1>5. CASE b.email \in AdminEmails /\ (b.role # "admin" \/ b.approval # "approved")
  <2>1. user' = [user EXCEPT ![u].role = x, ![u].approval = y] /\ out' = [out EXCEPT ![u] = "in"]
    BY <1>5 DEF Elevate, NoteOut
  <2>2. user'[u].active = user[u].active /\ KnownIn(user') = KnownIn(user) =>
          Ready(Answered(b, "signedIn"), b.alone, user', login')
    BY <1>1, <1>4
  <2> HIDE DEF x, y
  <2> QED BY <1>1, <1>2, <1>3, <2>1, <2>2, WriteRole
<1>6. CASE ~(b.email \in AdminEmails /\ (b.role # "admin" \/ b.approval # "approved"))
  <2>1. UNCHANGED <<user, out>>
    BY <1>6 DEF Elevate
  <2>2. Ready(Answered(b, "signedIn"), b.alone, user, login)
    BY <1>4
  <2> QED BY <1>1, <1>2, <2>1, <2>2, OnlyJob DEF history
<1> QED BY <1>5, <1>6

-----------------------------------------------------------------------------
(* Linking, unlinking, signing up with a passphrase *)

LEMMA LinkKeeps == ASSUME IInv, NEW u \in UserIds, NEW i \in Identities, Link(u, i) PROVE IInv'
<1>1. /\ job' = Disturb(job) /\ Count /\ u \in Known
      /\ login' = [login EXCEPT ![i] = u] /\ late' = [late EXCEPT ![u] = @ \/ Merged(u)]
      /\ UNCHANGED <<user, merge, scan, out>>
  BY DEF Link, AtOnce, Known
<1>2. scan' \in [UserIds -> [state: {"none", "queued", "running"}, todo: SUBSET UserIds]] /\ scan' = scan
  BY <1>1 DEF IInv, Tables
<1>3. races' = 0 => races = 0
  BY <1>1 DEF Count, IInv, Counters
<1>4. Tables' /\ IdsInOrder' /\ People' /\ Known' = Known
  BY <1>1, <1>2, <1>3, LoginTables
<1> QED BY <1>1, <1>4, Disturbs DEF IInv

LEMMA StartUnlinkKeeps == ASSUME IInv, NEW h \in Handlers, NEW i \in Identities, StartUnlink(h, i) PROVE IInv'
<1> DEFINE j == [NoJob EXCEPT !.pc = "unlink", !.ident = i]
<1>1. Begin(h, "unlink", j)
  BY DEF StartUnlink
<1>2. j \in Job /\ j.pc = "unlink" /\ j.ident = i /\ j.user = NoJob.user
  BY ZenonT(60), NoJobIsJob DEF Job, Points
<1> HIDE DEF j
<1>3. JobOK(j, user) /\ Undisturbed(j, user, login)
  BY <1>2, NoJobIsJob DEF JobOK, SigningIn, Undisturbed
<1> QED BY <1>1, <1>3, BeginKeeps

LEMMA UnlinkKeeps == ASSUME IInv, NEW h \in Handlers, Unlink(h) PROVE IInv'
<1> PICK i : i = job[h].ident
  OBVIOUS
<1>1. /\ ~Idle(h)
      /\ login' = [login EXCEPT ![i] = Nobody]
      /\ job' = [k \in Handlers |-> IF k = h \/ (At(k, "unlink") /\ job[k].ident = i)
                                      THEN NoJob ELSE job[k]]
      /\ UNCHANGED <<user, merge, scan, budget, history>>
  BY DEF Unlink, At, Idle
<1>2. Known' = Known
  BY <1>1 DEF Known, Exists
<1>3. JobsOK'
  <2>1. /\ job' = [g \in Handlers |-> job'[g]] /\ job'[h] = NoJob
        /\ \A g \in Handlers : g # h => job'[g] \in {job[g], NoJob}
    BY <1>1
  <2> QED BY <1>1, <1>2, <2>1, NoJobOK, HandlersMove DEF budget
<1>4. Tables'
  BY <1>1, <1>2 DEF IInv, Tables, Suggested, history
<1>5. IdsInOrder'
  BY <1>1, <1>2 DEF IInv, IdsInOrder, history
<1>6. People'
  <2> SUFFICES ASSUME races' = 0, NEW v \in UserIds PROVE RemovedOK(v)' /\ MergedOK(v)'
    BY DEF People
  <2>1. RemovedOK(v) /\ MergedOK(v) /\ login \in [Identities -> Known \cup {Nobody}] /\ v # Nobody
    BY <1>1, NobodyIsNoUser DEF IInv, People, Tables, budget
  <2> QED BY <1>1, <2>1 DEF RemovedOK, Usable, MergedOK, Merged, history
<1>7. Counters'
  BY <1>1 DEF IInv, Counters, budget
<1> QED BY <1>3, <1>4, <1>5, <1>6, <1>7 DEF IInv

LEMMA StartSignUpKeeps == ASSUME IInv, NEW h \in Handlers, NEW e \in Emails, StartSignUp(h, e) PROVE IInv'
<1>0. PICK i : i = <<"username", e>>
  OBVIOUS
<1> DEFINE j == [NoJob EXCEPT !.pc = "signUp", !.ident = i, !.email = e]
<1>1. Begin(h, "signUp", j) /\ i \in Identities
  BY <1>0 DEF StartSignUp
<1>2. j \in Job /\ j.pc = "signUp" /\ j.ident = i /\ j.email = e /\ j.user = NoJob.user
  BY ZenonT(60), <1>1, NoJobIsJob DEF Job, Points
<1> HIDE DEF j
<1>3. JobOK(j, user) /\ Undisturbed(j, user, login)
  BY <1>1, <1>2, NoJobIsJob DEF JobOK, SigningIn, Undisturbed
<1> QED BY <1>1, <1>3, BeginKeeps

LEMMA SignUpKeeps == ASSUME IInv, NEW h \in Handlers, SignUp(h) PROVE IInv'
<1> PICK i, e : i = job[h].ident /\ e = job[h].email
  OBVIOUS
<1>1. job[h].pc = "signUp" /\ ~Idle(h) /\ Set(h, NoJob) /\ UNCHANGED <<merge, scan, budget, history>>
  BY DEF SignUp, At, Idle, End
<1>2. i \in Identities /\ e \in Emails
  BY <1>1, JobTyped DEF JobOK, SigningIn
<1>3. CASE UNCHANGED <<user, login>>
  <2>1. Ready(NoJob, job[h].alone, user, login)
    BY NoJobOK
  <2> QED BY <1>1, <1>3, <2>1, OnlyJob
<1>4. CASE /\ Insert(e, "approved", "student", "passphrase")
           /\ login' = [login EXCEPT ![i] = NextId]
  <2> PICK id : id = NextId
    OBVIOUS
  <2>1. "approved" \in Approvals /\ "student" \in Roles
    BY DEF Approvals, Roles
  <2>2. /\ login' \in [Identities -> Known \cup {Nobody, id}]
        /\ \A k \in Identities : login'[k] \in {login[k], id}
    BY <1>2, <1>4 DEF IInv, Tables
  <2>3. scan' \in [UserIds -> [state: {"none", "queued", "running"}, todo: SUBSET UserIds]] /\ scan' = scan
    BY <1>1 DEF IInv, Tables
  <2>4. Tables' /\ IdsInOrder' /\ People' /\ Known \subseteq Known'
    BY <1>1, <1>2, <1>4, <2>1, <2>2, <2>3, InsertTables DEF history, budget
  <2>5. Ready(NoJob, job[h].alone, user', login')
    BY NoJobOK
  <2>6. JobsOK' /\ Counters'
    BY <1>1, <2>4, <2>5, HandlerMoves DEF budget, IInv, Counters
  <2> QED BY <2>4, <2>6 DEF IInv
<1> QED BY <1>3, <1>4 DEF SignUp

-----------------------------------------------------------------------------
(* Imports *)

LEMMA ImportKeeps == ASSUME IInv, NEW e \in Emails, Import(e) PROVE IInv'
<1> PICK id : id = NextId
  OBVIOUS
<1>1. /\ job' = Disturb(job) /\ Count /\ Insert(e, "approved", "student", "import")
      /\ scan' = [scan EXCEPT ![id].state = "queued"]
      /\ UNCHANGED <<login, merge, out, late>>
  BY DEF Import, AtOnce
<1>2. "approved" \in Approvals /\ "student" \in Roles
  BY DEF Approvals, Roles
<1>3. races' = 0 => races = 0
  BY <1>1 DEF Count, IInv, Counters
<1>4. /\ login' \in [Identities -> Known \cup {Nobody, id}]
      /\ \A k \in Identities : login'[k] \in {login[k], id}
  BY <1>1 DEF IInv, Tables
<1>5. /\ scan' \in [UserIds -> [state: {"none", "queued", "running"}, todo: SUBSET UserIds]]
      /\ \A u \in UserIds : scan'[u].todo = scan[u].todo /\ (u # id => scan'[u] = scan[u])
  <2>1. scan \in [UserIds -> [state: {"none", "queued", "running"}, todo: SUBSET UserIds]] /\ id \in UserIds
    BY <1>1 DEF IInv, Tables, Insert
  <2>2. [scan[id] EXCEPT !.state = "queued"] \in [state: {"none", "queued", "running"}, todo: SUBSET UserIds]
    BY <2>1
  <2> QED BY <1>1, <2>1, <2>2
<1>6. Tables' /\ IdsInOrder' /\ People' /\ Known \subseteq Known'
  BY <1>1, <1>2, <1>3, <1>4, <1>5, InsertTables
<1> QED BY <1>1, <1>6, Disturbs DEF IInv

LEMMA StartSyncKeeps ==
  ASSUME IInv, NEW h \in Handlers, NEW role \in {"staff", "student"}, NEW listed \in SUBSET Emails,
         StartSync(h, role, listed)
  PROVE  IInv'
<1> DEFINE j == [NoJob EXCEPT !.role = role, !.listed = listed, !.todo = listed]
           k == SyncNext(j)
<1>1. Begin(h, "sync", k)
  BY DEF StartSync
<1>2. j \in Job /\ j.pc = "idle" /\ j.user = NoJob.user /\ j.alone
  BY ZenonT(60), NoJobIsJob DEF Job, Roles, NoJob
<1> HIDE DEF j
<1>3. j.user \in KnownIn(user) \cup {Nobody}
  BY <1>2, NoJobIsJob
<1>4. Ready(k, TRUE, user, login)
  BY <1>2, <1>3, SyncNextReady
<1>5. k.pc # "idle"
  BY <1>2 DEF SyncNext, Job
<1> HIDE DEF k
<1> QED BY <1>1, <1>4, <1>5, BeginKeeps DEF Ready

\* The facts of a sync at the next address.
LEMMA SyncTyped ==
  ASSUME IInv, NEW h \in Handlers, job[h].pc \in {"find", "insert", "patch"}
  PROVE  /\ ~Idle(h) /\ JobOK(job[h], user) /\ job[h] \in Job
         /\ Some(job[h].todo) \in job[h].todo /\ Some(job[h].todo) \in Emails
<1>1. ~Idle(h) /\ JobOK(job[h], user) /\ job[h] \in Job
  BY JobTyped DEF Idle
<1>2. Some(job[h].todo) \in job[h].todo
  BY <1>1 DEF JobOK, Some
<1> QED BY <1>1, <1>2 DEF Job

LEMMA SyncFindKeeps == ASSUME IInv, NEW h \in Handlers, SyncFind(h) PROVE IInv'
<1> DEFINE b == job[h]
<1> PICK e : e = Some(b.todo)
  OBVIOUS
<1>1. b.pc = "find" /\ UNCHANGED <<user, login, merge, scan, budget, history>>
  BY DEF SyncFind, At
<1>2. ~Idle(h) /\ JobOK(b, user) /\ b \in Job
  BY <1>1, SyncTyped
<1>3. CASE Set(h, [b EXCEPT !.pc = "insert"])
  <2> DEFINE k == [b EXCEPT !.pc = "insert"]
  <2>1. k \in Job /\ k.pc = "insert" /\ k.user = b.user /\ k.todo = b.todo /\ k.alone = b.alone
    BY SMTT(30), <1>2 DEF Job, Points
  <2> HIDE DEF k
  <2>2. JobOK(k, user) /\ Undisturbed(k, user, login)
    BY <1>1, <1>2, <2>1 DEF JobOK, SigningIn, Undisturbed
  <2>3. Ready(k, b.alone, user, login)
    BY <2>1, <2>2 DEF Ready
  <2>4. Set(h, k)
    BY <1>3 DEF k
  <2> QED BY <1>1, <1>2, <2>3, <2>4, OnlyJob
<1>4. ASSUME NEW u \in OwnerOf(e), NEW r, r = ~user[u].active, NEW t, t = SyncRole(u, b.role, e),
             Set(h, [b EXCEPT !.pc = "patch", !.user = u, !.reactivate = r, !.then = t])
      PROVE  IInv'
  <2> DEFINE k == [b EXCEPT !.pc = "patch", !.user = u, !.reactivate = r, !.then = t]
  <2>1. u \in Known /\ user[u].parked = <<>> /\ u \in UserIds /\ u \in KnownIn(user)
    BY KnownIsKnownIn DEF OwnerOf, Merged, Known
  <2>2. r \in BOOLEAN
    BY <1>4
  <2>3. t \in {"none", "student", "staff"}
    BY <1>4 DEF SyncRole, RoleFor
  <2>4. "patch" \in Points
    BY DEF Points
  <2>5. k \in Job
    BY <1>2, <2>1, <2>2, <2>3, <2>4 DEF Job
  <2>6. k.pc = "patch" /\ k.user = u /\ k.todo = b.todo /\ k.then = t
    BY <1>2 DEF Job
  <2>7. k.alone = b.alone
    BY <1>2 DEF Job
  <2>8. Set(h, k)
    BY <1>4
  <2> HIDE DEF k
  <2>9. JobOK(k, user) /\ Undisturbed(k, user, login)
    BY <1>1, <1>2, <2>1, <2>3, <2>5, <2>6 DEF JobOK, SigningIn, Undisturbed
  <2>10. Ready(k, b.alone, user, login)
    BY <2>7, <2>9 DEF Ready
  <2> QED BY <1>1, <1>2, <2>8, <2>10, OnlyJob
<1> QED BY <1>3, <1>4 DEF SyncFind

LEMMA SyncInsertKeeps == ASSUME IInv, NEW h \in Handlers, SyncInsert(h) PROVE IInv'
<1> DEFINE b == job[h]
<1>0. PICK e : e = Some(b.todo)
  OBVIOUS
<1> DEFINE role == IF b.role = "staff" THEN "staff" ELSE RoleFor(e)
           t == b.todo \ {e}
           j == [b EXCEPT !.todo = t]
<1>1. b.pc = "insert" /\ UNCHANGED <<login, merge, scan, budget, history>>
  BY DEF SyncInsert, At
<1>2. ~Idle(h) /\ JobOK(b, user) /\ b \in Job /\ e \in Emails
  BY <1>0, <1>1, SyncTyped
<1>3. CASE End(h) /\ UNCHANGED user
  BY <1>1, <1>2, <1>3, NoJobOK, OnlyJob DEF End
<1>4. CASE Insert(e, "approved", role, "sync") /\ Set(h, SyncNext(j))
  <2>1. "approved" \in Approvals /\ role \in Roles
    BY DEF Approvals, Roles, RoleFor
  <2>2. t \subseteq Emails
    BY <1>2 DEF Job
  <2> HIDE DEF role, t
  <2>3. /\ login' \in [Identities -> Known \cup {Nobody, NextId}]
        /\ \A i \in Identities : login'[i] \in {login[i], NextId}
        /\ scan' \in [UserIds -> [state: {"none", "queued", "running"}, todo: SUBSET UserIds]]
        /\ scan' = scan
    BY <1>1 DEF IInv, Tables
  <2>4. Tables' /\ IdsInOrder' /\ People' /\ Known \subseteq Known'
    BY <1>1, <1>2, <1>4, <2>1, <2>3, InsertTables DEF history, budget
  <2>5. j \in Job /\ j.user = b.user
    BY SMTT(30), <1>2, <2>2 DEF Job
  <2>6. j.alone = b.alone
    BY <1>2 DEF Job
  <2>7. j.user \in KnownIn(user') \cup {Nobody}
    BY <1>2, <2>4, <2>5 DEF JobOK, Known, KnownIn, Exists
  <2> HIDE DEF j
  <2>8. Ready(SyncNext(j), b.alone, user', login')
    BY <2>5, <2>6, <2>7, SyncNextReady
  <2>9. JobsOK' /\ Counters'
    BY <1>1, <1>2, <1>4, <2>4, <2>8, HandlerMoves DEF budget, IInv, Counters
  <2> QED BY <2>4, <2>9 DEF IInv
<1>5. \/ Insert(e, "approved", role, "sync") /\ Set(h, SyncNext(j))
      \/ End(h) /\ UNCHANGED user
  BY <1>0 DEF SyncInsert
<1> QED BY <1>3, <1>4, <1>5

LEMMA SyncPatchKeeps == ASSUME IInv, NEW h \in Handlers, SyncPatch(h) PROVE IInv'
<1> DEFINE b == job[h]
<1>0. PICK u, e : u = b.user /\ e = Some(b.todo)
  OBVIOUS
<1> DEFINE r == user[u]
           active == r.active \/ b.reactivate
           role == IF b.then = "none" THEN r.role ELSE b.then
           row == [r EXCEPT !.active = active, !.role = role]
           o == IF b.reactivate THEN Listed(u) ELSE out[u]
           t == b.todo \ {e}
           j == [b EXCEPT !.todo = t, !.user = Nobody, !.reactivate = FALSE, !.then = "none"]
<1>1. b.pc = "patch" /\ UNCHANGED <<login, merge, scan, budget, late>> /\ Set(h, SyncNext(j))
  BY <1>0 DEF SyncPatch, At
<1>2. /\ ~Idle(h) /\ JobOK(b, user) /\ b \in Job /\ e \in Emails /\ u \in Known /\ u \in UserIds
      /\ b.then \in {"none", "student", "staff"} /\ b.reactivate \in BOOLEAN
  BY <1>0, <1>1, SyncTyped, KnownIsKnownIn DEF JobOK, Job, Known
<1>3. b.alone => r.parked = <<>>
  BY <1>0, <1>1, <1>2, JobTyped DEF Undisturbed
<1>4. /\ r \in User /\ user \in [UserIds -> User] /\ out \in [UserIds -> {"in", "removed", "denied", "back"}]
      /\ late \in [UserIds -> BOOLEAN]
  BY <1>2 DEF IInv, Tables
<1>5. user' = [user EXCEPT ![u].active = r.active \/ b.reactivate,
                           ![u].role = IF b.then = "none" THEN r.role ELSE b.then]
  BY <1>0, <1>2, <1>4 DEF SyncPatch
<1>6. user' = [user EXCEPT ![u] = row]
  BY <1>5
<1>7. out' = [out EXCEPT ![u] = o] /\ o \in {"in", "removed", "denied", "back"}
  BY <1>0, <1>2, <1>4 DEF SyncPatch, NoteOut, Listed
<1>8. active \in BOOLEAN /\ role \in Roles
  BY <1>2, <1>4 DEF User, Roles
<1>9. races = 0 => RemovedOK(u) /\ r.parked = <<>>
  BY <1>2, <1>3, SerialAlone DEF IInv, People
<1> HIDE DEF r
<1>10. ~b.reactivate => (active <=> r.active) /\ o = out[u]
  BY <1>2, <1>4 DEF User
<1>11. b.reactivate => o = "in" \/ (o = "back" /\ out[u] \in {"denied", "back"})
  BY DEF Listed
<1>12. t \subseteq Emails
  BY <1>2 DEF Job
<1> HIDE DEF active, role, o, t
<1>13. row \in User
  BY <1>4, <1>8 DEF User
<1>14. row.via = r.via /\ row.parked = r.parked /\ row.approval = r.approval
  BY <1>4 DEF User
<1>15. row.active = active
  BY <1>4 DEF User
<1>16. j \in Job
  BY <1>2, <1>12 DEF Job
<1>17. j.user = Nobody
  BY <1>2 DEF Job
<1>18. j.alone = b.alone
  BY <1>2 DEF Job
<1> HIDE DEF row, j
<1>19. user'[u] = row /\ out'[u] = o
  BY <1>2, <1>4, <1>6, <1>7
<1>20. races = 0 => RemovedOK(u)' /\ MergedOK(u)'
  <2> SUFFICES ASSUME races = 0 PROVE RemovedOK(u)' /\ MergedOK(u)'
    OBVIOUS
  <2>1. RemovedOK(u)'
    <3>1. CASE b.reactivate
      BY <1>9, <1>11, <1>14, <1>19, <3>1 DEF RemovedOK, r
    <3>2. CASE ~b.reactivate
      BY <1>9, <1>10, <1>14, <1>15, <1>19, <3>2 DEF RemovedOK, Usable, r
    <3> QED BY <3>1, <3>2
  <2>2. MergedOK(u)'
    BY <1>9, <1>14, <1>19 DEF MergedOK, Merged
  <2> QED BY <2>1, <2>2
<1>21. Ready(SyncNext(j), b.alone, user', login')
  BY <1>16, <1>17, <1>18, SyncNextReady
<1> QED BY <1>1, <1>2, <1>6, <1>7, <1>13, <1>14, <1>20, <1>21, WriteUser DEF r

LEMMA FindUnseenKeeps == ASSUME IInv, NEW h \in Handlers, FindUnseen(h) PROVE IInv'
<1> DEFINE b == job[h]
           s == {u \in Known : /\ user[u].active /\ user[u].role = b.role
                               /\ Merged(u) \/ user[u].email \notin b.listed}
           j == [b EXCEPT !.pc = "drop", !.drops = s]
<1>1. b.pc = "unseen" /\ ~Idle(h) /\ UNCHANGED <<user, login, merge, scan, budget, history>>
  BY DEF FindUnseen, At, Idle
<1>2. JobOK(b, user) /\ b \in Job
  BY JobTyped
<1>3. CASE s = {}
  <2>1. Set(h, NoJob)
    BY <1>3 DEF FindUnseen, End
  <2> QED BY <1>1, <2>1, NoJobOK, OnlyJob
<1>4. CASE s # {}
  <2>1. Set(h, j)
    BY <1>4 DEF FindUnseen
  <2>2. s \subseteq KnownIn(user) /\ s \subseteq UserIds
    BY KnownIsKnownIn DEF Known
  <2> HIDE DEF s
  <2>3. "drop" \in Points
    BY DEF Points
  <2>4. j \in Job
    BY <1>2, <2>2, <2>3 DEF Job
  <2>5. j.pc = "drop" /\ j.user = b.user /\ j.drops = s
    BY <1>2 DEF Job
  <2>6. j.alone = b.alone
    BY <1>2 DEF Job
  <2> HIDE DEF j
  <2>7. JobOK(j, user) /\ Undisturbed(j, user, login)
    BY <1>2, <1>4, <2>2, <2>4, <2>5 DEF JobOK, SigningIn, Undisturbed
  <2>8. Ready(j, b.alone, user, login)
    BY <2>6, <2>7 DEF Ready
  <2> QED BY <1>1, <2>1, <2>8, OnlyJob
<1> QED BY <1>3, <1>4

\* Who is turned out is out, and nobody else's.
LEMMA TurnedOut ==
  ASSUME IInv, races = 0, NEW u \in Known, NEW r \in User, user' = [user EXCEPT ![u] = r],
         ~r.active, r.parked = user[u].parked,
         NEW o \in {"in", "removed", "denied", "back"}, out' = [out EXCEPT ![u] = o],
         o \in {"denied", "back"} => r.approval = "permanent", UNCHANGED <<login, late>>
  PROVE  RemovedOK(u)' /\ MergedOK(u)'
<1>1. /\ u \in UserIds /\ user \in [UserIds -> User] /\ out \in [UserIds -> {"in", "removed", "denied", "back"}]
      /\ MergedOK(u)
  BY DEF IInv, Tables, Known, People
<1>2. user'[u] = r /\ out'[u] = o
  BY <1>1
<1> QED BY <1>1, <1>2 DEF RemovedOK, MergedOK, Merged, Usable

\* What is noted of a user who is deactivated.
LEMMA KeptOut ==
  ASSUME IInv, NEW u \in Known
  PROVE  /\ KeepOut(u) \in {"in", "removed", "denied", "back"}
         /\ races = 0 /\ KeepOut(u) \in {"denied", "back"} => user[u].approval = "permanent"
BY DEF KeepOut, IInv, People, RemovedOK, Known

LEMMA DropKeeps == ASSUME IInv, NEW h \in Handlers, Drop(h) PROVE IInv'
<1> DEFINE b == job[h]
<1>0. PICK u, o : u = Some(b.drops) /\ o = KeepOut(u)
  OBVIOUS
<1> DEFINE r == user[u]
           row == [r EXCEPT !.active = FALSE]
           s == b.drops \ {u}
           j == IF b.drops = {u} THEN NoJob ELSE [b EXCEPT !.drops = s]
<1>1. /\ b.pc = "drop" /\ ~Idle(h) /\ UNCHANGED <<login, merge, scan, budget, late>>
      /\ user' = [user EXCEPT ![u] = row] /\ out' = [out EXCEPT ![u] = o]
  BY <1>0 DEF Drop, At, Idle, NoteOut
<1>2. JobOK(b, user) /\ b \in Job /\ b.drops # {} /\ b.drops \subseteq KnownIn(user)
  BY <1>1, JobTyped DEF JobOK
<1>3. u \in b.drops /\ u \in Known /\ u \in UserIds
  BY <1>0, <1>2, KnownIsKnownIn DEF Some, Known
<1>4. Set(h, j)
  BY <1>0 DEF Drop, End
<1>5. r \in User /\ user \in [UserIds -> User]
  BY <1>3 DEF IInv, Tables
<1> HIDE DEF r
<1>6. row \in User /\ row.via = r.via /\ row.parked = r.parked /\ row.approval = r.approval /\ ~row.active
  BY <1>5 DEF User
<1> HIDE DEF row
<1>7. /\ o \in {"in", "removed", "denied", "back"}
      /\ races = 0 /\ o \in {"denied", "back"} => r.approval = "permanent"
  BY <1>0, <1>3, KeptOut DEF r
<1>8. races = 0 => RemovedOK(u)' /\ MergedOK(u)'
  BY <1>1, <1>3, <1>6, <1>7, TurnedOut DEF r
<1>9. KnownIn(user') = KnownIn(user)
  BY <1>1, <1>3, <1>5, <1>6 DEF KnownIn, r
<1>10. Ready(j, b.alone, user', login')
  <2>1. CASE b.drops = {u}
    BY <2>1, NoJobOK
  <2>2. CASE b.drops # {u}
    <3> DEFINE k == [b EXCEPT !.drops = s]
    <3>1. s # {} /\ s \subseteq KnownIn(user) /\ s \subseteq UserIds
      BY <1>2, <1>3, <2>2 DEF KnownIn
    <3> HIDE DEF s
    <3>2. k \in Job
      BY <1>2, <3>1 DEF Job
    <3>3. k.pc = "drop" /\ k.user = b.user /\ k.drops = s
      BY <1>1, <1>2 DEF Job
    <3>4. k.alone = b.alone
      BY <1>2 DEF Job
    <3>5. j = k
      BY <2>2 DEF s
    <3> HIDE DEF k, j
    <3>6. JobOK(k, user') /\ Undisturbed(k, user', login')
      BY <1>2, <1>9, <3>1, <3>2, <3>3 DEF JobOK, SigningIn, Undisturbed
    <3> QED BY <3>3, <3>4, <3>5, <3>6 DEF Ready
  <2> QED BY <2>1, <2>2
<1> HIDE DEF j
<1> QED BY <1>1, <1>3, <1>4, <1>6, <1>7, <1>8, <1>10, WriteUser DEF r

-----------------------------------------------------------------------------
(* Decisions of administrators *)

\* A request of one transaction that changes the row of one user.
LEMMA ChangeUser ==
  ASSUME IInv, job' = Disturb(job), Count, NEW u \in Known, NEW r \in User,
         user' = [user EXCEPT ![u] = r], r.via = user[u].via,
         NEW o \in {"in", "removed", "denied", "back"}, out' = [out EXCEPT ![u] = o],
         races = 0 => RemovedOK(u)' /\ MergedOK(u)',
         UNCHANGED <<login, merge, scan, late>>
  PROVE  IInv'
<1>1. races' = 0 => races = 0
  BY DEF Count, IInv, Counters
<1>2. Tables' /\ IdsInOrder' /\ People' /\ Known' = Known
  BY <1>1, UserTables
<1> QED BY <1>2, Disturbs DEF IInv

LEMMA ApproveKeeps == ASSUME IInv, NEW u \in UserIds, Approve(u) PROVE IInv'
<1> DEFINE r == user[u]
           row == [r EXCEPT !.approval = "approved"]
<1>1. /\ job' = Disturb(job) /\ Count /\ u \in Known
      /\ user' = [user EXCEPT ![u] = row] /\ out' = [out EXCEPT ![u] = "in"]
      /\ UNCHANGED <<login, merge, scan, late>>
  BY DEF Approve, AtOnce, Known, NoteOut
<1>2. r \in User /\ user \in [UserIds -> User] /\ out \in [UserIds -> {"in", "removed", "denied", "back"}]
  BY DEF IInv, Tables
<1> HIDE DEF r
<1>3. row \in User /\ row.via = r.via /\ row.parked = r.parked /\ (row.active <=> r.active)
  BY <1>2 DEF User, Approvals
<1> HIDE DEF row
<1>4. user'[u] = row /\ out'[u] = "in"
  BY <1>1, <1>2
<1>5. races = 0 => RemovedOK(u)' /\ MergedOK(u)'
  <2> SUFFICES ASSUME races = 0 PROVE RemovedOK(u)' /\ MergedOK(u)'
    OBVIOUS
  <2>1. MergedOK(u)
    BY DEF IInv, People
  <2> QED BY <1>1, <1>3, <1>4, <2>1 DEF RemovedOK, MergedOK, Merged, r
<1> QED BY <1>1, <1>3, <1>5, ChangeUser DEF r

LEMMA DenyKeeps == ASSUME IInv, NEW u \in UserIds, NEW permanent \in BOOLEAN, Deny(u, permanent) PROVE IInv'
<1> DEFINE r == user[u]
           ap == IF permanent THEN "permanent" ELSE "rejected"
           o == IF permanent THEN "denied" ELSE "removed"
           row == [r EXCEPT !.active = FALSE, !.approval = ap]
<1>1. /\ job' = Disturb(job) /\ Count /\ u \in Known
      /\ user' = [user EXCEPT ![u] = row] /\ out' = [out EXCEPT ![u] = o]
      /\ UNCHANGED <<login, merge, scan, late>>
  BY DEF Deny, AtOnce, Known, NoteOut
<1>2. r \in User
  BY DEF IInv, Tables
<1>3. ap \in Approvals /\ o \in {"in", "removed", "denied", "back"} /\ (o \in {"denied", "back"} => ap = "permanent")
  BY DEF Approvals
<1> HIDE DEF r, ap, o
<1>4. row \in User /\ row.via = r.via /\ row.parked = r.parked /\ row.approval = ap /\ ~row.active
  BY <1>2, <1>3 DEF User
<1> HIDE DEF row
<1>5. races = 0 => RemovedOK(u)' /\ MergedOK(u)'
  BY <1>1, <1>3, <1>4, TurnedOut DEF r
<1> QED BY <1>1, <1>3, <1>4, <1>5, ChangeUser DEF r

LEMMA DeleteKeeps == ASSUME IInv, NEW u \in UserIds, Delete(u) PROVE IInv'
<1> DEFINE r == user[u]
           row == [r EXCEPT !.active = FALSE]
<1>0. PICK o : o = KeepOut(u)
  OBVIOUS
<1>1. /\ job' = Disturb(job) /\ Count /\ u \in Known
      /\ user' = [user EXCEPT ![u] = row] /\ out' = [out EXCEPT ![u] = o]
      /\ UNCHANGED <<login, merge, scan, late>>
  BY <1>0 DEF Delete, AtOnce, Known, NoteOut
<1>2. r \in User
  BY DEF IInv, Tables
<1>3. o \in {"in", "removed", "denied", "back"} /\ (races = 0 /\ o \in {"denied", "back"} => r.approval = "permanent")
  BY <1>0, <1>1, KeptOut
<1> HIDE DEF r
<1>4. row \in User /\ row.via = r.via /\ row.parked = r.parked /\ row.approval = r.approval /\ ~row.active
  BY <1>2 DEF User
<1> HIDE DEF row
<1>5. races = 0 => RemovedOK(u)' /\ MergedOK(u)'
  BY <1>1, <1>3, <1>4, TurnedOut DEF r
<1> QED BY <1>1, <1>3, <1>4, <1>5, ChangeUser DEF r

-----------------------------------------------------------------------------
(* Scans and merges *)

LEMMA ScanTables ==
  ASSUME IInv, UNCHANGED <<user, login, job, budget, history>>, merge' \in [Pairs -> Statuses],
         scan' \in [UserIds -> [state: {"none", "queued", "running"}, todo: SUBSET UserIds]], Suggested'
  PROVE  IInv'
<1>1. Known' = Known /\ races' = races
  BY DEF Known, Exists, budget
<1>2. Tables' /\ IdsInOrder' /\ Counters'
  BY <1>1 DEF IInv, Tables, IdsInOrder, Counters, history, budget
<1>3. People'
  BY <1>1 DEF IInv, People, RemovedOK, MergedOK, Merged, Usable, history
<1>4. JobsOK'
  BY <1>1 DEF IInv, JobsOK, AloneOK, Idle
<1> QED BY <1>2, <1>3, <1>4 DEF IInv

LEMMA ScanCandidatesKeeps == ASSUME IInv, NEW u \in UserIds, ScanCandidates(u) PROVE IInv'
<1>0. PICK s : s = {v \in Known \ {u} : user[v].active /\ user[v].role # "staff"}
  OBVIOUS
<1> DEFINE r == IF s = {} THEN NoScan ELSE [state |-> "running", todo |-> s]
<1>1. /\ scan' = [scan EXCEPT ![u] = r] /\ scan[u].state = "queued"
      /\ UNCHANGED <<user, login, merge, job, budget, history>>
  BY <1>0 DEF ScanCandidates
<1>2. s \subseteq Known /\ s \subseteq UserIds
  BY <1>0 DEF Known
<1>3. r \in [state: {"none", "queued", "running"}, todo: SUBSET UserIds] /\ r.todo \subseteq Known
  BY <1>2 DEF NoScan
<1> HIDE DEF r
<1>4. /\ scan \in [UserIds -> [state: {"none", "queued", "running"}, todo: SUBSET UserIds]]
      /\ Suggested /\ Known' = Known /\ merge \in [Pairs -> Statuses]
  BY <1>1 DEF IInv, Tables, Known, Exists
<1>5. Suggested'
  BY <1>1, <1>3, <1>4 DEF Suggested
<1> QED BY <1>1, <1>3, <1>4, <1>5, ScanTables

LEMMA ScanDoneTables ==
  ASSUME IInv, NEW u \in UserIds, NEW v, ScanAt(u, v), ScanDone(u, v), UNCHANGED user
  PROVE  /\ scan' \in [UserIds -> [state: {"none", "queued", "running"}, todo: SUBSET UserIds]]
         /\ u \in Known /\ v \in Known
         /\ \A w \in UserIds : /\ scan'[w].todo \subseteq Known'
                               /\ scan'[w].state # "none" \/ scan'[w].todo # {} => w \in Known'
<1>0. PICK a, s : a = scan[u].todo /\ s = a \ {v}
  OBVIOUS
<1> DEFINE r == IF a = {v} THEN NoScan ELSE [state |-> "running", todo |-> s]
<1>1. scan' = [scan EXCEPT ![u] = r]
  BY <1>0 DEF ScanDone
<1>2. /\ scan \in [UserIds -> [state: {"none", "queued", "running"}, todo: SUBSET UserIds]]
      /\ Suggested /\ Known' = Known
  BY DEF IInv, Tables, Known, Exists
<1>3. v \in Known /\ u \in Known /\ s \subseteq Known /\ s \subseteq UserIds
  BY <1>0, <1>2 DEF ScanAt, Suggested, Known
<1>4. r \in [state: {"none", "queued", "running"}, todo: SUBSET UserIds]
  BY <1>3 DEF NoScan
<1>5. r.todo \subseteq Known
  BY <1>3 DEF NoScan
<1> HIDE DEF r
<1> QED BY <1>1, <1>2, <1>3, <1>4, <1>5 DEF Suggested

LEMMA PassKeeps == ASSUME IInv, NEW u \in UserIds, NEW v \in UserIds, Pass(u, v) PROVE IInv'
<1>1. ScanAt(u, v) /\ ScanDone(u, v) /\ UNCHANGED <<user, login, merge, job, budget, history>>
  BY DEF Pass
<1>2. /\ scan' \in [UserIds -> [state: {"none", "queued", "running"}, todo: SUBSET UserIds]]
      /\ \A w \in UserIds : /\ scan'[w].todo \subseteq Known'
                            /\ scan'[w].state # "none" \/ scan'[w].todo # {} => w \in Known'
  BY <1>1, ScanDoneTables
<1>3. merge' \in [Pairs -> Statuses] /\ Known' = Known /\ Suggested
  BY <1>1 DEF IInv, Tables, Known, Exists
<1>4. Suggested'
  BY <1>1, <1>2, <1>3 DEF Suggested
<1> QED BY <1>1, <1>2, <1>3, <1>4, ScanTables

LEMMA PairOf ==
  ASSUME NEW u, NEW v
  PROVE  Pair(u, v) = <<u, v>> \/ Pair(u, v) = <<v, u>>
BY DEF Pair

LEMMA SuggestKeeps == ASSUME IInv, NEW u \in UserIds, NEW v \in UserIds, Suggest(u, v) PROVE IInv'
<1>0. PICK p : p = Pair(u, v)
  OBVIOUS
<1>1. /\ ScanAt(u, v) /\ ScanDone(u, v) /\ UNCHANGED <<user, login, job, budget, history>>
      /\ merge' = [merge EXCEPT ![p] = IF merge[p] = "none" THEN "pending" ELSE merge[p]]
  BY <1>0 DEF Suggest
<1>2. /\ scan' \in [UserIds -> [state: {"none", "queued", "running"}, todo: SUBSET UserIds]]
      /\ u \in Known /\ v \in Known
      /\ \A w \in UserIds : /\ scan'[w].todo \subseteq Known'
                            /\ scan'[w].state # "none" \/ scan'[w].todo # {} => w \in Known'
  BY <1>1, ScanDoneTables
<1>3. merge \in [Pairs -> Statuses] /\ Known' = Known /\ Suggested
  BY <1>1 DEF IInv, Tables, Known, Exists
<1>4. merge' \in [Pairs -> Statuses]
  BY <1>1, <1>3 DEF Statuses
<1>5. p[1] \in Known /\ p[2] \in Known
  BY <1>0, <1>2, PairOf
<1>6. Suggested'
  BY <1>1, <1>2, <1>3, <1>5 DEF Suggested
<1> QED BY <1>1, <1>2, <1>4, <1>6, ScanTables

LEMMA ScanAbortsKeeps == ASSUME IInv, NEW u \in UserIds, ScanAborts(u) PROVE IInv'
<1>1. scan' = [scan EXCEPT ![u] = NoScan] /\ UNCHANGED <<user, login, merge, job, budget, history>>
  BY DEF ScanAborts
<1>2. /\ scan \in [UserIds -> [state: {"none", "queued", "running"}, todo: SUBSET UserIds]]
      /\ merge' \in [Pairs -> Statuses] /\ Known' = Known /\ Suggested
  BY <1>1 DEF IInv, Tables, Known, Exists
<1>3. /\ NoScan \in [state: {"none", "queued", "running"}, todo: SUBSET UserIds]
      /\ NoScan.todo = {} /\ NoScan.state = "none"
  BY DEF NoScan
<1>4. Suggested'
  BY <1>1, <1>2, <1>3 DEF Suggested
<1> QED BY <1>1, <1>2, <1>3, <1>4, ScanTables

\* A suggestion is decided, or made.
LEMMA MergeTables ==
  ASSUME IInv, UNCHANGED <<user, login, scan, out, late>>, merge' \in [Pairs -> Statuses],
         \A p \in Pairs : merge'[p] # "none" => p[1] \in Known /\ p[2] \in Known,
         races' = 0 => races = 0
  PROVE  Tables' /\ IdsInOrder' /\ People' /\ Known' = Known
<1>1. Known' = Known
  BY DEF Known, Exists
<1>2. Suggested'
  BY <1>1 DEF IInv, Tables, Suggested
<1>3. Tables' /\ IdsInOrder'
  BY <1>1, <1>2 DEF IInv, Tables, IdsInOrder
<1>4. People'
  BY DEF IInv, People, RemovedOK, MergedOK, Merged, Usable
<1> QED BY <1>1, <1>3, <1>4

LEMMA DecideKeeps ==
  ASSUME IInv, NEW p \in Pairs, NEW status \in {"rejected", "deferred"}, Decide(p, status) PROVE IInv'
<1>1. /\ job' = Disturb(job) /\ Count /\ merge[p] # "none"
      /\ merge' = [merge EXCEPT ![p] = status] /\ UNCHANGED <<user, login, scan, out, late>>
  BY DEF Decide, AtOnce, Undecided
<1>2. merge \in [Pairs -> Statuses] /\ Suggested
  BY DEF IInv, Tables
<1>3. merge' \in [Pairs -> Statuses]
  BY <1>1, <1>2 DEF Statuses
<1>4. \A q \in Pairs : merge'[q] # "none" => q[1] \in Known /\ q[2] \in Known
  BY <1>1, <1>2 DEF Suggested
<1>5. races' = 0 => races = 0
  BY <1>1 DEF Count, IInv, Counters
<1>6. Tables' /\ IdsInOrder' /\ People' /\ Known' = Known
  BY <1>1, <1>3, <1>4, <1>5, MergeTables
<1> QED BY <1>1, <1>6, Disturbs DEF IInv

LEMMA StartManualMergeKeeps ==
  ASSUME IInv, NEW h \in Handlers, NEW s \in UserIds, NEW n \in UserIds, StartManualMerge(h, s, n) PROVE IInv'
<1> DEFINE j == [NoJob EXCEPT !.pc = "record", !.user = s, !.other = n]
<1>1. Begin(h, "manualMerge", j) /\ s # n /\ s \in Known /\ n \in Known
  BY DEF StartManualMerge, Known
<1>2. j \in Job /\ j.pc = "record" /\ j.user = s /\ j.other = n
  BY ZenonT(60), NoJobIsJob DEF Job, Points
<1> HIDE DEF j
<1>3. JobOK(j, user) /\ Undisturbed(j, user, login)
  BY <1>1, <1>2, KnownIsKnownIn DEF JobOK, SigningIn, Undisturbed
<1> QED BY <1>1, <1>3, BeginKeeps

\* The facts of a manual merge: both users are there.
LEMMA ManualTyped ==
  ASSUME IInv, NEW h \in Handlers, job[h].pc \in {"record", "approve"}
  PROVE  /\ ~Idle(h) /\ JobOK(job[h], user) /\ job[h] \in Job
         /\ job[h].user \in Known /\ job[h].other \in Known /\ job[h].user # job[h].other
BY JobTyped, KnownIsKnownIn DEF Idle, JobOK

LEMMA RecordMergeKeeps == ASSUME IInv, NEW h \in Handlers, RecordMerge(h) PROVE IInv'
<1> DEFINE b == job[h]
<1>0. PICK p : p = Pair(b.user, b.other)
  OBVIOUS
<1>1. b.pc = "record" /\ UNCHANGED <<user, login, scan, budget, history>>
  BY DEF RecordMerge, At
<1>2. /\ ~Idle(h) /\ JobOK(b, user) /\ b \in Job /\ b.user \in Known /\ b.other \in Known
  BY <1>1, ManualTyped
<1>3. CASE End(h) /\ UNCHANGED merge
  BY <1>1, <1>2, <1>3, NoJobOK, OnlyJob DEF End
<1>4. CASE Go(h, "approve") /\ merge' = [merge EXCEPT ![p] = "pending"]
  <2> DEFINE j == [b EXCEPT !.pc = "approve"]
  <2>1. merge \in [Pairs -> Statuses] /\ Suggested
    BY DEF IInv, Tables
  <2>2. merge' \in [Pairs -> Statuses]
    BY <1>4, <2>1 DEF Statuses
  <2>3. p[1] \in Known /\ p[2] \in Known
    BY <1>0, <1>2, PairOf
  <2>4. \A q \in Pairs : merge'[q] # "none" => q[1] \in Known /\ q[2] \in Known
    BY <1>4, <2>1, <2>3 DEF Suggested
  <2>5. Tables' /\ IdsInOrder' /\ People' /\ Known' = Known
    BY <1>1, <2>2, <2>4, MergeTables DEF history, budget
  <2>6. Set(h, j)
    BY <1>4 DEF Go
  <2>7. "approve" \in Points
    BY DEF Points
  <2>8. j \in Job
    BY <1>2, <2>7 DEF Job
  <2>9. j.pc = "approve" /\ j.user = b.user /\ j.other = b.other
    BY <1>2 DEF Job
  <2>10. j.alone = b.alone
    BY <1>2 DEF Job
  <2> HIDE DEF j
  <2>11. JobOK(j, user) /\ Undisturbed(j, user, login)
    BY <1>1, <1>2, <2>8, <2>9 DEF JobOK, SigningIn, Undisturbed
  <2>12. Ready(j, b.alone, user', login')
    BY <1>1, <2>10, <2>11 DEF Ready
  <2>13. JobsOK' /\ Counters'
    BY <1>1, <1>2, <2>5, <2>6, <2>12, HandlerMoves DEF budget, IInv, Counters
  <2> QED BY <2>5, <2>13 DEF IInv
<1>5. (End(h) /\ UNCHANGED merge) \/ (Go(h, "approve") /\ merge' = [merge EXCEPT ![p] = "pending"])
  BY <1>0 DEF RecordMerge
<1> QED BY <1>3, <1>4, <1>5

\* The tables after n was merged into s: n is out, and has no login.
LEMMA MoveTables ==
  ASSUME IInv, NEW p \in Pairs, NEW s \in Known, NEW n \in Known, s # n, Move(p, s, n),
         races' = 0 => races = 0
  PROVE  Tables' /\ IdsInOrder' /\ People' /\ Known' = Known
<1> DEFINE r == user[n]
<1>0. PICK l : l = Parked(s, n)
  OBVIOUS
<1> DEFINE row == [r EXCEPT !.active = FALSE, !.parked = l]
<1>1. /\ merge[p] # "none" /\ user' = [user EXCEPT ![n].active = FALSE, ![n].parked = l]
      /\ login' = [i \in Identities |-> IF login[i] = n THEN s ELSE login[i]]
      /\ merge' = [merge EXCEPT ![p] = "approved"]
      /\ late' = [late EXCEPT ![s] = late[s] \/ Merged(s), ![n] = FALSE]
      /\ UNCHANGED <<scan, out>>
  BY <1>0 DEF Move, Undecided
<1>2. /\ r \in User /\ s \in UserIds /\ n \in UserIds /\ r.parked \in Seq(UserIds)
      /\ user \in [UserIds -> User] /\ login \in [Identities -> Known \cup {Nobody}]
      /\ merge \in [Pairs -> Statuses] /\ late \in [UserIds -> BOOLEAN] /\ Suggested
  BY DEF IInv, Tables, Known, User
<1>3. user' = [user EXCEPT ![n] = row]
  BY <1>1, <1>2
<1>4. l \in Seq(UserIds) /\ l # <<>>
  BY <1>0, <1>2 DEF Parked
<1> HIDE DEF r
<1>5. row \in User
  BY <1>2, <1>4 DEF User
<1>6. row.via = r.via /\ row.parked = l /\ ~row.active
  BY <1>2 DEF User
<1> HIDE DEF row
<1>7. user'[n] = row /\ \A v \in UserIds : v # n => user'[v] = user[v]
  BY <1>2, <1>3
<1>8. Known' = Known
  BY <1>6, <1>7 DEF Known, Exists, r
<1>9. Tables'
  <2>1. user' \in [UserIds -> User]
    BY <1>2, <1>3, <1>5
  <2>2. login' \in [Identities -> Known \cup {Nobody}]
    BY <1>1, <1>2
  <2>3. merge' \in [Pairs -> Statuses]
    BY <1>1, <1>2 DEF Statuses
  <2>4. late' \in [UserIds -> BOOLEAN]
    BY <1>1, <1>2 DEF Merged
  <2>5. Suggested'
    BY <1>1, <1>2, <1>8 DEF Suggested
  <2> QED BY <1>1, <1>8, <2>1, <2>2, <2>3, <2>4, <2>5 DEF IInv, Tables
<1>10. IdsInOrder'
  BY <1>1, <1>8 DEF IInv, IdsInOrder
<1>11. People'
  <2> SUFFICES ASSUME races' = 0, NEW v \in UserIds PROVE RemovedOK(v)' /\ MergedOK(v)'
    BY DEF People
  <2>1. RemovedOK(v) /\ MergedOK(v)
    BY DEF IInv, People
  <2>2. RemovedOK(v)'
    <3>1. CASE v = n
      <4>1. row.approval = r.approval
        BY <1>2 DEF User, row
      <4> QED BY <1>1, <1>6, <1>7, <2>1, <3>1, <4>1 DEF RemovedOK, Usable, r
    <3>2. CASE v # n
      BY <1>1, <1>7, <2>1, <3>2 DEF RemovedOK, Usable
    <3> QED BY <3>1, <3>2
  <2>3. MergedOK(v)'
    <3>1. CASE v = n
      BY <1>1, <1>6, <1>7, <3>1 DEF MergedOK
    <3>2. CASE v = s
      <4>1. late'[s] = (late[s] \/ Merged(s)) /\ user'[s] = user[s]
        BY <1>1, <1>2, <1>7
      <4> QED BY <3>2, <4>1 DEF MergedOK, Merged
    <3>3. CASE v # n /\ v # s
      BY <1>1, <1>2, <1>7, <2>1, <3>3 DEF MergedOK, Merged
    <3> QED BY <3>1, <3>2, <3>3
  <2> QED BY <2>2, <2>3
<1> QED BY <1>8, <1>9, <1>10, <1>11

LEMMA ApproveMergeKeeps ==
  ASSUME IInv, NEW p \in Pairs, NEW s \in UserIds, ApproveMerge(p, s) PROVE IInv'
<1>0. PICK n : n = IF s = p[1] THEN p[2] ELSE p[1]
  OBVIOUS
<1>1. job' = Disturb(job) /\ Count /\ s \in {p[1], p[2]} /\ Move(p, s, n)
  BY <1>0 DEF ApproveMerge, AtOnce
<1>2. merge[p] # "none" /\ p[1] # p[2] /\ Suggested
  BY <1>1 DEF Move, Undecided, Pairs, UserIds, IInv, Tables
<1>3. s \in Known /\ n \in Known /\ s # n
  BY <1>0, <1>1, <1>2 DEF Suggested
<1>4. races' = 0 => races = 0
  BY <1>1 DEF Count, IInv, Counters
<1>5. Tables' /\ IdsInOrder' /\ People' /\ Known' = Known
  BY <1>1, <1>3, <1>4, MoveTables
<1> QED BY <1>1, <1>5, Disturbs DEF IInv

LEMMA FinishMergeKeeps == ASSUME IInv, NEW h \in Handlers, FinishMerge(h) PROVE IInv'
<1>0. PICK s, n, p : s = job[h].user /\ n = job[h].other /\ p = Pair(s, n)
  OBVIOUS
<1>1. job[h].pc = "approve" /\ Set(h, NoJob) /\ UNCHANGED budget
  BY DEF FinishMerge, At, End
<1>2. ~Idle(h) /\ s \in Known /\ n \in Known /\ s # n
  BY <1>0, <1>1, ManualTyped
<1>3. p \in Pairs
  BY <1>0, <1>2 DEF Pair, Pairs, Known, UserIds
<1>4. CASE Move(p, s, n)
  <2>1. Tables' /\ IdsInOrder' /\ People' /\ Known' = Known
    BY <1>1, <1>2, <1>3, <1>4, MoveTables DEF budget
  <2>2. Ready(NoJob, job[h].alone, user', login')
    BY NoJobOK
  <2>3. JobsOK' /\ Counters'
    BY <1>1, <1>2, <2>1, <2>2, HandlerMoves DEF budget, IInv, Counters
  <2> QED BY <2>1, <2>3 DEF IInv
<1>5. CASE UNCHANGED <<user, login, merge, scan, out, late>>
  BY <1>1, <1>2, <1>5, NoJobOK, OnlyJob DEF history
<1>6. Move(p, s, n) \/ UNCHANGED <<user, login, merge, scan, out, late>>
  BY <1>0 DEF FinishMerge
<1> QED BY <1>4, <1>5, <1>6

-----------------------------------------------------------------------------
(* Failures *)

LEMMA FailsKeeps == ASSUME IInv, NEW h \in Handlers, Fails(h) PROVE IInv'
<1>1. /\ ~Idle(h) /\ Set(h, NoJob) /\ UNCHANGED <<user, login, merge, scan, ops, races, history>>
      /\ fails' = fails + 1
  BY DEF Fails, Idle, End
<1>2. Counters' /\ races' = races
  BY <1>1 DEF IInv, Counters
<1> QED BY <1>1, <1>2, NoJobOK, OnlyJob

LEMMA CrashKeeps == ASSUME IInv, Crash PROVE IInv'
<1>1. /\ job' = [h \in Handlers |-> NoJob] /\ scan' = [u \in UserIds |-> NoScan] /\ fails' = fails + 1
      /\ UNCHANGED <<user, login, merge, ops, races, history>>
  BY DEF Crash
<1>2. Known' = Known
  BY <1>1 DEF Known, Exists
<1>3. /\ NoScan \in [state: {"none", "queued", "running"}, todo: SUBSET UserIds]
      /\ NoScan.todo = {} /\ NoScan.state = "none"
  BY DEF NoScan
<1>4. Suggested'
  BY <1>1, <1>2, <1>3 DEF IInv, Tables, Suggested
<1>5. Tables'
  BY <1>1, <1>2, <1>3, <1>4 DEF IInv, Tables, history
<1>6. IdsInOrder' /\ Counters'
  BY <1>1, <1>2 DEF IInv, IdsInOrder, Counters, history
<1>7. People'
  BY <1>1 DEF IInv, People, RemovedOK, MergedOK, Merged, Usable, history
<1>8. JobsOK'
  BY <1>1, NoJobIsJob, NoJobOK DEF JobsOK, AloneOK, Idle
<1> QED BY <1>5, <1>6, <1>7, <1>8 DEF IInv

-----------------------------------------------------------------------------
(* The invariant is inductive *)

LEMMA InitUsersTyped ==
  ASSUME NEW S \in {{}, Emails}, Cardinality(S) <= MaxUser, user = InitUsers(S)
  PROVE  /\ user \in [UserIds -> User] /\ \E n \in Nat : Known = 1..n
         /\ \A u \in UserIds : user[u].parked = <<>>
<1> DEFINE n == Cardinality(S)
           ids == 1..n
           f == CHOOSE g \in [ids -> S] : \A u, v \in ids : u # v => g[u] # g[v]
<1>1. IsFiniteSet(S) /\ S \subseteq Emails
  BY SignInAssumption, FS_EmptySet
<1>2. n \in Nat /\ ExistsBijection(ids, S)
  BY <1>1, FS_CardinalityType
<1>3. PICK g \in Bijection(ids, S) : TRUE
  BY <1>2 DEF ExistsBijection
<1>4. g \in [ids -> S] /\ \A u, v \in ids : u # v => g[u] # g[v]
  BY <1>3 DEF Bijection, Injection, IsInjective
<1>5. f \in [ids -> S]
  BY <1>4
<1>6. user = [u \in UserIds |->
                IF u \in ids THEN [NoUser EXCEPT !.email = f[u], !.active = TRUE,
                                                 !.approval = "approved", !.via = "import"]
                             ELSE NoUser]
  BY DEF InitUsers
<1> HIDE DEF f
<1>7. NoUser \in User /\ NoUser.via = "none" /\ NoUser.parked = <<>>
  BY DEF NoUser, User, Approvals, Roles
<1>8. n <= MaxUser /\ ids \subseteq UserIds
  BY <1>2, SignInAssumption DEF UserIds
<1> HIDE DEF n, ids
<1>9. ASSUME NEW u \in UserIds
      PROVE  /\ user[u] \in User /\ user[u].parked = <<>>
             /\ user[u].via # "none" <=> u \in ids
  <2>1. CASE u \in ids
    <3>0. PICK e : e = f[u]
      OBVIOUS
    <3> DEFINE row == [NoUser EXCEPT !.email = e, !.active = TRUE, !.approval = "approved", !.via = "import"]
    <3>1. e \in Emails
      BY <1>1, <1>5, <2>1, <3>0
    <3>2. user[u] = row
      BY <1>6, <2>1, <3>0
    <3>3. row \in User
      BY <1>7, <3>1 DEF User, Approvals
    <3>4. row.via = "import" /\ row.parked = <<>>
      BY <1>7 DEF NoUser
    <3> HIDE DEF row
    <3> QED BY <2>1, <3>2, <3>3, <3>4
  <2>2. CASE u \notin ids
    BY <1>6, <1>7, <2>2
  <2> QED BY <2>1, <2>2
<1>10. user \in [UserIds -> User]
  BY <1>6, <1>9
<1>11. Known = ids
  BY <1>8, <1>9 DEF Known, Exists
<1> QED BY <1>2, <1>9, <1>10, <1>11 DEF ids

LEMMA InitIInv == ASSUME Init PROVE IInv
<1>1. /\ user \in [UserIds -> User] /\ \E n \in Nat : Known = 1..n
      /\ \A u \in UserIds : user[u].parked = <<>>
  BY InitUsersTyped DEF Init
<1>2. /\ login = [i \in Identities |-> Nobody] /\ merge = [p \in Pairs |-> "none"]
      /\ scan = [u \in UserIds |-> NoScan] /\ job = [h \in Handlers |-> NoJob]
      /\ ops = 0 /\ races = 0 /\ fails = 0
      /\ out = [u \in UserIds |-> "in"] /\ late = [u \in UserIds |-> FALSE]
  BY DEF Init
<1>3. /\ NoScan \in [state: {"none", "queued", "running"}, todo: SUBSET UserIds]
      /\ NoScan.todo = {} /\ NoScan.state = "none"
  BY DEF NoScan
<1>4. Suggested
  BY <1>2, <1>3 DEF Suggested
<1>5. Tables
  BY <1>1, <1>2, <1>3, <1>4 DEF Tables, Statuses
<1>6. Counters /\ IdsInOrder
  BY <1>1, <1>2 DEF Counters, IdsInOrder
<1>7. People
  BY <1>1, <1>2 DEF People, RemovedOK, MergedOK, Merged
<1>8. JobsOK
  BY <1>2, NoJobIsJob, NoJobOK DEF JobsOK, AloneOK, Idle
<1> QED BY <1>5, <1>6, <1>7, <1>8 DEF IInv

LEMMA StartKeeps == ASSUME IInv, NEW h \in Handlers, Start(h) PROVE IInv'
<1>1. ASSUME NEW i \in Identities, StartSignIn(h, i) \/ StartUnlink(h, i) PROVE IInv'
  BY <1>1, StartSignInKeeps, StartUnlinkKeeps
<1>2. ASSUME NEW e \in Emails, StartSignUp(h, e) PROVE IInv'
  BY <1>2, StartSignUpKeeps
<1>3. ASSUME NEW listed \in SUBSET StaffEmails, StartSync(h, "staff", listed) PROVE IInv'
  BY <1>3, StartSyncKeeps, SignInAssumption
<1>4. ASSUME NEW listed \in SUBSET Emails, StartSync(h, "student", listed) PROVE IInv'
  BY <1>4, StartSyncKeeps
<1>5. ASSUME NEW s \in UserIds, NEW n \in UserIds, StartManualMerge(h, s, n) PROVE IInv'
  BY <1>5, StartManualMergeKeeps
<1> QED BY <1>1, <1>2, <1>3, <1>4, <1>5 DEF Start

LEMMA AdministerKeeps == ASSUME IInv, Administer PROVE IInv'
<1>1. ASSUME NEW u \in UserIds, Approve(u) \/ Delete(u) PROVE IInv'
  BY <1>1, ApproveKeeps, DeleteKeeps
<1>2. ASSUME NEW u \in UserIds, NEW permanent \in BOOLEAN, Deny(u, permanent) PROVE IInv'
  BY <1>2, DenyKeeps
<1>3. ASSUME NEW u \in UserIds, NEW i \in Identities, Link(u, i) PROVE IInv'
  BY <1>3, LinkKeeps
<1>4. ASSUME NEW e \in Emails, Import(e) PROVE IInv'
  BY <1>4, ImportKeeps
<1>5. ASSUME NEW p \in Pairs, NEW s \in UserIds, ApproveMerge(p, s) PROVE IInv'
  BY <1>5, ApproveMergeKeeps
<1>6. ASSUME NEW p \in Pairs, NEW status \in {"rejected", "deferred"}, Decide(p, status) PROVE IInv'
  BY <1>6, DecideKeeps
<1> QED BY <1>1, <1>2, <1>3, <1>4, <1>5, <1>6 DEF Administer

LEMMA StepKeeps == ASSUME IInv, NEW h \in Handlers, Step(h) PROVE IInv'
<1>1. CASE \/ Load(h) \/ Match(h) \/ Reenter(h) \/ CreateUser(h) \/ Attach(h)
           \/ OULookupFails(h) \/ PromoteStaff(h) \/ DemoteStaff(h) \/ Elevate(h) \/ Respond(h)
  BY <1>1, LoadKeeps, MatchKeeps, ReenterKeeps, CreateUserKeeps, AttachKeeps, OULookupFailsKeeps,
     PromoteStaffKeeps, DemoteStaffKeeps, ElevateKeeps, RespondKeeps
<1>2. CASE \/ Unlink(h) \/ SignUp(h)
           \/ SyncFind(h) \/ SyncInsert(h) \/ SyncPatch(h) \/ FindUnseen(h) \/ Drop(h)
           \/ RecordMerge(h) \/ FinishMerge(h)
  BY <1>2, UnlinkKeeps, SignUpKeeps, SyncFindKeeps, SyncInsertKeeps, SyncPatchKeeps,
     FindUnseenKeeps, DropKeeps, RecordMergeKeeps, FinishMergeKeeps
<1> QED BY <1>1, <1>2 DEF Step

LEMMA ScanKeeps == ASSUME IInv, NEW u \in UserIds, Scan(u) PROVE IInv'
<1>1. ASSUME NEW v \in UserIds, Suggest(u, v) \/ Pass(u, v) PROVE IInv'
  BY <1>1, SuggestKeeps, PassKeeps
<1> QED BY <1>1, ScanCandidatesKeeps, ScanAbortsKeeps DEF Scan

LEMMA NextKeeps == ASSUME IInv, [Next]_vars PROVE IInv'
<1>1. CASE Next
  BY <1>1, StartKeeps, StepKeeps, FailsKeeps, AdministerKeeps, ScanKeeps, CrashKeeps DEF Next
<1>2. CASE UNCHANGED vars
  <2>1. UNCHANGED <<user, login, job, budget, history>> /\ UNCHANGED <<merge, scan>>
    BY <1>2 DEF vars, budget, history
  <2>2. /\ merge' \in [Pairs -> Statuses] /\ Suggested'
        /\ scan' \in [UserIds -> [state: {"none", "queued", "running"}, todo: SUBSET UserIds]]
    <3>1. Known' = Known
      BY <2>1 DEF Known, Exists
    <3> QED BY <2>1, <3>1 DEF IInv, Tables, Suggested
  <2> QED BY <2>1, <2>2, ScanTables
<1> QED BY <1>1, <1>2

LEMMA Always == Spec => []IInv
<1>1. Init => IInv
  BY InitIInv
<1>2. IInv /\ [Next]_vars => IInv'
  BY NextKeeps
<1> QED BY <1>1, <1>2, PTL DEF Spec

-----------------------------------------------------------------------------
(* What it says *)

\* Type correctness: a login, a suggestion, a scan or a request never refers to a
\* user who is not there.
THEOREM TypeCorrect == Spec => []TypeOK
<1>1. IInv => TypeOK
  BY KnownIsKnownIn DEF IInv, Tables, Counters, JobsOK, JobOK, TypeOK
<1> QED BY <1>1, Always, PTL

\* A sign-in that nobody disturbs ends in the session of the user who holds the
\* identity, whatever crashes, failures and races left behind.
THEOREM SignInsHeal == Spec => []SignInHeals
<1>1. IInv => SignInHeals
  <2> SUFFICES ASSUME IInv, NEW h \in Handlers, job[h].pc = "answer", job[h].alone
               PROVE  LET u == job[h].user IN
                      /\ job[h].end # "failed"
                      /\ job[h].end = "signedIn" => login[job[h].ident] = u /\ user[u].active
                      /\ job[h].end = "denied" => user[u].approval = "permanent" /\ ~user[u].active
    BY DEF SignInHeals, At
  <2> QED BY JobTyped DEF Undisturbed, Idle
<1> QED BY <1>1, Always, PTL

\* When requests do not overlap, nobody who was removed is usable again but through an
\* administrator, the staff OU or the Workspace listing; whoever was denied permanently
\* is inactive but for that listing, and even then not approved.
THEOREM RemovedOnesStayOut == Spec => []RemovedStaysOut
<1>1. IInv => RemovedStaysOut
  BY DEF IInv, People, RemovedOK, RemovedStaysOut, Usable, Known
<1> QED BY <1>1, Always, PTL

\* When requests do not overlap, a user merged away is inactive and has no login,
\* unless one was given to it afterwards.
THEOREM MergedOnesHoldNothing == Spec => []MergedHoldsNothing
<1>1. IInv => MergedHoldsNothing
  BY DEF IInv, People, MergedOK, MergedHoldsNothing, Logins, Known
<1> QED BY <1>1, Always, PTL

-----------------------------------------------------------------------------
(* Merges are final *)

\* What a step may do to the suggestion of a pair.
Final(p) ==
  /\ merge[p] = "approved" => merge'[p] = "approved"
  /\ merge[p] = "rejected" /\ merge'[p] # "rejected" =>
       \E h \in Handlers : At(h, "record") /\ Pair(job[h].user, job[h].other) = p

LEMMA UndecidedFinal ==
  ASSUME merge \in [Pairs -> Statuses], NEW q, Undecided(q), NEW status,
         merge' = [merge EXCEPT ![q] = status], NEW p \in Pairs
  PROVE  Final(p)
BY DEF Final, Undecided

LEMMA SuggestFinal ==
  ASSUME merge \in [Pairs -> Statuses], NEW u, NEW v, Suggest(u, v), NEW p \in Pairs
  PROVE  Final(p)
<1>0. PICK q : q = Pair(u, v)
  OBVIOUS
<1>1. merge' = [merge EXCEPT ![q] = IF merge[q] = "none" THEN "pending" ELSE merge[q]]
  BY <1>0 DEF Suggest
<1> QED BY <1>1 DEF Final

LEMMA RecordMergeFinal ==
  ASSUME merge \in [Pairs -> Statuses], NEW h \in Handlers, RecordMerge(h), NEW p \in Pairs
  PROVE  Final(p)
<1>0. PICK q : q = Pair(job[h].user, job[h].other)
  OBVIOUS
<1>1. /\ At(h, "record")
      /\ merge' = merge \/ (merge[q] # "approved" /\ merge' = [merge EXCEPT ![q] = "pending"])
  BY <1>0 DEF RecordMerge
<1>2. CASE p = q
  BY <1>0, <1>1, <1>2 DEF Final
<1>3. CASE p # q
  BY <1>1, <1>3 DEF Final
<1> QED BY <1>2, <1>3

LEMMA NextFinal ==
  ASSUME merge \in [Pairs -> Statuses], [Next]_vars, NEW p \in Pairs
  PROVE  Final(p)
<1>1. ASSUME UNCHANGED merge PROVE Final(p)
  BY <1>1 DEF Final
<1>2. ASSUME NEW h \in Handlers, Start(h) \/ Fails(h) PROVE Final(p)
  BY <1>1, <1>2 DEF Start, Fails, StartSignIn, StartUnlink, StartSignUp, StartSync, StartManualMerge, Begin
<1>3. ASSUME NEW h \in Handlers, Step(h) PROVE Final(p)
  <2>1. CASE RecordMerge(h)
    BY <2>1, RecordMergeFinal
  <2>2. CASE FinishMerge(h)
    BY <1>1, <2>2, UndecidedFinal DEF FinishMerge, Move
  <2>3. CASE ~RecordMerge(h) /\ ~FinishMerge(h)
    BY <1>1, <1>3, <2>3 DEF Step, Load, Match, Reenter, CreateUser, Attach, OULookupFails, PromoteStaff,
       DemoteStaff, Elevate, Respond, Unlink, SignUp, SyncFind, SyncInsert, SyncPatch, FindUnseen, Drop
  <2> QED BY <2>1, <2>2, <2>3
<1>4. ASSUME Administer PROVE Final(p)
  <2>1. ASSUME NEW u \in UserIds,
               \/ Approve(u) \/ Delete(u)
               \/ \E permanent \in BOOLEAN : Deny(u, permanent)
               \/ \E i \in Identities : Link(u, i)
        PROVE  Final(p)
    BY <1>1, <2>1 DEF Approve, Delete, Deny, Link
  <2>2. ASSUME NEW e \in Emails, Import(e) PROVE Final(p)
    BY <1>1, <2>2 DEF Import
  <2>3. ASSUME NEW q \in Pairs, NEW s \in UserIds, ApproveMerge(q, s) PROVE Final(p)
    BY <2>3, UndecidedFinal DEF ApproveMerge, Move
  <2>4. ASSUME NEW q \in Pairs, NEW status \in {"rejected", "deferred"}, Decide(q, status) PROVE Final(p)
    BY <2>4, UndecidedFinal DEF Decide
  <2> QED BY <1>4, <2>1, <2>2, <2>3, <2>4 DEF Administer
<1>5. ASSUME NEW u \in UserIds, Scan(u) PROVE Final(p)
  BY <1>1, <1>5, SuggestFinal DEF Scan, ScanCandidates, Pass, ScanAborts
<1>6. CASE Crash \/ UNCHANGED vars
  BY <1>1, <1>6 DEF Crash, vars
<1> QED BY <1>2, <1>3, <1>4, <1>5, <1>6 DEF Next

\* A pair is merged at most once, and a rejection is reopened by a manual merge only.
THEOREM DecisionsAreFinal == Spec => DecisionFinal
<1>1. IInv /\ [Next]_vars => [\A p \in Pairs : Final(p)]_vars
  BY NextFinal DEF IInv, Tables
<1>2. [\A p \in Pairs : Final(p)]_vars =>
        [\A p \in Pairs :
           /\ merge[p] = "approved" => merge'[p] = "approved"
           /\ merge[p] = "rejected" /\ merge'[p] # "rejected" =>
                \E h \in Handlers : At(h, "record") /\ Pair(job[h].user, job[h].other) = p]_vars
  BY DEF Final
<1> QED BY <1>1, <1>2, Always, PTL DEF Spec, DecisionFinal

-----------------------------------------------------------------------------
(* Whoever came by signing in or up keeps a login *)

\* Users who are to have a login, those who have one, and those a request is about to give one.
Owes(u)      == user[u].via \in {"social", "passphrase"} /\ ~Merged(u)
HasLogin(u)  == \E i \in Identities : login[i] = u
Attaching(u) == \E h \in Handlers : At(h, "attach") /\ job[h].user = u

\* The user a request is about to take a login from has another one.
Spare(h) == \E i \in Identities : i # job[h].ident /\ login[i] = login[job[h].ident]

Calm == races = 0 /\ fails = 0

LoginInv ==
  Calm =>
    /\ \A u \in Known : Owes(u) => HasLogin(u) \/ Attaching(u)
    /\ \A h \in Handlers : At(h, "unlink") => Spare(h)

\* Who owes a login does so as long as the way here and the parking are the same.
Origins == \A u \in UserIds : user'[u].via = user[u].via /\ user'[u].parked = user[u].parked

LEMMA OriginsOwe ==
  ASSUME Origins
  PROVE  Known' = Known /\ \A u \in Known : Owes(u)' <=> Owes(u)
<1>1. Known' = Known
  BY DEF Origins, Known, Exists
<1> QED BY <1>1 DEF Origins, Owes, Merged, Known

\* In calm, nobody is beside a request that is under way.
LEMMA CalmAlone ==
  ASSUME IInv, NEW h \in Handlers, ~Idle(h), Calm
  PROVE  /\ job[h].alone /\ Undisturbed(job[h], user, login)
         /\ \A g \in Handlers : g # h => Idle(g)
<1>1. job[h].alone
  BY SerialAlone DEF Calm
<1> QED BY <1>1, JobTyped

\* A request goes on.
LEMMA GoesOn ==
  ASSUME IInv, LoginInv, NEW h \in Handlers, ~Idle(h), races' = races, fails' = fails,
         \A g \in Handlers : g # h => job'[g] \in {job[g], NoJob},
         job'[h].pc # "unlink",
         Calm => \A u \in Known' : Owes(u)' =>
                   \/ HasLogin(u)' \/ Attaching(u)'
                   \/ u \in Known /\ Owes(u) /\ (HasLogin(u) => HasLogin(u)')
                      /\ (job[h].pc = "attach" => job[h].user # u)
  PROVE  LoginInv'
<1> SUFFICES ASSUME Calm
             PROVE  /\ \A u \in Known' : Owes(u)' => HasLogin(u)' \/ Attaching(u)'
                    /\ \A g \in Handlers : At(g, "unlink")' => Spare(g)'
  BY DEF LoginInv, Calm
<1>1. \A g \in Handlers : g # h => job[g].pc = "idle" /\ job'[g].pc = "idle"
  BY CalmAlone, NoJobIsJob DEF Idle
<1>2. ASSUME NEW g \in Handlers PROVE ~At(g, "unlink")'
  BY <1>1 DEF At
<1>3. ASSUME NEW u \in Known', Owes(u)' PROVE HasLogin(u)' \/ Attaching(u)'
  <2>1. CASE HasLogin(u)' \/ Attaching(u)'
    BY <2>1
  <2>2. CASE u \in Known /\ Owes(u) /\ (HasLogin(u) => HasLogin(u)') /\ (job[h].pc = "attach" => job[h].user # u)
    <3>1. ~Attaching(u)
      BY <1>1, <2>2 DEF Attaching, At
    <3> QED BY <2>2, <3>1 DEF LoginInv
  <2> QED BY <1>3, <2>1, <2>2
<1> QED BY <1>2, <1>3

\* It writes no login, and nobody's origin.
LEMMA GoesOnBeside ==
  ASSUME IInv, LoginInv, NEW h \in Handlers, ~Idle(h), ~At(h, "attach"), NEW j, Set(h, j),
         j.pc # "unlink", Origins, UNCHANGED <<login, budget>>
  PROVE  LoginInv'
<1>1. job'[h] = j /\ \A g \in Handlers : g # h => job'[g] = job[g]
  BY DEF Set, IInv, JobsOK
<1>2. Known' = Known /\ \A u \in Known : Owes(u)' <=> Owes(u)
  BY OriginsOwe
<1>3. \A u : HasLogin(u)' <=> HasLogin(u)
  BY DEF HasLogin
<1> QED BY <1>1, <1>2, <1>3, GoesOn DEF At, budget

\* A request begins: to take a login away, only from somebody with another one.
LEMMA BeginsCalmly ==
  ASSUME IInv, LoginInv, NEW h \in Handlers, NEW op, NEW j \in Job, Begin(h, op, j),
         j.pc = "unlink" => \E i \in Identities : i # j.ident /\ login[i] = login[j.ident]
  PROVE  LoginInv'
<1> DEFINE q == Quiet
           k == [j EXCEPT !.alone = q]
<1>1. job' = [Disturb(job) EXCEPT ![h] = k] /\ Count /\ UNCHANGED <<user, login>>
  BY DEF Begin
<1>2. q \in BOOLEAN
  BY DEF Quiet
<1>3. races' = 0 => races = 0 /\ q
  BY <1>1 DEF IInv, Counters, Count
<1> HIDE DEF q
<1>4. k.pc = j.pc /\ k.ident = j.ident
  BY <1>2 DEF Job
<1> HIDE DEF k
<1>5. job'[h] = k /\ \A g \in Handlers : g # h => job'[g] = Disturb(job)[g]
  BY <1>1 DEF Disturb
<1> SUFFICES ASSUME Calm'
             PROVE  /\ \A u \in Known' : Owes(u)' => HasLogin(u)' \/ Attaching(u)'
                    /\ \A g \in Handlers : At(g, "unlink")' => Spare(g)'
  BY DEF LoginInv
<1>6. Calm /\ \A g \in Handlers : job[g].pc = "idle"
  BY <1>1, <1>3 DEF Calm, q, Quiet, At, Count
<1>7. \A g \in Handlers : g # h => job'[g].pc = "idle"
  BY <1>5, <1>6 DEF Disturb
<1>8. Known' = Known /\ \A u \in Known : (Owes(u)' <=> Owes(u)) /\ (HasLogin(u)' <=> HasLogin(u))
  BY <1>1 DEF Known, Exists, Owes, Merged, HasLogin
<1>9. ASSUME NEW u \in Known', Owes(u)' PROVE HasLogin(u)'
  <2>1. ~Attaching(u)
    BY <1>6 DEF Attaching, At
  <2> QED BY <1>6, <1>8, <1>9, <2>1 DEF LoginInv
<1>10. ASSUME NEW g \in Handlers, At(g, "unlink")' PROVE Spare(g)'
  <2>1. g = h /\ k.pc = "unlink"
    BY <1>5, <1>7, <1>10 DEF At
  <2> QED BY <1>1, <1>4, <1>5, <2>1 DEF Spare
<1> QED BY <1>9, <1>10

\* A request of one transaction: in calm it has the tables to itself.
LEMMA AtOnceCalmly ==
  ASSUME IInv, LoginInv, NEW op, AtOnce(op),
         \A u \in Known' : Owes(u)' => HasLogin(u)' \/ (u \in Known /\ Owes(u) /\ (HasLogin(u) => HasLogin(u)'))
  PROVE  LoginInv'
<1> SUFFICES ASSUME Calm'
             PROVE  /\ \A u \in Known' : Owes(u)' => HasLogin(u)' \/ Attaching(u)'
                    /\ \A g \in Handlers : At(g, "unlink")' => Spare(g)'
  BY DEF LoginInv
<1>1. Calm /\ Quiet
  BY DEF AtOnce, Count, Calm, IInv, Counters
<1>2. \A g \in Handlers : job[g].pc = "idle" /\ job'[g].pc = "idle"
  BY <1>1 DEF AtOnce, Disturb, Quiet, At
<1>3. \A u : ~Attaching(u)
  BY <1>2 DEF Attaching, At
<1> QED BY <1>1, <1>2, <1>3 DEF LoginInv, At

\* Where a request can be next.
LEMMA NextPoints ==
  ASSUME NEW j \in Job
  PROVE  /\ Checked(j).pc \in {"ou", "elevate", "answer"}
         /\ Elevated(j).pc \in {"elevate", "answer"}
         /\ Continue(j).pc \in {"attach", "ou", "elevate", "answer"}
         /\ SyncNext(j).pc \in {"find", "unseen"}
<1>1. \A end : Answered(j, end).pc = "answer"
  BY DEF Answered, NoJob
<1>2. \A pc : [j EXCEPT !.pc = pc].pc = pc
  BY DEF Job
<1> QED BY <1>1, <1>2 DEF Checked, Elevated, Continue, SyncNext

LEMMA FoundPoint ==
  ASSUME IInv, NEW h \in Handlers, NEW u \in Known, NEW then \in {"ou", "attach"}, Found(h, u, then)
  PROVE  \E j : Set(h, j) /\ j.pc # "unlink"
<1> DEFINE b == job[h]
           ap == user[u].approval
           ro == user[u].role
           j == [b EXCEPT !.user = u, !.approval = ap, !.role = ro, !.then = then]
<1>1. u \in UserIds /\ user[u] \in User /\ b \in Job
  BY JobTyped DEF IInv, Tables, Known
<1>2. ap \in Approvals /\ ro \in Roles
  BY <1>1 DEF User
<1>3. Admit(h, j)
  BY DEF Found
<1> HIDE DEF ap, ro
<1>4. j \in Job
  BY ZenonT(60), <1>1, <1>2 DEF Job
<1> HIDE DEF j
<1>5. Answered(j, "denied").pc = "answer" /\ [j EXCEPT !.pc = "reenter"].pc = "reenter"
  BY <1>4 DEF Answered, NoJob, Job
<1>6. Continue(j).pc # "unlink"
  BY <1>4, NextPoints
<1> QED BY <1>3, <1>5, <1>6 DEF Admit

LEMMA StillOwed ==
  ASSUME IInv, NEW u \in UserIds, NEW r, user' = [user EXCEPT ![u] = r],
         r.via = user[u].via, r.parked = user[u].parked
  PROVE  Origins
BY DEF IInv, Tables, Origins

LEMMA RowFields ==
  ASSUME NEW r \in User, NEW x, NEW y
  PROVE  /\ LET s == [r EXCEPT !.active = x, !.approval = y] IN s.via = r.via /\ s.parked = r.parked
         /\ LET s == [r EXCEPT !.role = x, !.approval = y] IN s.via = r.via /\ s.parked = r.parked
         /\ LET s == [r EXCEPT !.active = x, !.role = y] IN s.via = r.via /\ s.parked = r.parked
         /\ LET s == [r EXCEPT !.role = x] IN s.via = r.via /\ s.parked = r.parked
         /\ LET s == [r EXCEPT !.approval = x] IN s.via = r.via /\ s.parked = r.parked
         /\ LET s == [r EXCEPT !.active = x] IN s.via = r.via /\ s.parked = r.parked
BY DEF User

LEMMA RoleKept ==
  ASSUME IInv, NEW u \in UserIds, NEW x, NEW y,
         user' = [user EXCEPT ![u].role = x, ![u].approval = y]
  PROVE  Origins
<1>1. user \in [UserIds -> User] /\ user[u] \in User
  BY DEF IInv, Tables
<1> DEFINE r == [user[u] EXCEPT !.role = x, !.approval = y]
<1>2. user' = [user EXCEPT ![u] = r]
  BY <1>1
<1>3. r.via = user[u].via /\ r.parked = user[u].parked
  BY <1>1, RowFields
<1> HIDE DEF r
<1> QED BY <1>2, <1>3, StillOwed

LEMMA RowsKept ==
  ASSUME IInv, NEW u \in UserIds, NEW x, NEW y,
         \/ user' = [user EXCEPT ![u].active = x, ![u].approval = y]
         \/ user' = [user EXCEPT ![u].active = x, ![u].role = y]
         \/ user' = [user EXCEPT ![u].role = x]
         \/ user' = [user EXCEPT ![u].approval = x]
         \/ user' = [user EXCEPT ![u].active = x]
         \/ user' = user
  PROVE  Origins
<1>1. user \in [UserIds -> User] /\ user[u] \in User
  BY DEF IInv, Tables
<1>2. CASE user' = [user EXCEPT ![u].active = x, ![u].approval = y]
  <2> DEFINE r == [user[u] EXCEPT !.active = x, !.approval = y]
  <2>1. user' = [user EXCEPT ![u] = r]
    BY <1>1, <1>2
  <2>2. r.via = user[u].via /\ r.parked = user[u].parked
    BY <1>1, RowFields
  <2> HIDE DEF r
  <2> QED BY <2>1, <2>2, StillOwed
<1>3. CASE user' = [user EXCEPT ![u].active = x, ![u].role = y]
  <2> DEFINE r == [user[u] EXCEPT !.active = x, !.role = y]
  <2>1. user' = [user EXCEPT ![u] = r]
    BY <1>1, <1>3
  <2>2. r.via = user[u].via /\ r.parked = user[u].parked
    BY <1>1, RowFields
  <2> HIDE DEF r
  <2> QED BY <2>1, <2>2, StillOwed
<1>4. CASE user' = [user EXCEPT ![u].role = x]
  BY <1>1, <1>4, RowFields, StillOwed
<1>5. CASE user' = [user EXCEPT ![u].approval = x]
  BY <1>1, <1>5, RowFields, StillOwed
<1>6. CASE user' = [user EXCEPT ![u].active = x]
  BY <1>1, <1>6, RowFields, StillOwed
<1>7. CASE user' = user
  BY <1>7 DEF Origins
<1> QED BY <1>2, <1>3, <1>4, <1>5, <1>6, <1>7

LEMMA LoadCalmly == ASSUME IInv, LoginInv, NEW h \in Handlers, Load(h) PROVE LoginInv'
<1>1. /\ job[h].pc = "load" /\ UNCHANGED <<user, login, budget>> /\ Found(h, job[h].user, "ou")
      /\ ~Idle(h) /\ ~At(h, "attach")
  BY DEF Load, At, Idle
<1>2. job[h].user \in Known
  BY <1>1, JobTyped, KnownIsKnownIn DEF JobOK
<1>3. PICK j : Set(h, j) /\ j.pc # "unlink"
  BY <1>1, <1>2, FoundPoint
<1>4. Origins
  BY <1>1 DEF Origins
<1> QED BY <1>1, <1>3, <1>4, GoesOnBeside

LEMMA MatchCalmly == ASSUME IInv, LoginInv, NEW h \in Handlers, Match(h) PROVE LoginInv'
<1>1. /\ job[h].pc = "match" /\ UNCHANGED <<user, login, budget>> /\ ~Idle(h) /\ ~At(h, "attach")
      /\ Go(h, "create") \/ \E u \in OwnerOf(job[h].email) : Found(h, u, "attach")
  BY DEF Match, At, Idle
<1>2. \E j : Set(h, j) /\ j.pc # "unlink"
  <2>1. CASE Go(h, "create")
    <3>1. [job[h] EXCEPT !.pc = "create"].pc = "create"
      BY JobTyped DEF Job
    <3> QED BY <2>1, <3>1 DEF Go
  <2>2. CASE \E u \in OwnerOf(job[h].email) : Found(h, u, "attach")
    BY <2>2, FoundPoint DEF OwnerOf
  <2> QED BY <1>1, <2>1, <2>2
<1>3. Origins
  BY <1>1 DEF Origins
<1> QED BY <1>1, <1>2, <1>3, GoesOnBeside

LEMMA ReenterCalmly == ASSUME IInv, LoginInv, NEW h \in Handlers, Reenter(h) PROVE LoginInv'
<1> DEFINE b == job[h]
           j == [b EXCEPT !.approval = "pending"]
<1>1. /\ b.pc = "reenter" /\ UNCHANGED <<login, budget>> /\ ~Idle(h) /\ ~At(h, "attach")
      /\ Set(h, Continue(j))
      /\ user' = [user EXCEPT ![b.user].active = TRUE, ![b.user].approval = "pending"]
  BY DEF Reenter, At, Idle
<1>2. b \in Job /\ b.user \in UserIds
  BY <1>1, JobTyped DEF JobOK, KnownIn
<1>3. j \in Job
  BY SMTT(30), <1>2 DEF Job, Approvals
<1>4. Continue(j).pc # "unlink"
  BY <1>3, NextPoints
<1>5. Origins
  BY <1>1, <1>2, RowsKept
<1> QED BY <1>1, <1>4, <1>5, GoesOnBeside

LEMMA CreateUserCalmly == ASSUME IInv, LoginInv, NEW h \in Handlers, CreateUser(h) PROVE LoginInv'
<1> PICK u : u = NextId
  OBVIOUS
<1> DEFINE b == job[h]
           j == [b EXCEPT !.pc = "attach", !.user = u, !.approval = "pending",
                          !.role = "student", !.then = "scan"]
<1>1. b.pc = "create" /\ UNCHANGED <<login, budget>> /\ ~Idle(h) /\ ~At(h, "attach")
  BY DEF CreateUser, At, Idle
<1>2. b \in Job /\ b.email \in Emails
  BY <1>1, JobTyped DEF JobOK
<1>3. CASE Insert(b.email, "pending", "student", "social") /\ Set(h, j)
  <2>1. /\ Known' = Known \cup {u} /\ \A v \in UserIds : v # u => user'[v] = user[v]
    BY <1>2, <1>3, InsertIds DEF Approvals, Roles
  <2>2. j.pc = "attach" /\ j.user = u
    BY <1>2 DEF Job
  <2> HIDE DEF j
  <2>3. job'[h] = j /\ \A g \in Handlers : g # h => job'[g] = job[g]
    BY <1>3 DEF Set, IInv, JobsOK
  <2>4. Attaching(u)'
    BY <2>2, <2>3 DEF Attaching, At
  <2>5. \A v \in Known : v # u => (Owes(v)' => Owes(v)) /\ (HasLogin(v) => HasLogin(v)')
    BY <1>1, <2>1 DEF Owes, Merged, HasLogin, Known
  <2> QED BY <1>1, <2>1, <2>2, <2>3, <2>4, <2>5, GoesOn DEF budget
<1>4. CASE Answer(h, "failed") /\ UNCHANGED user
  <2>1. Answered(b, "failed").pc = "answer"
    BY DEF Answered, NoJob
  <2>2. Origins
    BY <1>4 DEF Origins
  <2> QED BY <1>1, <1>4, <2>1, <2>2, GoesOnBeside DEF Answer
<1> QED BY <1>3, <1>4 DEF CreateUser

\* In calm the identity is free, so that the new user gets the login.
LEMMA AttachCalmly == ASSUME IInv, LoginInv, NEW h \in Handlers, Attach(h) PROVE LoginInv'
<1> DEFINE b == job[h]
           i == b.ident
<1> PICK u : u = b.user
  OBVIOUS
<1>1. b.pc = "attach" /\ UNCHANGED <<user, budget>> /\ ~Idle(h)
  BY DEF Attach, At, Idle
<1>2. b \in Job /\ i \in Identities /\ Known' = Known
  BY <1>1, JobTyped DEF JobOK, SigningIn, Known, Exists
<1>3. CASE login[i] = Nobody
  <2>1. login' = [login EXCEPT ![i] = u] /\ Set(h, Checked(b))
    BY <1>3 DEF Attach
  <2>2. login'[i] = u /\ \A k \in Identities : login[k] # Nobody => login'[k] = login[k]
    BY <1>2, <1>3, <2>1 DEF IInv, Tables
  <2>3. HasLogin(u)' /\ \A v \in Known : HasLogin(v) => HasLogin(v)'
    BY <1>2, <2>2, NobodyIsNoUser DEF HasLogin, Known
  <2>4. \A v \in Known : Owes(v)' <=> Owes(v)
    BY <1>1 DEF Owes, Merged
  <2>5. job'[h] = Checked(b) /\ \A g \in Handlers : g # h => job'[g] = job[g]
    BY <2>1 DEF Set, IInv, JobsOK
  <2>6. job'[h].pc # "unlink"
    BY <1>2, <2>5, NextPoints
  <2>7. \A v \in Known' : Owes(v)' => \/ HasLogin(v)'
                                      \/ v \in Known /\ Owes(v) /\ (HasLogin(v) => HasLogin(v)') /\ v # u
    BY <1>2, <2>3, <2>4
  <2> QED BY <1>1, <2>5, <2>6, <2>7, GoesOn DEF budget
<1>4. CASE login[i] # Nobody
  <2>1. ~Calm
    BY <1>1, <1>4, CalmAlone DEF Undisturbed
  <2>2. ~Calm'
    BY <1>1, <2>1 DEF Calm, budget
  <2> QED BY <2>2 DEF LoginInv
<1> QED BY <1>3, <1>4

LEMMA AnswersCalmly ==
  ASSUME IInv, LoginInv, NEW h \in Handlers, OULookupFails(h) \/ Respond(h)
  PROVE  LoginInv'
<1>1. \A j, end : Answered(j, end).pc = "answer"
  BY DEF Answered, NoJob
<1>2. NoJob.pc = "idle"
  BY NoJobIsJob
<1> QED BY <1>1, <1>2, GoesOnBeside
       DEF OULookupFails, Respond, At, Idle, Answer, End, Origins

LEMMA PromoteStaffCalmly == ASSUME IInv, LoginInv, NEW h \in Handlers, PromoteStaff(h) PROVE LoginInv'
<1> PICK u : u = job[h].user
  OBVIOUS
<1> DEFINE b == job[h]
           j == [b EXCEPT !.role = "staff", !.approval = "approved"]
<1> PICK x : x = IF b.role # "staff" THEN "staff" ELSE user[u].role
  OBVIOUS
<1> PICK y : y = IF b.approval # "approved" THEN "approved" ELSE user[u].approval
  OBVIOUS
<1>1. b.pc = "ou" /\ UNCHANGED <<login, budget>> /\ Set(h, Elevated(j)) /\ ~Idle(h) /\ ~At(h, "attach")
  BY DEF PromoteStaff, At, Idle
<1>2. b \in Job /\ u \in UserIds
  BY <1>1, StaffTyped DEF Known
<1>3. j \in Job
  BY <1>2 DEF Job, Roles, Approvals
<1>4. Elevated(j).pc # "unlink"
  BY <1>3, NextPoints
<1>5. user' = [user EXCEPT ![u].role = x, ![u].approval = y] \/ user' = user
  BY DEF PromoteStaff
<1> HIDE DEF j
<1>6. CASE user' = [user EXCEPT ![u].role = x, ![u].approval = y]
  BY <1>1, <1>2, <1>4, <1>6, RoleKept, GoesOnBeside
<1>7. CASE user' = user
  BY <1>1, <1>4, <1>7, GoesOnBeside DEF Origins
<1> QED BY <1>5, <1>6, <1>7

LEMMA DemoteStaffCalmly == ASSUME IInv, LoginInv, NEW h \in Handlers, DemoteStaff(h) PROVE LoginInv'
<1> PICK u : u = job[h].user
  OBVIOUS
<1> DEFINE b == job[h]
           j == [b EXCEPT !.role = "student"]
<1>1. b.pc = "ou" /\ UNCHANGED <<login, budget>> /\ Set(h, Elevated(j)) /\ ~Idle(h) /\ ~At(h, "attach")
  BY DEF DemoteStaff, At, Idle
<1>2. b \in Job /\ u \in UserIds
  BY <1>1, StaffTyped DEF Known
<1>3. j \in Job
  BY <1>2 DEF Job, Roles
<1>4. Elevated(j).pc # "unlink"
  BY <1>3, NextPoints
<1>5. user' = [user EXCEPT ![u].role = "student"] \/ user' = user
  BY DEF DemoteStaff
<1>6. Origins
  BY <1>2, <1>5, RowsKept
<1> HIDE DEF j
<1> QED BY <1>1, <1>4, <1>6, GoesOnBeside

LEMMA ElevateCalmly == ASSUME IInv, LoginInv, NEW h \in Handlers, Elevate(h) PROVE LoginInv'
<1> PICK u : u = job[h].user
  OBVIOUS
<1> DEFINE b == job[h]
           j == Answered(b, "signedIn")
<1> PICK x : x = IF b.role # "admin" THEN "admin" ELSE user[u].role
  OBVIOUS
<1> PICK y : y = IF b.approval # "approved" THEN "approved" ELSE user[u].approval
  OBVIOUS
<1>1. b.pc = "elevate" /\ UNCHANGED <<login, budget>> /\ Set(h, j) /\ ~Idle(h) /\ ~At(h, "attach")
  BY DEF Elevate, At, Idle, Answer
<1>2. b \in Job /\ u \in UserIds
  BY <1>1, StaffTyped DEF Known
<1>3. j.pc # "unlink"
  BY DEF Answered, NoJob
<1>4. user' = [user EXCEPT ![u].role = x, ![u].approval = y] \/ user' = user
  BY DEF Elevate
<1> HIDE DEF j
<1>5. CASE user' = [user EXCEPT ![u].role = x, ![u].approval = y]
  BY <1>1, <1>2, <1>3, <1>5, RoleKept, GoesOnBeside
<1>6. CASE user' = user
  BY <1>1, <1>3, <1>6, GoesOnBeside DEF Origins
<1> QED BY <1>4, <1>5, <1>6

LEMMA LinkCalmly == ASSUME IInv, LoginInv, NEW u \in UserIds, NEW i \in Identities, Link(u, i) PROVE LoginInv'
<1>1. AtOnce("link") /\ login[i] = Nobody /\ login' = [login EXCEPT ![i] = u] /\ user' = user
  BY DEF Link
<1>2. \A k \in Identities : login[k] # Nobody => login'[k] = login[k]
  BY <1>1 DEF IInv, Tables
<1>3. \A v \in Known : HasLogin(v) => HasLogin(v)'
  BY <1>2, NobodyIsNoUser DEF HasLogin, Known
<1>4. Known' = Known /\ \A v \in Known : Owes(v)' <=> Owes(v)
  BY <1>1 DEF Known, Exists, Owes, Merged
<1> QED BY <1>1, <1>3, <1>4, AtOnceCalmly

\* Whoever has more than one login has another one.
LEMMA StartUnlinkCalmly ==
  ASSUME IInv, LoginInv, NEW h \in Handlers, NEW i \in Identities, StartUnlink(h, i)
  PROVE  LoginInv'
<1> DEFINE j == [NoJob EXCEPT !.pc = "unlink", !.ident = i]
           S == Logins(login[i])
<1>1. Cardinality(S) > 1 /\ Begin(h, "unlink", j)
  BY DEF StartUnlink
<1>2. i \in S
  BY DEF Logins
<1>3. \E k \in S : k # i
  <2> SUFFICES ASSUME S = {i} PROVE FALSE
    BY <1>2
  <2>1. Cardinality({i}) = 1
    BY FS_Singleton
  <2> HIDE DEF S
  <2> QED BY <1>1, <2>1
<1>4. \E k \in Identities : k # i /\ login[k] = login[i]
  BY <1>3 DEF Logins
<1>5. j \in Job /\ j.ident = i
  BY NoJobIsJob DEF NoJob, Job, Points
<1> HIDE DEF j
<1> QED BY <1>1, <1>4, <1>5, BeginsCalmly

LEMMA UnlinkCalmly == ASSUME IInv, LoginInv, NEW h \in Handlers, Unlink(h) PROVE LoginInv'
<1> PICK i : i = job[h].ident
  OBVIOUS
<1>1. /\ job[h].pc = "unlink" /\ ~Idle(h) /\ login' = [login EXCEPT ![i] = Nobody]
      /\ UNCHANGED <<user, budget>>
      /\ job' = [k \in Handlers |-> IF k = h \/ (At(k, "unlink") /\ job[k].ident = i)
                                      THEN NoJob ELSE job[k]]
  BY DEF Unlink, At, Idle
<1>2. job'[h].pc # "unlink" /\ \A g \in Handlers : g # h => job'[g] \in {job[g], NoJob}
  BY <1>1, NoJobIsJob
<1>3. Known' = Known /\ \A v \in Known : Owes(v)' <=> Owes(v)
  BY <1>1 DEF Known, Exists, Owes, Merged
<1>4. \A k \in Identities : k # i => login'[k] = login[k]
  BY <1>1 DEF IInv, Tables
<1>5. ASSUME Calm, NEW v \in Known, HasLogin(v) PROVE HasLogin(v)'
  <2>1. PICK k \in Identities : login[k] = v
    BY <1>5 DEF HasLogin
  <2>2. CASE k # i
    BY <1>4, <2>1, <2>2 DEF HasLogin
  <2>3. CASE k = i
    <3>1. Spare(h)
      BY <1>1, <1>5 DEF LoginInv, At
    <3>2. PICK m \in Identities : m # i /\ login[m] = v
      BY <2>1, <2>3, <3>1 DEF Spare
    <3> QED BY <1>4, <3>2 DEF HasLogin
  <2> QED BY <2>2, <2>3
<1> QED BY <1>1, <1>2, <1>3, <1>5, GoesOn DEF budget

LEMMA SignUpCalmly == ASSUME IInv, LoginInv, NEW h \in Handlers, SignUp(h) PROVE LoginInv'
<1> PICK u, i : u = NextId /\ i = job[h].ident
  OBVIOUS
<1>1. job[h].pc = "signUp" /\ ~Idle(h) /\ ~At(h, "attach") /\ UNCHANGED budget /\ Set(h, NoJob)
  BY DEF SignUp, At, Idle, End
<1>2. i \in Identities /\ job[h].email \in Emails
  BY <1>1, JobTyped DEF JobOK, SigningIn
<1>3. job'[h].pc # "unlink" /\ \A g \in Handlers : g # h => job'[g] = job[g]
  BY <1>1, NoJobIsJob DEF Set, IInv, JobsOK
<1>4. CASE /\ login[i] = Nobody /\ Insert(job[h].email, "approved", "student", "passphrase")
           /\ login' = [login EXCEPT ![i] = u]
  <2>1. Known' = Known \cup {u} /\ \A v \in UserIds : v # u => user'[v] = user[v]
    BY <1>2, <1>4, InsertIds DEF Approvals, Roles
  <2>2. login'[i] = u /\ \A k \in Identities : login[k] # Nobody => login'[k] = login[k]
    BY <1>2, <1>4 DEF IInv, Tables
  <2>3. HasLogin(u)' /\ \A v \in Known : HasLogin(v) => HasLogin(v)'
    BY <1>2, <2>2, NobodyIsNoUser DEF HasLogin, Known
  <2>4. \A v \in Known : v # u => (Owes(v)' => Owes(v))
    BY <2>1 DEF Owes, Merged, Known
  <2> QED BY <1>1, <1>3, <2>1, <2>3, <2>4, GoesOn DEF At, budget
<1>5. CASE UNCHANGED <<user, login>>
  BY <1>1, <1>5, NoJobIsJob, GoesOnBeside DEF Origins
<1> QED BY <1>4, <1>5 DEF SignUp

\* An import brings users who are owed no login.
LEMMA ImportedOweNothing ==
  ASSUME IInv, NEW e \in Emails, NEW role \in Roles, NEW via \in {"import", "sync"},
         Insert(e, "approved", role, via), login' = login
  PROVE  \A u \in Known' : Owes(u)' => u \in Known /\ Owes(u) /\ (HasLogin(u) => HasLogin(u)')
<1> PICK n : n = NextId
  OBVIOUS
<1>1. /\ Known' = Known \cup {n} /\ user'[n].via = via
      /\ \A v \in UserIds : v # n => user'[v] = user[v]
  BY InsertIds DEF Approvals
<1>2. ~Owes(n)'
  BY <1>1 DEF Owes
<1> QED BY <1>1, <1>2 DEF Owes, Merged, HasLogin, Known

LEMMA ImportCalmly == ASSUME IInv, LoginInv, NEW e \in Emails, Import(e) PROVE LoginInv'
<1>1. AtOnce("import") /\ Insert(e, "approved", "student", "import") /\ login' = login
  BY DEF Import
<1> QED BY <1>1, ImportedOweNothing, AtOnceCalmly DEF Roles

LEMMA SyncInsertCalmly == ASSUME IInv, LoginInv, NEW h \in Handlers, SyncInsert(h) PROVE LoginInv'
<1> PICK e : e = Some(job[h].todo)
  OBVIOUS
<1> DEFINE b == job[h]
           role == IF b.role = "staff" THEN "staff" ELSE RoleFor(e)
           t == b.todo \ {e}
           j == [b EXCEPT !.todo = t]
<1>1. b.pc = "insert" /\ ~Idle(h) /\ ~At(h, "attach") /\ UNCHANGED <<login, budget>>
  BY DEF SyncInsert, At, Idle
<1>2. b \in Job /\ e \in Emails
  BY <1>1, SyncTyped
<1>3. CASE Insert(e, "approved", role, "sync") /\ Set(h, SyncNext(j))
  <2>1. role \in Roles
    BY DEF RoleFor, Roles
  <2>2. j \in Job
    BY <1>2 DEF Job
  <2> HIDE DEF j, role
  <2>3. job'[h] = SyncNext(j) /\ \A g \in Handlers : g # h => job'[g] = job[g]
    BY <1>3 DEF Set, IInv, JobsOK
  <2>4. job'[h].pc # "unlink"
    BY <2>2, <2>3, NextPoints
  <2>5. \A u \in Known' : Owes(u)' => u \in Known /\ Owes(u) /\ (HasLogin(u) => HasLogin(u)')
    BY <1>1, <1>2, <1>3, <2>1, ImportedOweNothing
  <2> QED BY <1>1, <2>3, <2>4, <2>5, GoesOn DEF At, budget
<1>4. CASE End(h) /\ UNCHANGED user
  BY <1>1, <1>4, NoJobIsJob, GoesOnBeside DEF Origins, End
<1> QED BY <1>3, <1>4 DEF SyncInsert

LEMMA StartSignInCalmly ==
  ASSUME IInv, LoginInv, NEW h \in Handlers, NEW i \in Identities, StartSignIn(h, i)
  PROVE  LoginInv'
<1> PICK e, u : e = i[2] /\ u = login[i]
  OBVIOUS
<1> DEFINE j == [NoJob EXCEPT !.pc = "load", !.ident = i, !.email = e, !.user = u]
           k == [NoJob EXCEPT !.pc = "match", !.ident = i, !.email = e]
<1>1. e \in Emails /\ u \in UserIds \cup {Nobody}
  BY SignInAssumption DEF IInv, Tables, Known
<1>2. j \in Job /\ j.pc = "load"
  BY ZenonT(60), <1>1, NoJobIsJob DEF Job, Points, NoJob
<1>3. k \in Job /\ k.pc = "match"
  BY ZenonT(60), <1>1, NoJobIsJob DEF Job, Points, NoJob
<1>4. Begin(h, "signIn", IF u # Nobody THEN j ELSE k)
  BY DEF StartSignIn
<1> HIDE DEF j, k
<1> QED BY <1>2, <1>3, <1>4, BeginsCalmly

LEMMA StartSignUpCalmly ==
  ASSUME IInv, LoginInv, NEW h \in Handlers, NEW e \in Emails, StartSignUp(h, e)
  PROVE  LoginInv'
<1> DEFINE j == [NoJob EXCEPT !.pc = "signUp", !.ident = <<"username", e>>, !.email = e]
<1>1. Begin(h, "signUp", j) /\ <<"username", e>> \in Identities
  BY DEF StartSignUp
<1>2. j \in Job /\ j.pc = "signUp"
  BY ZenonT(60), <1>1, NoJobIsJob DEF Job, Points, NoJob
<1> HIDE DEF j
<1> QED BY <1>1, <1>2, BeginsCalmly

LEMMA StartSyncCalmly ==
  ASSUME IInv, LoginInv, NEW h \in Handlers, NEW role \in {"staff", "student"},
         NEW listed \in SUBSET Emails, StartSync(h, role, listed)
  PROVE  LoginInv'
<1> DEFINE j == [NoJob EXCEPT !.role = role, !.listed = listed, !.todo = listed]
           k == SyncNext(j)
<1>1. Begin(h, "sync", k)
  BY DEF StartSync
<1>2. j \in Job
  BY ZenonT(60), NoJobIsJob DEF Job, Roles, NoJob
<1> HIDE DEF j
<1>3. k \in Job /\ k.pc # "unlink"
  BY <1>2, NextPoints DEF SyncNext, Job, Points
<1> HIDE DEF k
<1> QED BY <1>1, <1>3, BeginsCalmly

LEMMA StartManualMergeCalmly ==
  ASSUME IInv, LoginInv, NEW h \in Handlers, NEW s \in UserIds, NEW n \in UserIds,
         StartManualMerge(h, s, n)
  PROVE  LoginInv'
<1> DEFINE j == [NoJob EXCEPT !.pc = "record", !.user = s, !.other = n]
<1>1. Begin(h, "manualMerge", j)
  BY DEF StartManualMerge
<1>2. j \in Job /\ j.pc = "record"
  BY ZenonT(60), NoJobIsJob DEF Job, Points
<1> HIDE DEF j
<1> QED BY <1>1, <1>2, BeginsCalmly

LEMMA SyncFindCalmly == ASSUME IInv, LoginInv, NEW h \in Handlers, SyncFind(h) PROVE LoginInv'
<1> PICK e : e = Some(job[h].todo)
  OBVIOUS
<1> DEFINE b == job[h]
<1>1. b.pc = "find" /\ UNCHANGED <<user, login, budget>> /\ ~Idle(h) /\ ~At(h, "attach")
  BY DEF SyncFind, At, Idle
<1>2. b \in Job
  BY JobTyped
<1>3. \E j : Set(h, j) /\ j.pc # "unlink"
  <2>1. CASE Set(h, [b EXCEPT !.pc = "insert"])
    <3>1. [b EXCEPT !.pc = "insert"].pc = "insert"
      BY <1>2 DEF Job
    <3> QED BY <2>1, <3>1
  <2>2. ASSUME NEW u \in OwnerOf(e),
               Set(h, [b EXCEPT !.pc = "patch", !.user = u, !.reactivate = ~user[u].active,
                                !.then = SyncRole(u, b.role, e)])
        PROVE  \E j : Set(h, j) /\ j.pc # "unlink"
    <3> DEFINE j == [b EXCEPT !.pc = "patch", !.user = u, !.reactivate = ~user[u].active,
                              !.then = SyncRole(u, b.role, e)]
    <3>1. j.pc = "patch"
      BY <1>2 DEF Job
    <3> HIDE DEF j
    <3>2. Set(h, j)
      BY <2>2 DEF j
    <3> QED BY <3>1, <3>2
  <2> QED BY <2>1, <2>2 DEF SyncFind
<1>4. Origins
  BY <1>1 DEF Origins
<1> QED BY <1>1, <1>3, <1>4, GoesOnBeside

LEMMA SyncGoesOn ==
  ASSUME NEW b \in Job, NEW t \in SUBSET Emails
  PROVE  [b EXCEPT !.todo = t, !.user = Nobody, !.reactivate = FALSE, !.then = "none"] \in Job
BY DEF Job

LEMMA SyncPatchCalmly == ASSUME IInv, LoginInv, NEW h \in Handlers, SyncPatch(h) PROVE LoginInv'
<1> DEFINE b == job[h]
<1> PICK u, e, t : u = b.user /\ e = Some(b.todo) /\ t = b.todo \ {e}
  OBVIOUS
<1> PICK x, y : x = (user[u].active \/ b.reactivate) /\ y = (IF b.then = "none" THEN user[u].role ELSE b.then)
  OBVIOUS
<1> DEFINE j == [b EXCEPT !.todo = t, !.user = Nobody, !.reactivate = FALSE, !.then = "none"]
<1>1. b.pc = "patch" /\ UNCHANGED <<login, budget>> /\ Set(h, SyncNext(j)) /\ ~At(h, "attach")
  BY DEF SyncPatch, At
<1>2. ~Idle(h) /\ b \in Job /\ u \in UserIds
  BY <1>1, SyncTyped DEF JobOK, KnownIn
<1>3. user' = [user EXCEPT ![u].active = x, ![u].role = y]
  BY DEF SyncPatch
<1>4. t \subseteq Emails
  BY <1>2 DEF Job
<1>5. j \in Job
  BY <1>2, <1>4, SyncGoesOn
<1>6. SyncNext(j).pc # "unlink"
  BY <1>5, NextPoints
<1> HIDE DEF j
<1>7. Origins
  BY <1>2, <1>3, RowsKept
<1> QED BY <1>1, <1>2, <1>6, <1>7, GoesOnBeside

LEMMA FindUnseenCalmly == ASSUME IInv, LoginInv, NEW h \in Handlers, FindUnseen(h) PROVE LoginInv'
<1> DEFINE b == job[h]
<1> PICK s : s = {u \in Known : /\ user[u].active /\ user[u].role = b.role
                                /\ Merged(u) \/ user[u].email \notin b.listed}
  OBVIOUS
<1>1. b.pc = "unseen" /\ UNCHANGED <<user, login, budget>> /\ ~Idle(h) /\ ~At(h, "attach")
  BY DEF FindUnseen, At, Idle
<1>2. Set(h, NoJob) \/ Set(h, [b EXCEPT !.pc = "drop", !.drops = s])
  BY DEF FindUnseen, End
<1>3. [b EXCEPT !.pc = "drop", !.drops = s].pc = "drop"
  BY JobTyped DEF Job
<1>4. Origins
  BY <1>1 DEF Origins
<1> QED BY <1>1, <1>2, <1>3, <1>4, NoJobIsJob, GoesOnBeside

LEMMA DropCalmly == ASSUME IInv, LoginInv, NEW h \in Handlers, Drop(h) PROVE LoginInv'
<1> DEFINE b == job[h]
<1> PICK u, s : u = Some(b.drops) /\ s = b.drops \ {u}
  OBVIOUS
<1>1. /\ b.pc = "drop" /\ UNCHANGED <<login, budget>> /\ ~Idle(h) /\ ~At(h, "attach")
      /\ user' = [user EXCEPT ![u].active = FALSE]
  BY DEF Drop, At, Idle
<1>2. Set(h, NoJob) \/ Set(h, [b EXCEPT !.drops = s])
  BY DEF Drop, End
<1>3. [b EXCEPT !.drops = s].pc = "drop"
  BY <1>1, JobTyped DEF Job
<1>4. b.drops # {} /\ b.drops \subseteq UserIds
  BY <1>1, JobTyped DEF JobOK, KnownIn
<1>5. u \in UserIds
  BY <1>4 DEF Some
<1>6. Origins
  BY <1>1, <1>5, RowsKept
<1> QED BY <1>1, <1>2, <1>3, <1>6, NoJobIsJob, GoesOnBeside

LEMMA DecidedCalmly ==
  ASSUME IInv, LoginInv, NEW op, AtOnce(op), Origins, UNCHANGED login
  PROVE  LoginInv'
<1>1. Known' = Known /\ \A u \in Known : Owes(u)' <=> Owes(u)
  BY OriginsOwe
<1>2. \A u \in Known : HasLogin(u)' <=> HasLogin(u)
  BY DEF HasLogin
<1> QED BY <1>1, <1>2, AtOnceCalmly

LEMMA JudgeCalmly ==
  ASSUME IInv, LoginInv, NEW u \in UserIds,
         Approve(u) \/ Delete(u) \/ \E permanent \in BOOLEAN : Deny(u, permanent)
  PROVE  LoginInv'
<1>1. CASE Approve(u)
  <2>1. AtOnce("approve") /\ UNCHANGED login /\ user' = [user EXCEPT ![u].approval = "approved"]
    BY <1>1 DEF Approve
  <2>2. Origins
    BY <2>1, RowsKept
  <2> QED BY <2>1, <2>2, DecidedCalmly
<1>2. CASE Delete(u)
  <2>1. AtOnce("delete") /\ UNCHANGED login /\ user' = [user EXCEPT ![u].active = FALSE]
    BY <1>2 DEF Delete
  <2>2. Origins
    BY <2>1, RowsKept
  <2> QED BY <2>1, <2>2, DecidedCalmly
<1>3. ASSUME NEW permanent \in BOOLEAN, Deny(u, permanent) PROVE LoginInv'
  <2> PICK y : y = IF permanent THEN "permanent" ELSE "rejected"
    OBVIOUS
  <2>1. AtOnce("deny") /\ UNCHANGED login /\ user' = [user EXCEPT ![u].active = FALSE, ![u].approval = y]
    BY <1>3 DEF Deny
  <2>2. Origins
    BY <2>1, RowsKept
  <2> QED BY <2>1, <2>2, DecidedCalmly
<1> QED BY <1>1, <1>2, <1>3

LEMMA DecideCalmly ==
  ASSUME IInv, LoginInv, NEW p \in Pairs, NEW status, Decide(p, status) PROVE LoginInv'
<1>1. AtOnce("decide") /\ UNCHANGED <<user, login>>
  BY DEF Decide
<1>2. Origins
  BY <1>1 DEF Origins
<1> QED BY <1>1, <1>2, DecidedCalmly

\* Whoever is merged away is owed no login any more; the logins go to the survivor.
LEMMA MoveOwes ==
  ASSUME IInv, NEW p, NEW s \in Known, NEW n \in Known, s # n, Move(p, s, n)
  PROVE  /\ Known' = Known
         /\ \A u \in Known : Owes(u)' => Owes(u) /\ (HasLogin(u) => HasLogin(u)')
<1> PICK l : l = Parked(s, n)
  OBVIOUS
<1> DEFINE row == [user[n] EXCEPT !.active = FALSE, !.parked = l]
<1>1. /\ user' = [user EXCEPT ![n].active = FALSE, ![n].parked = l]
      /\ login' = [i \in Identities |-> IF login[i] = n THEN s ELSE login[i]]
  BY DEF Move
<1>2. user \in [UserIds -> User] /\ user[n] \in User /\ user[n].parked \in Seq(UserIds) /\ s \in UserIds /\ n \in UserIds
  BY DEF IInv, Tables, Known, User
<1>3. user' = [user EXCEPT ![n] = row]
  BY <1>1, <1>2
<1>4. l # <<>>
  BY <1>2 DEF Parked
<1>5. row.via = user[n].via /\ row.parked = l
  BY <1>2 DEF User
<1> HIDE DEF row
<1>6. user'[n] = row /\ \A v \in UserIds : v # n => user'[v] = user[v]
  BY <1>2, <1>3
<1>7. Known' = Known
  BY <1>5, <1>6 DEF Known, Exists
<1>8. ASSUME NEW u \in Known, Owes(u)' PROVE Owes(u) /\ (HasLogin(u) => HasLogin(u)')
  <2>1. u # n
    BY <1>4, <1>5, <1>6, <1>8 DEF Owes, Merged
  <2>2. Owes(u)
    BY <1>6, <1>8, <2>1 DEF Owes, Merged, Known
  <2>3. ASSUME NEW i \in Identities, login[i] = u PROVE login'[i] = u
    BY <1>1, <2>1, <2>3
  <2> QED BY <2>2, <2>3 DEF HasLogin
<1> QED BY <1>7, <1>8

LEMMA ApproveMergeCalmly ==
  ASSUME IInv, LoginInv, NEW p \in Pairs, NEW s \in UserIds, ApproveMerge(p, s) PROVE LoginInv'
<1> PICK n : n = IF s = p[1] THEN p[2] ELSE p[1]
  OBVIOUS
<1>1. AtOnce("merge") /\ s \in {p[1], p[2]} /\ Move(p, s, n)
  BY DEF ApproveMerge
<1>2. merge[p] # "none" /\ p[1] # p[2] /\ Suggested
  BY <1>1 DEF Move, Undecided, Pairs, UserIds, IInv, Tables
<1>3. s \in Known /\ n \in Known /\ s # n
  BY <1>1, <1>2 DEF Suggested
<1> QED BY <1>1, <1>3, MoveOwes, AtOnceCalmly

LEMMA RecordMergeCalmly == ASSUME IInv, LoginInv, NEW h \in Handlers, RecordMerge(h) PROVE LoginInv'
<1>1. job[h].pc = "record" /\ UNCHANGED <<user, login, budget>> /\ ~Idle(h) /\ ~At(h, "attach")
  BY DEF RecordMerge, At, Idle
<1>2. Set(h, NoJob) \/ Set(h, [job[h] EXCEPT !.pc = "approve"])
  BY DEF RecordMerge, End, Go
<1>3. [job[h] EXCEPT !.pc = "approve"].pc = "approve"
  BY JobTyped DEF Job
<1>4. Origins
  BY <1>1 DEF Origins
<1> QED BY <1>1, <1>2, <1>3, <1>4, NoJobIsJob, GoesOnBeside

LEMMA FinishMergeCalmly == ASSUME IInv, LoginInv, NEW h \in Handlers, FinishMerge(h) PROVE LoginInv'
<1> PICK s, n, p : s = job[h].user /\ n = job[h].other /\ p = Pair(s, n)
  OBVIOUS
<1>1. job[h].pc = "approve" /\ Set(h, NoJob) /\ UNCHANGED budget
  BY DEF FinishMerge, At, End
<1>2. ~Idle(h) /\ s \in Known /\ n \in Known /\ s # n
  BY <1>1, ManualTyped
<1>3. CASE Move(p, s, n)
  <2>1. /\ Known' = Known
        /\ \A u \in Known : Owes(u)' => Owes(u) /\ (HasLogin(u) => HasLogin(u)')
    BY <1>2, <1>3, MoveOwes
  <2>2. job'[h].pc # "unlink" /\ \A g \in Handlers : g # h => job'[g] = job[g]
    BY <1>1, NoJobIsJob DEF Set, IInv, JobsOK
  <2> QED BY <1>1, <1>2, <2>1, <2>2, GoesOn DEF budget
<1>4. CASE UNCHANGED <<user, login>>
  BY <1>1, <1>2, <1>4, NoJobIsJob, GoesOnBeside DEF Origins, At
<1> QED BY <1>3, <1>4 DEF FinishMerge

\* Nothing of it changes; or it is no longer calm.
LEMMA ScanCalmly == ASSUME LoginInv, UNCHANGED <<user, login, job, budget>> PROVE LoginInv'
BY DEF LoginInv, Calm, budget, Known, Exists, Owes, Merged, HasLogin, Attaching, At, Spare

LEMMA MishapCalmly == ASSUME IInv, fails' = fails + 1 PROVE LoginInv'
BY DEF LoginInv, Calm, IInv, Counters

LEMMA StartCalmly == ASSUME IInv, LoginInv, NEW h \in Handlers, Start(h) PROVE LoginInv'
<1>1. ASSUME NEW i \in Identities, StartSignIn(h, i) \/ StartUnlink(h, i) PROVE LoginInv'
  BY <1>1, StartSignInCalmly, StartUnlinkCalmly
<1>2. ASSUME NEW e \in Emails, StartSignUp(h, e) PROVE LoginInv'
  BY <1>2, StartSignUpCalmly
<1>3. ASSUME NEW listed \in SUBSET StaffEmails, StartSync(h, "staff", listed) PROVE LoginInv'
  BY <1>3, StartSyncCalmly, SignInAssumption
<1>4. ASSUME NEW listed \in SUBSET Emails, StartSync(h, "student", listed) PROVE LoginInv'
  BY <1>4, StartSyncCalmly
<1>5. ASSUME NEW s \in UserIds, NEW n \in UserIds, StartManualMerge(h, s, n) PROVE LoginInv'
  BY <1>5, StartManualMergeCalmly
<1> QED BY <1>1, <1>2, <1>3, <1>4, <1>5 DEF Start

LEMMA AdministerCalmly == ASSUME IInv, LoginInv, Administer PROVE LoginInv'
<1>1. ASSUME NEW u \in UserIds,
             Approve(u) \/ Delete(u) \/ \E permanent \in BOOLEAN : Deny(u, permanent)
      PROVE  LoginInv'
  BY <1>1, JudgeCalmly
<1>2. ASSUME NEW u \in UserIds, NEW i \in Identities, Link(u, i) PROVE LoginInv'
  BY <1>2, LinkCalmly
<1>3. ASSUME NEW e \in Emails, Import(e) PROVE LoginInv'
  BY <1>3, ImportCalmly
<1>4. ASSUME NEW p \in Pairs, NEW s \in UserIds, ApproveMerge(p, s) PROVE LoginInv'
  BY <1>4, ApproveMergeCalmly
<1>5. ASSUME NEW p \in Pairs, NEW status \in {"rejected", "deferred"}, Decide(p, status) PROVE LoginInv'
  BY <1>5, DecideCalmly
<1> QED BY <1>1, <1>2, <1>3, <1>4, <1>5 DEF Administer

LEMMA StepCalmly == ASSUME IInv, LoginInv, NEW h \in Handlers, Step(h) PROVE LoginInv'
<1>1. CASE \/ Load(h) \/ Match(h) \/ Reenter(h) \/ CreateUser(h) \/ Attach(h)
           \/ OULookupFails(h) \/ PromoteStaff(h) \/ DemoteStaff(h) \/ Elevate(h) \/ Respond(h)
  BY <1>1, LoadCalmly, MatchCalmly, ReenterCalmly, CreateUserCalmly, AttachCalmly, AnswersCalmly,
     PromoteStaffCalmly, DemoteStaffCalmly, ElevateCalmly
<1>2. CASE \/ Unlink(h) \/ SignUp(h)
           \/ SyncFind(h) \/ SyncInsert(h) \/ SyncPatch(h) \/ FindUnseen(h) \/ Drop(h)
           \/ RecordMerge(h) \/ FinishMerge(h)
  BY <1>2, UnlinkCalmly, SignUpCalmly, SyncFindCalmly, SyncInsertCalmly, SyncPatchCalmly,
     FindUnseenCalmly, DropCalmly, RecordMergeCalmly, FinishMergeCalmly
<1> QED BY <1>1, <1>2 DEF Step

LEMMA NextCalmly == ASSUME IInv, LoginInv, [Next]_vars PROVE LoginInv'
<1>1. CASE \E h \in Handlers : Start(h) \/ Step(h)
  BY <1>1, StartCalmly, StepCalmly
<1>2. CASE \E h \in Handlers : Fails(h)
  BY <1>2, MishapCalmly DEF Fails
<1>3. CASE Crash
  BY <1>3, MishapCalmly DEF Crash
<1>4. CASE \E u \in UserIds : Scan(u)
  <2>1. UNCHANGED <<user, login, job, budget>>
    BY <1>4 DEF Scan, ScanCandidates, Suggest, Pass, ScanAborts
  <2> QED BY <2>1, ScanCalmly
<1>5. CASE UNCHANGED vars
  <2>1. UNCHANGED <<user, login, job, budget>>
    BY <1>5 DEF vars, budget
  <2> QED BY <2>1, ScanCalmly
<1> QED BY <1>1, <1>2, <1>3, <1>4, <1>5, AdministerCalmly DEF Next

\* Before the first request nobody has come by signing in or up.
LEMMA InitCalmly == ASSUME Init PROVE LoginInv
<1>1. \A u \in UserIds : user[u].via \in {"none", "import"}
  <2> PICK S \in {{}, Emails} : user = InitUsers(S)
    BY DEF Init
  <2>1. NoUser.via = "none" /\ \A e : [NoUser EXCEPT !.email = e, !.active = TRUE,
                                              !.approval = "approved", !.via = "import"].via = "import"
    BY DEF NoUser
  <2> QED BY <2>1 DEF InitUsers
<1>2. \A h \in Handlers : ~At(h, "unlink")
  BY NoJobIsJob DEF Init, At
<1> QED BY <1>1, <1>2 DEF LoginInv, Owes, Known

\* When requests neither overlap nor fail and none is under way, whoever came by signing
\* in or up and was not merged away has a login: LoginService.delete keeps the last one
\* of every user, and a merge hands over what it takes.
THEOREM LoginsAreKept == Spec => []KeepsALogin
<1>1. Init => LoginInv
  BY InitCalmly
<1>2. IInv /\ LoginInv /\ [Next]_vars => LoginInv'
  BY NextCalmly
<1>3. IInv /\ LoginInv => KeepsALogin
  <2> SUFFICES ASSUME IInv, LoginInv, Calm, Quiet, NEW u \in Known, Owes(u) PROVE Logins(u) # {}
    BY DEF KeepsALogin, Calm, Owes
  <2>1. ~Attaching(u)
    BY DEF Attaching, Quiet, At
  <2> QED BY <2>1 DEF LoginInv, HasLogin, Logins
<1> QED BY <1>1, <1>2, <1>3, Always, PTL DEF Spec
=============================================================================
