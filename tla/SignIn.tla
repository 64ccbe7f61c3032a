------------------------------- MODULE SignIn -------------------------------
(***************************************************************************)
(* Who is who: User and Login rows as the sign-in handler, account linking, *)
(* passphrase sign-up, the Workspace and Pike13 imports, approval and       *)
(* denial, the merge scan and account merges leave them.                    *)
(*                                                                          *)
(* An identity is a provider and the address the provider vouches for, and  *)
(* a Login row is found by its identity.  A request is a record in job: pc  *)
(* is the statement it executes next, the rest is what it has read; a user  *)
(* row it read is used as it was then.  The merge scan of a new user runs   *)
(* behind the request that created it.                                      *)
(***************************************************************************)
EXTENDS Integers, Sequences, FiniteSets

CONSTANTS
  Emails,        \* addresses
  StaffEmails,   \* those of @jointheleague.org; the others are @students.jointheleague.org
  AdminEmails,   \* ADMIN_EMAILS
  Identities,    \* pairs of a provider and the address it vouches for; "google" is the
                 \* provider with an OU look-up, "username" that of passphrase sign-ups
  MaxConcurrent, \* requests that can be under way at the same time
  Ops,           \* the requests they are
  MaxUser,       \* bounds: users that can be created,
  MaxOps,        \* requests begun,
  MaxMishaps     \* requests begun while another is under way, failing statements and crashes

AllOps == {"signIn", "link", "unlink", "signUp", "import", "sync", "approve", "deny",
           "delete", "merge", "manualMerge", "decide"}

ASSUME SignInAssumption ==
  /\ AdminEmails \subseteq StaffEmails /\ StaffEmails \subseteq Emails
  /\ \A i \in Identities : i[2] \in Emails
  /\ IsFiniteSet(Emails) /\ "none" \notin Emails
  /\ Ops \subseteq AllOps
  /\ MaxConcurrent \in Nat /\ MaxUser \in Nat /\ MaxOps \in Nat /\ MaxMishaps \in Nat

UserIds    == 1..MaxUser
Handlers   == 1..MaxConcurrent
Pairs      == {p \in UserIds \X UserIds : p[1] < p[2]}
Nobody     == 0
NoIdentity == <<"none", "none">>

VARIABLES
  user,   \* user[u]: the User with id u
  login,  \* login[i]: whose Login has identity i
  merge,  \* merge[p]: the status of the MergeSuggestion for pair p
  scan,   \* scan[u]: the merge scan of user u
  job,    \* the requests
  ops,    \* requests begun
  races,  \* those of them begun while another was under way
  fails,  \* failures so far
  out,    \* auxiliary: out[u] says whether u was removed or denied, and not let in since;
          \* "back" is a user denied permanently whom a Workspace listing made active again
  late    \* auxiliary: late[u] says that a merged-away user was given a login afterwards

vars    == <<user, login, merge, scan, job, ops, races, fails, out, late>>
history == <<out, late>>
budget  == <<ops, races, fails>>

\* parked: survivors in front of the address (merged:<survivor>:<address>), last one first
NoUser == [email |-> "none", parked |-> <<>>, active |-> FALSE, approval |-> "pending",
           role |-> "student", via |-> "none"]

NoScan == [state |-> "none", todo |-> {}]

\* ident, email: whose sign-in, which address
\* user, other:  the user row found; the one to merge into it
\* approval, role, reactivate: of that row when it was read, or what to write
\* then:   where a re-entry continues
\* listed: addresses Google listed
\* todo, drops: addresses and users a sync has still to visit
\* end:    how a sign-in ended
\* alone:  auxiliary: no other request since it began
NoJob == [pc |-> "idle", ident |-> NoIdentity, email |-> "none", user |-> Nobody,
          other |-> Nobody, approval |-> "none", role |-> "none", reactivate |-> FALSE,
          then |-> "none", listed |-> {}, todo |-> {}, drops |-> {}, end |-> "none",
          alone |-> TRUE]

----------------------------------------------------------------------------
(* Rows and requests *)

Exists(u)   == user[u].via # "none"
Known       == {u \in UserIds : Exists(u)}
Merged(u)   == user[u].parked # <<>>
Logins(u)   == {i \in Identities : login[i] = u}

\* Mutant: the address of a user merged away is left as it was.
OwnerOfUnparked(e) == {u \in Known : user[u].email = e}

\* findByEmail: the address of a user merged away is parked.
OwnerOf(e)  == {u \in Known : user[u].email = e /\ ~Merged(u)}

NextId      == Cardinality(Known) + 1

Usable(u)   == user[u].active /\ user[u].approval = "approved"

\* primary_email is unique.
Insert(e, approval, role, via) ==
  /\ OwnerOf(e) = {}
  /\ NextId \in UserIds
  /\ user' = [user EXCEPT ![NextId] =
                [email |-> e, parked |-> <<>>, active |-> TRUE, approval |-> approval,
                 role |-> role, via |-> via]]

At(h, pc)  == job[h].pc = pc
Set(h, j)  == job' = [job EXCEPT ![h] = j]
Go(h, pc)  == Set(h, [job[h] EXCEPT !.pc = pc])
End(h)     == Set(h, NoJob)
Answered(j, end) == [NoJob EXCEPT !.pc = "answer", !.ident = j.ident, !.user = j.user,
                                   !.end = end, !.alone = j.alone]
Answer(h, end) == Set(h, Answered(job[h], end))
Quiet      == \A h \in Handlers : At(h, "idle")

Disturb(jobs) == [h \in Handlers |-> IF jobs[h].pc = "idle" THEN jobs[h]
                                                      ELSE [jobs[h] EXCEPT !.alone = FALSE]]

Count ==
  /\ Quiet \/ races + fails < MaxMishaps
  /\ ops' = ops + 1
  /\ races' = IF Quiet THEN races ELSE races + 1
  /\ UNCHANGED fails

\* A request of several statements begins.
Begin(h, op, j) ==
  /\ op \in Ops /\ ops < MaxOps
  /\ At(h, "idle") /\ \A k \in Handlers : k < h => ~At(k, "idle")
  /\ job' = [Disturb(job) EXCEPT ![h] = [j EXCEPT !.alone = Quiet]]
  /\ Count
  /\ UNCHANGED <<user, login, merge, scan, history>>

\* A request that comes down to one transaction.
AtOnce(op) ==
  /\ op \in Ops /\ ops < MaxOps
  /\ job' = Disturb(job)
  /\ Count

NoteOut(u, how) == out' = [out EXCEPT ![u] = how]
KeepOut(u)      == IF out[u] \in {"denied", "back"} THEN "denied" ELSE "removed"
Listed(u)       == IF out[u] \in {"denied", "back"} THEN "back" ELSE "in"

----------------------------------------------------------------------------
(* Signing in *)

SignedInBy(i) == i[1] # "username"

\* Step 1: findByProvider.
StartSignIn(h, i) ==
  /\ SignedInBy(i)
  /\ Begin(h, "signIn",
       IF login[i] # Nobody
         THEN [NoJob EXCEPT !.pc = "load", !.ident = i, !.email = i[2], !.user = login[i]]
         ELSE [NoJob EXCEPT !.pc = "match", !.ident = i, !.email = i[2]])

\* What comes after user and login are there: the OU of a staff address.
Checked(j) ==
  IF j.ident[1] = "google" /\ j.email \in StaffEmails
    THEN IF j.role # "admin" THEN [j EXCEPT !.pc = "ou"] ELSE [j EXCEPT !.pc = "elevate"]
    ELSE Answered(j, "signedIn")

Continue(j) == IF j.then = "attach" THEN [j EXCEPT !.pc = "attach"] ELSE Checked(j)

\* applyDeniedReentry on the row just read.
Admit(h, j) ==
  IF user[j.user].active THEN Set(h, Continue(j))
  ELSE IF user[j.user].approval = "permanent"
    THEN Set(h, Answered(j, "denied"))
    ELSE Set(h, [j EXCEPT !.pc = "reenter"])

Found(h, u, then) ==
  Admit(h, [job[h] EXCEPT !.user = u, !.approval = user[u].approval, !.role = user[u].role,
                          !.then = then])

\* Step 2: the user of an existing login.
Load(h) ==
  /\ At(h, "load")
  /\ Found(h, job[h].user, "ou")
  /\ UNCHANGED <<user, login, merge, scan, budget, history>>

\* Mutant: a user who was removed is not found by address.
MatchActive(h) ==
  LET S == {u \in OwnerOf(job[h].email) : user[u].active} IN
  /\ At(h, "match")
  /\ IF S = {} THEN Go(h, "create") ELSE \E u \in S : Found(h, u, "attach")
  /\ UNCHANGED <<user, login, merge, scan, budget, history>>

\* Step 3a: findByEmail.
Match(h) ==
  LET S == OwnerOf(job[h].email) IN
  /\ At(h, "match")
  /\ IF S = {} THEN Go(h, "create") ELSE \E u \in S : Found(h, u, "attach")
  /\ UNCHANGED <<user, login, merge, scan, budget, history>>

\* Mutant: a user who comes back keeps the approval of before.
ReenterAsBefore(h) ==
  LET j == job[h] IN
  /\ At(h, "reenter")
  /\ user' = [user EXCEPT ![j.user].active = TRUE]
  /\ Set(h, Continue(j))
  /\ UNCHANGED <<login, merge, scan, budget, history>>

\* A removed user goes back into the approval queue.
Reenter(h) ==
  LET j == job[h] IN
  /\ At(h, "reenter")
  /\ user' = [user EXCEPT ![j.user].active = TRUE, ![j.user].approval = "pending"]
  /\ Set(h, Continue([j EXCEPT !.approval = "pending"]))
  /\ UNCHANGED <<login, merge, scan, budget, history>>

\* Mutant: the sign-in does not wait for the insertion, which never happens.
CreateUserLater(h) ==
  /\ At(h, "create")
  /\ Set(h, [job[h] EXCEPT !.pc = "attach", !.user = NextId, !.approval = "pending",
                           !.role = "student", !.then = "scan"])
  /\ UNCHANGED <<user, login, merge, scan, budget, history>>

\* Step 3b: a new user, unless somebody else has inserted the address meanwhile.
CreateUser(h) ==
  LET j == job[h] IN
  /\ At(h, "create")
  /\ \/ /\ Insert(j.email, "pending", "student", "social")
        /\ Set(h, [j EXCEPT !.pc = "attach", !.user = NextId, !.approval = "pending",
                            !.role = "student", !.then = "scan"])
     \/ /\ OwnerOf(j.email) # {}
        /\ Answer(h, "failed")
        /\ UNCHANGED user
  /\ UNCHANGED <<login, merge, scan, budget, history>>

\* Step 3c: the login; the merge scan of a new user starts once it is there.
Attach(h) ==
  LET j == job[h] IN
  /\ At(h, "attach")
  /\ IF login[j.ident] = Nobody
       THEN /\ login' = [login EXCEPT ![j.ident] = j.user]
            /\ Set(h, Checked(j))
            /\ scan' = IF j.then = "scan" THEN [scan EXCEPT ![j.user].state = "queued"] ELSE scan
            /\ late' = [late EXCEPT ![j.user] = @ \/ Merged(j.user)]
       ELSE /\ Answer(h, "failed")
            /\ UNCHANGED <<login, scan, late>>
  /\ UNCHANGED <<user, merge, budget, out>>

\* Step 4: what the directory says of a staff address, and the update it calls for.
Elevated(j) ==
  IF j.email \in AdminEmails /\ (j.role # "admin" \/ j.approval # "approved")
    THEN [j EXCEPT !.pc = "elevate"]
    ELSE Answered(j, "signedIn")

OULookupFails(h) ==
  /\ At(h, "ou")
  /\ Answer(h, "refused")
  /\ UNCHANGED <<user, login, merge, scan, budget, history>>

\* In the staff OU: staff, and approved.
PromoteStaff(h) ==
  LET j == job[h] IN
  /\ At(h, "ou")
  /\ IF j.role # "staff" \/ j.approval # "approved"
       THEN /\ user' = [user EXCEPT
                  ![j.user].role = IF j.role # "staff" THEN "staff" ELSE @,
                  ![j.user].approval = IF j.approval # "approved" THEN "approved" ELSE @]
            /\ NoteOut(j.user, "in")
       ELSE UNCHANGED <<user, out>>
  /\ Set(h, Elevated([j EXCEPT !.role = "staff", !.approval = "approved"]))
  /\ UNCHANGED <<login, merge, scan, budget, late>>

\* Not in the staff OU: a student.
DemoteStaff(h) ==
  LET j == job[h] IN
  /\ At(h, "ou")
  /\ user' = IF j.role = "staff" THEN [user EXCEPT ![j.user].role = "student"] ELSE user
  /\ Set(h, Elevated([j EXCEPT !.role = "student"]))
  /\ UNCHANGED <<login, merge, scan, budget, history>>

\* Step 5: ADMIN_EMAILS.
Elevate(h) ==
  LET j == job[h] IN
  /\ At(h, "elevate")
  /\ IF j.email \in AdminEmails /\ (j.role # "admin" \/ j.approval # "approved")
       THEN /\ user' = [user EXCEPT
                  ![j.user].role = IF j.role # "admin" THEN "admin" ELSE @,
                  ![j.user].approval = IF j.approval # "approved" THEN "approved" ELSE @]
            /\ NoteOut(j.user, "in")
       ELSE UNCHANGED <<user, out>>
  /\ Answer(h, "signedIn")
  /\ UNCHANGED <<login, merge, scan, budget, late>>

\* The session, or the redirect that says why there is none.
Respond(h) ==
  /\ At(h, "answer")
  /\ End(h)
  /\ UNCHANGED <<user, login, merge, scan, budget, history>>

----------------------------------------------------------------------------
(* Linking, unlinking, signing up with a passphrase *)

\* linkHandler for whoever's session it is, and an administrator's POST .../logins.
Link(u, i) ==
  /\ AtOnce("link")
  /\ SignedInBy(i)
  /\ Exists(u) /\ login[i] = Nobody
  /\ login' = [login EXCEPT ![i] = u]
  /\ late' = [late EXCEPT ![u] = @ \/ Merged(u)]
  /\ UNCHANGED <<user, merge, scan, out>>

\* Mutant: the login to go is not counted.
StartUnlinkAny(h, i) ==
  /\ login[i] # Nobody
  /\ Begin(h, "unlink", [NoJob EXCEPT !.pc = "unlink", !.ident = i])

\* LoginService.delete counts the logins of the user outside its transaction.
StartUnlink(h, i) ==
  /\ login[i] # Nobody
  /\ Cardinality(Logins(login[i])) > 1
  /\ Begin(h, "unlink", [NoJob EXCEPT !.pc = "unlink", !.ident = i])

\* Its transaction deletes by id: whoever else was about to delete the row finds none.
Unlink(h) ==
  LET i == job[h].ident IN
  /\ At(h, "unlink")
  /\ login' = [login EXCEPT ![i] = Nobody]
  /\ job' = [k \in Handlers |-> IF k = h \/ (At(k, "unlink") /\ job[k].ident = i)
                                  THEN NoJob ELSE job[k]]
  /\ UNCHANGED <<user, merge, scan, budget, history>>

\* handlePassphraseSignup, once the passphrase is found: the address must be free.
StartSignUp(h, e) ==
  /\ <<"username", e>> \in Identities
  /\ OwnerOf(e) = {}
  /\ \A i \in Identities : i[2] = e => login[i] = Nobody
  /\ Begin(h, "signUp", [NoJob EXCEPT !.pc = "signUp", !.ident = <<"username", e>>, !.email = e])

\* User and login in one transaction.
SignUp(h) ==
  LET j == job[h] IN
  /\ At(h, "signUp")
  /\ \/ /\ login[j.ident] = Nobody
        /\ Insert(j.email, "approved", "student", "passphrase")
        /\ login' = [login EXCEPT ![j.ident] = NextId]
     \/ /\ OwnerOf(j.email) # {} \/ login[j.ident] # Nobody
        /\ UNCHANGED <<user, login>>
  /\ End(h)
  /\ UNCHANGED <<merge, scan, budget, history>>

----------------------------------------------------------------------------
(* Imports *)

\* Pike13: a person nobody knows becomes a user, and is scanned.
Import(e) ==
  /\ AtOnce("import")
  /\ Insert(e, "approved", "student", "import")
  /\ scan' = [scan EXCEPT ![NextId].state = "queued"]
  /\ UNCHANGED <<login, merge, out, late>>

RoleFor(e) == IF e \in StaffEmails THEN "staff" ELSE "student"

SyncNext(j) == IF j.todo = {} THEN [j EXCEPT !.pc = "unseen"] ELSE [j EXCEPT !.pc = "find"]

\* syncStaff and syncStudents: role says which; listed is what Google answers.
StartSync(h, role, listed) ==
  Begin(h, "sync", SyncNext([NoJob EXCEPT !.role = role, !.listed = listed, !.todo = listed]))

Some(S) == CHOOSE x \in S : TRUE

\* What the row found is to be changed to; an administrator keeps the role.
SyncRole(u, role, e) ==
  LET new == IF role = "staff" THEN "staff" ELSE RoleFor(e) IN
  IF user[u].role \in {"admin", new} THEN "none" ELSE new

\* findByEmail for the next address.
SyncFind(h) ==
  LET j == job[h]
      e == Some(j.todo) IN
  /\ At(h, "find")
  /\ IF OwnerOf(e) = {}
       THEN Set(h, [j EXCEPT !.pc = "insert"])
       ELSE \E u \in OwnerOf(e) :
              Set(h, [j EXCEPT !.pc = "patch", !.user = u, !.reactivate = ~user[u].active,
                               !.then = SyncRole(u, j.role, e)])
  /\ UNCHANGED <<user, login, merge, scan, budget, history>>

\* Whoever inserted the address meanwhile makes the insertion, and so the sync, fail.
SyncInsert(h) ==
  LET j == job[h]
      e == Some(j.todo)
      role == IF j.role = "staff" THEN "staff" ELSE RoleFor(e) IN
  /\ At(h, "insert")
  /\ \/ /\ Insert(e, "approved", role, "sync")
        /\ Set(h, SyncNext([j EXCEPT !.todo = @ \ {e}]))
     \/ OwnerOf(e) # {} /\ End(h) /\ UNCHANGED user
  /\ UNCHANGED <<login, merge, scan, budget, history>>

\* The patch that was worked out from the row as it was read.
SyncPatch(h) ==
  LET j == job[h] IN
  /\ At(h, "patch")
  /\ user' = [user EXCEPT ![j.user].active = @ \/ j.reactivate,
                          ![j.user].role = IF j.then = "none" THEN @ ELSE j.then]
  /\ IF j.reactivate THEN NoteOut(j.user, Listed(j.user)) ELSE UNCHANGED out
  /\ Set(h, SyncNext([j EXCEPT !.todo = @ \ {Some(j.todo)}, !.user = Nobody,
                               !.reactivate = FALSE, !.then = "none"]))
  /\ UNCHANGED <<login, merge, scan, budget, late>>

\* _deactivateNotSeen: League users of that role that were not listed.
FindUnseen(h) ==
  LET j == job[h]
      S == {u \in Known : /\ user[u].active /\ user[u].role = j.role
                          /\ Merged(u) \/ user[u].email \notin j.listed} IN
  /\ At(h, "unseen")
  /\ IF S = {} THEN End(h) ELSE Set(h, [j EXCEPT !.pc = "drop", !.drops = S])
  /\ UNCHANGED <<user, login, merge, scan, budget, history>>

Drop(h) ==
  LET j == job[h]
      u == Some(j.drops) IN
  /\ At(h, "drop")
  /\ user' = [user EXCEPT ![u].active = FALSE]
  /\ NoteOut(u, KeepOut(u))
  /\ IF j.drops = {u} THEN End(h) ELSE Set(h, [j EXCEPT !.drops = @ \ {u}])
  /\ UNCHANGED <<login, merge, scan, budget, late>>

----------------------------------------------------------------------------
(* Decisions of administrators *)

Approve(u) ==
  /\ AtOnce("approve")
  /\ Exists(u) /\ user[u].approval # "approved"
  /\ user' = [user EXCEPT ![u].approval = "approved"]
  /\ NoteOut(u, "in")
  /\ UNCHANGED <<login, merge, scan, late>>

Deny(u, permanent) ==
  /\ AtOnce("deny")
  /\ Exists(u)
  /\ user' = [user EXCEPT ![u].active = FALSE,
                          ![u].approval = IF permanent THEN "permanent" ELSE "rejected"]
  /\ NoteOut(u, IF permanent THEN "denied" ELSE "removed")
  /\ UNCHANGED <<login, merge, scan, late>>

\* DELETE /admin/users/:id
Delete(u) ==
  /\ AtOnce("delete")
  /\ Exists(u)
  /\ user' = [user EXCEPT ![u].active = FALSE]
  /\ NoteOut(u, KeepOut(u))
  /\ UNCHANGED <<login, merge, scan, late>>

----------------------------------------------------------------------------
(* Merge suggestions *)

Pair(u, v) == IF u < v THEN <<u, v>> ELSE <<v, u>>
Undecided(p) == merge[p] \in {"pending", "deferred"}

\* The scan reads its candidates once.
ScanCandidates(u) ==
  LET S == {v \in Known \ {u} : user[v].active /\ user[v].role # "staff"} IN
  /\ scan[u].state = "queued"
  /\ scan' = [scan EXCEPT ![u] = IF S = {} THEN NoScan ELSE [state |-> "running", todo |-> S]]
  /\ UNCHANGED <<user, login, merge, job, budget, history>>

ScanAt(u, v) == v \in scan[u].todo /\ \A w \in scan[u].todo : v <= w

ScanDone(u, v) ==
  scan' = [scan EXCEPT ![u] = IF @.todo = {v} THEN NoScan
                                              ELSE [state |-> "running", todo |-> @.todo \ {v}]]

\* A rule or the model finds them alike, and the pair has no suggestion yet; or not.
Suggest(u, v) ==
  /\ ScanAt(u, v)
  /\ merge' = [merge EXCEPT ![Pair(u, v)] = IF @ = "none" THEN "pending" ELSE @]
  /\ ScanDone(u, v)
  /\ UNCHANGED <<user, login, job, budget, history>>

Pass(u, v) ==
  /\ ScanAt(u, v)
  /\ ScanDone(u, v)
  /\ UNCHANGED <<user, login, merge, job, budget, history>>

\* The key of the model is invalid.
ScanAborts(u) ==
  /\ scan[u].state = "running"
  /\ scan' = [scan EXCEPT ![u] = NoScan]
  /\ UNCHANGED <<user, login, merge, job, budget, history>>

\* A second user with an address that was already merged into s cannot be.
Parked(s, n)   == <<s>> \o user[n].parked
CanPark(s, n)  == \A u \in Known : user[u].email = user[n].email => user[u].parked # Parked(s, n)

\* approve: the suggestion is looked at, everything is moved and the suggestion
\* decided in one transaction, which fails if the parked address is taken.
Move(p, s, n) ==
  /\ Undecided(p) /\ CanPark(s, n)
  /\ user' = [user EXCEPT ![n].active = FALSE, ![n].parked = Parked(s, n)]
  /\ login' = [i \in Identities |-> IF login[i] = n THEN s ELSE login[i]]
  /\ merge' = [merge EXCEPT ![p] = "approved"]
  /\ late' = [late EXCEPT ![s] = @ \/ Merged(s), ![n] = FALSE]
  /\ UNCHANGED <<scan, out>>

ApproveMerge(p, s) ==
  /\ AtOnce("merge")
  /\ s \in {p[1], p[2]}
  /\ Move(p, s, IF s = p[1] THEN p[2] ELSE p[1])

\* Mutant: a decided suggestion can be decided again.
DecideAgain(p, status) ==
  /\ AtOnce("decide")
  /\ merge[p] # "none"
  /\ merge' = [merge EXCEPT ![p] = status]
  /\ UNCHANGED <<user, login, scan, out, late>>

\* reject and defer
Decide(p, status) ==
  /\ AtOnce("decide")
  /\ Undecided(p)
  /\ merge' = [merge EXCEPT ![p] = status]
  /\ UNCHANGED <<user, login, scan, out, late>>

\* manualMerge: both are active when it looks; s is to survive.
StartManualMerge(h, s, n) ==
  /\ s # n /\ Exists(s) /\ user[s].active /\ Exists(n) /\ user[n].active
  /\ Begin(h, "manualMerge", [NoJob EXCEPT !.pc = "record", !.user = s, !.other = n])

\* Its suggestion, new or reopened, in a transaction of its own.
RecordMerge(h) ==
  LET p == Pair(job[h].user, job[h].other) IN
  /\ At(h, "record")
  /\ IF merge[p] = "approved"
       THEN End(h) /\ UNCHANGED merge
       ELSE Go(h, "approve") /\ merge' = [merge EXCEPT ![p] = "pending"]
  /\ UNCHANGED <<user, login, scan, budget, history>>

\* approve, which may find it decided meanwhile, or fail.
FinishMerge(h) ==
  LET j == job[h]
      p == Pair(j.user, j.other) IN
  /\ At(h, "approve")
  /\ \/ Move(p, j.user, j.other)
     \/ ~(Undecided(p) /\ CanPark(j.user, j.other)) /\ UNCHANGED <<user, login, merge, scan, out, late>>
  /\ End(h)
  /\ UNCHANGED budget

----------------------------------------------------------------------------
(* Failures *)

\* A statement fails, or a remote call that nobody expects to.
Fails(h) ==
  /\ races + fails < MaxMishaps
  /\ job[h].pc \notin {"idle", "answer"}
  /\ End(h)
  /\ fails' = fails + 1
  /\ UNCHANGED <<user, login, merge, scan, ops, races, history>>

\* The process dies; sessions and rows remain.
Crash ==
  /\ races + fails < MaxMishaps
  /\ job' = [h \in Handlers |-> NoJob]
  /\ scan' = [u \in UserIds |-> NoScan]
  /\ fails' = fails + 1
  /\ UNCHANGED <<user, login, merge, ops, races, history>>

----------------------------------------------------------------------------
\* The table is empty, or an import has filled it with users of these addresses.
InitUsers(S) ==
  LET ids   == 1..Cardinality(S)
      email == CHOOSE f \in [ids -> S] : \A u, v \in ids : u # v => f[u] # f[v]
  IN  [u \in UserIds |->
         IF u \in ids THEN [NoUser EXCEPT !.email = email[u], !.active = TRUE,
                                         !.approval = "approved", !.via = "import"]
                     ELSE NoUser]

Init ==
  /\ \E S \in {{}, Emails} : Cardinality(S) <= MaxUser /\ user = InitUsers(S)
  /\ login = [i \in Identities |-> Nobody]
  /\ merge = [p \in Pairs |-> "none"]
  /\ scan = [u \in UserIds |-> NoScan]
  /\ job = [h \in Handlers |-> NoJob]
  /\ ops = 0 /\ races = 0 /\ fails = 0
  /\ out = [u \in UserIds |-> "in"]
  /\ late = [u \in UserIds |-> FALSE]

Start(h) ==
  \/ \E i \in Identities : StartSignIn(h, i) \/ StartUnlink(h, i)
  \/ \E e \in Emails : StartSignUp(h, e)
  \/ \E listed \in SUBSET StaffEmails : StartSync(h, "staff", listed)
  \/ \E listed \in SUBSET Emails : StartSync(h, "student", listed)
  \/ \E s, n \in UserIds : StartManualMerge(h, s, n)

Administer ==
  \/ \E u \in UserIds : \/ Approve(u) \/ Delete(u)
                        \/ \E permanent \in BOOLEAN : Deny(u, permanent)
                        \/ \E i \in Identities : Link(u, i)
  \/ \E e \in Emails : Import(e)
  \/ \E p \in Pairs : \/ \E s \in UserIds : ApproveMerge(p, s)
                      \/ \E status \in {"rejected", "deferred"} : Decide(p, status)

Step(h) ==
  \/ Load(h) \/ Match(h) \/ Reenter(h) \/ CreateUser(h) \/ Attach(h)
  \/ OULookupFails(h) \/ PromoteStaff(h) \/ DemoteStaff(h) \/ Elevate(h) \/ Respond(h)
  \/ Unlink(h) \/ SignUp(h)
  \/ SyncFind(h) \/ SyncInsert(h) \/ SyncPatch(h) \/ FindUnseen(h) \/ Drop(h)
  \/ RecordMerge(h) \/ FinishMerge(h)

Scan(u) ==
  \/ ScanCandidates(u)
  \/ \E v \in UserIds : Suggest(u, v) \/ Pass(u, v)
  \/ ScanAborts(u)

Next ==
  \/ \E h \in Handlers : Start(h) \/ Step(h) \/ Fails(h)
  \/ Administer
  \/ \E u \in UserIds : Scan(u)
  \/ Crash

Spec == Init /\ [][Next]_vars

----------------------------------------------------------------------------
(* Properties *)

Approvals == {"pending", "approved", "rejected", "permanent"}
Roles     == {"student", "staff", "admin"}
Statuses  == {"none", "pending", "deferred", "approved", "rejected"}
User == [email: Emails \cup {"none"}, parked: Seq(UserIds), active: BOOLEAN,
         approval: Approvals, role: Roles,
         via: {"none", "social", "passphrase", "import", "sync"}]
Points == {"idle", "load", "match", "reenter", "create", "attach", "ou", "elevate", "answer",
           "unlink", "signUp", "find", "insert", "patch", "unseen", "drop", "record", "approve"}
Job == [pc: Points, ident: Identities \cup {NoIdentity}, email: Emails \cup {"none"},
        user: UserIds \cup {Nobody}, other: UserIds \cup {Nobody},
        approval: Approvals \cup {"none"}, role: Roles \cup {"none"}, reactivate: BOOLEAN,
        then: {"none", "ou", "attach", "scan", "student", "staff"}, listed: SUBSET Emails,
        todo: SUBSET Emails, drops: SUBSET UserIds,
        end: {"none", "signedIn", "denied", "failed", "refused"}, alone: BOOLEAN]

\* Type correctness: nothing, a request included, refers to a user who is not there.
TypeOK ==
  /\ user \in [UserIds -> User]
  /\ login \in [Identities -> Known \cup {Nobody}]
  /\ merge \in [Pairs -> Statuses]
  /\ scan \in [UserIds -> [state: {"none", "queued", "running"}, todo: SUBSET UserIds]]
  /\ job \in [Handlers -> Job] /\ \A h \in Handlers : job[h].user \in Known \cup {Nobody}
  /\ ops \in Nat /\ races \in Nat /\ fails \in Nat
  /\ out \in [UserIds -> {"in", "removed", "denied", "back"}]
  /\ late \in [UserIds -> BOOLEAN]

\* When requests do not overlap: whoever was removed comes back only into the queue,
\* until an administrator, the staff OU or the Workspace listing lets them in - by
\* whichever identity, provider or address they return, whatever was merged, linked or
\* imported since.  Whoever was denied permanently stays inactive but for a Workspace
\* listing (DeniedGetsNoSession is about that), and is not approved even then, until
\* an administrator, or the staff OU, approves.
RemovedStaysOut ==
  races = 0 => \A u \in Known : /\ out[u] = "denied" => ~user[u].active
                           /\ out[u] \in {"removed", "back"} => ~Usable(u)

\* "Re-OAuth attempts are refused and the user never gets a session.  Only an admin
\* manually flipping the status can undo this" (routes/admin/users.ts).
DeniedGetsNoSession ==
  races = 0 => \A h \in Handlers : At(h, "answer") /\ job[h].end = "signedIn" =>
                                   out[job[h].user] \notin {"denied", "back"}

\* When requests do not overlap: nobody comes to, or finds, a user merged away,
\* unless a login was attached to it (or another user merged into it) afterwards.
MergedHoldsNothing ==
  races = 0 => \A u \in Known : Merged(u) /\ ~late[u] => ~user[u].active /\ Logins(u) = {}

\* When requests do not overlap and nothing fails: a user who came by signing in or
\* up can always do so again, for unlinking and merging leave a login.
KeepsALogin ==
  races = 0 /\ Quiet /\ fails = 0 =>
    \A u \in Known : user[u].via \in {"social", "passphrase"} /\ ~Merged(u) => Logins(u) # {}

\* Whatever crashes, failures and races left behind, a sign-in that nobody
\* disturbs never fails on it: it ends in the session of the active user
\* who holds the identity, or says denied of an inactive one, or the look-up failed.
SignInHeals ==
  \A h \in Handlers : At(h, "answer") /\ job[h].alone =>
    LET u == job[h].user IN
    /\ job[h].end # "failed"
    /\ job[h].end = "signedIn" => login[job[h].ident] = u /\ user[u].active
    /\ job[h].end = "denied" => user[u].approval = "permanent" /\ ~user[u].active

\* A pair is merged at most once, and neither a rejection nor a deferral undoes it,
\* however administrators and scans race; a rejection is reopened by a manual merge only.
DecisionFinal ==
  [][\A p \in Pairs :
       /\ merge[p] = "approved" => merge'[p] = "approved"
       /\ merge[p] = "rejected" /\ merge'[p] # "rejected" =>
            \E h \in Handlers : At(h, "record") /\ Pair(job[h].user, job[h].other) = p]_vars
=============================================================================
