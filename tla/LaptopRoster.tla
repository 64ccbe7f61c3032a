---------------------------- MODULE LaptopRoster ----------------------------
(***************************************************************************)
(* Laptop logins: the entries students/<id>/config.json in the roster      *)
(* bucket, which the laptops read, and the User rows they are written from. *)
(*                                                                          *)
(* A change of credentials, a removal or a merge commits first; the roster  *)
(* is reconciled afterwards, from a row read anew, and a user whose entry   *)
(* could not be written is marked dirty for the hourly laptop-roster-push   *)
(* job.  A request is a record in job: pc is the statement or remote call   *)
(* it makes next, the rest what it has read or still has to do.             *)
(*                                                                          *)
(* An entry is what it holds in password_hash.  display_name, the other     *)
(* thing an entry takes from the row, is left out: its change comes down to *)
(* a reconcile.  All names are valid roster ids.                            *)
(***************************************************************************)
EXTENDS Integers, FiniteSets

CONSTANTS
  Names,         \* valid roster ids
  MaxConcurrent, \* requests and jobs that can be under way at the same time
  Ops,           \* what they are
  MaxUser,       \* bounds: users,
  MaxOps,        \* requests begun,
  MaxMishaps     \* those begun while another is under way, failures and crashes

AllOps == {"own", "admin", "signUp", "remove", "flip", "merge", "pushNow", "pushAll",
           "import"}

ASSUME LaptopAssumption ==
  /\ "none" \notin Names
  /\ Ops \subseteq AllOps
  /\ MaxConcurrent \in Nat /\ MaxUser \in Nat \ {0} /\ MaxOps \in Nat /\ MaxMishaps \in Nat

UserIds  == 1..MaxUser
Handlers == 1..MaxConcurrent
\* What password_hash can be: nothing (no object), locked, what a laptop wrote, or the
\* salted hash of the password chosen in the k-th request.
None     == 0
Locked   == -1
Old      == 1
HashOf(k) == k + 1
Hashes   == {Old} \cup {HashOf(k) : k \in 1..MaxOps}
Nobody   == 0

VARIABLES
  user,    \* user[u]: the User with id u
  roster,  \* roster[n]: a hash, Locked, or None when there is no object
  job,     \* the requests
  ops,     \* requests begun
  races,   \* requests and job runs begun while another was under way
  fails,   \* failures so far
  foreign, \* auxiliary: names whose entry a laptop made and nobody imported
  blind,   \* auxiliary: some ownership check could not read the roster
  untold,  \* auxiliary: users (de)activated by a path that does not reconcile
  left,    \* auxiliary: names whose lock after a rename failed
  lost     \* auxiliary: a reconcile ended without leaving a mark, or never began

vars   == <<user, roster, job, ops, races, fails, foreign, blind, untold, left, lost>>
budget == <<ops, races, fails>>
notes  == <<foreign, blind, untold, left, lost>>

NoUser == [there |-> FALSE, name |-> "none", hash |-> None, active |-> FALSE, dirty |-> FALSE]

\* user, name, hash: whose credentials, and what they are to be; "none" and None leave it
\* other: the user to merge into user, and to reconcile after it
\* row, seen: the row and the entry a reconcile has read
\* todo, ids: users to reconcile after this one, roster ids still to import
\* old:   the name to lock after a rename
\* sound: auxiliary: a push-all that no other request and no failure has come across
NoJob == [op |-> "none", pc |-> "idle", user |-> Nobody, name |-> "none", hash |-> None,
          other |-> Nobody, row |-> NoUser, seen |-> None, todo |-> {}, ids |-> {},
          old |-> "none", sound |-> FALSE]

----------------------------------------------------------------------------
Known      == {u \in UserIds : user[u].there}
Holder(n)  == {u \in Known : user[u].name = n}
NextId     == Cardinality(Known) + 1
Eligible(r) == r.active /\ r.name # "none" /\ r.hash # None
Some(S)    == CHOOSE x \in S : TRUE

\* desiredEntry: None means that there is nothing to write.
DesiredEntry(r, existing) ==
  IF Eligible(r) THEN r.hash ELSE IF existing = None THEN None ELSE Locked

At(h, pc) == job[h].pc = pc
Set(h, j) == job' = [job EXCEPT ![h] = j]
Go(h, pc) == Set(h, [job[h] EXCEPT !.pc = pc])
Quiet     == \A h \in Handlers : At(h, "idle")

Disturbed(jobs) == [h \in Handlers |-> [jobs[h] EXCEPT !.sound = FALSE]]

Begin(h, j) ==
  /\ At(h, "idle") /\ \A k \in Handlers : k < h => ~At(k, "idle")
  /\ Quiet \/ races + fails < MaxMishaps
  /\ races' = IF Quiet THEN races ELSE races + 1
  /\ job' = [Disturbed(job) EXCEPT ![h] = [j EXCEPT !.sound = @ /\ Quiet]]
  /\ UNCHANGED <<user, roster, fails, notes>>

Request(h, op, j) ==
  /\ op \in Ops /\ ops < MaxOps
  /\ ops' = ops + 1
  /\ Begin(h, [j EXCEPT !.op = IF op \in {"signUp", "pushAll", "import"} THEN op ELSE "none"])

\* reconcile(u) is next.
Reconcile(j, u) == [j EXCEPT !.pc = "row", !.user = u]

\* A reconcile is over: the next one, or the old name; a push-all answers.
Return(j) ==
  IF j.other # Nobody
    THEN Reconcile([j EXCEPT !.other = Nobody, !.row = NoUser, !.seen = None], j.other)
  ELSE IF j.todo # {}
    THEN Reconcile([j EXCEPT !.todo = @ \ {Some(@)}, !.row = NoUser, !.seen = None],
                   Some(j.todo))
  ELSE IF j.old # "none" THEN [NoJob EXCEPT !.pc = "lockRead", !.old = j.old]
  ELSE IF j.op = "pushAll" THEN [NoJob EXCEPT !.pc = "done", !.sound = j.sound]
  ELSE NoJob

----------------------------------------------------------------------------
(* Changes that a reconcile follows *)

\* updateCredentials: a name is set once; without a password only the first time.
StartOwn(h, u, n, p) ==
  /\ n # "none" \/ p
  /\ user[u].active
  /\ user[u].hash # None \/ user[u].name = "none"
  /\ n = "none" \/ user[u].name \in {"none", n}
  /\ Request(h, "own", [NoJob EXCEPT !.pc = IF n = "none" THEN "commit" ELSE "check",
                                     !.user = u, !.name = n,
                                     !.hash = IF p THEN HashOf(ops + 1) ELSE None])

\* setCredentialsByAdmin
StartAdmin(h, u, n, p) ==
  /\ n # "none" \/ p
  /\ user[u].there
  /\ Request(h, "admin", [NoJob EXCEPT !.pc = IF n = "none" THEN "commit" ELSE "check",
                                       !.user = u, !.name = n,
                                       !.hash = IF p THEN HashOf(ops + 1) ELSE None,
                                       !.old = user[u].name])

\* handlePassphraseSignup
StartSignUp(h, n) ==
  /\ Holder(n) = {}
  /\ Request(h, "signUp", [NoJob EXCEPT !.pc = "check", !.name = n,
                                        !.hash = HashOf(ops + 1)])

\* rosterIdTakenByOther: is there an entry,
Check(h) ==
  /\ At(h, "check")
  /\ Go(h, IF roster[job[h].name] = None THEN "commit" ELSE "owner")
  /\ UNCHANGED <<user, roster, budget, notes>>

\* Mutant: an entry that belongs to nobody here is free.
TakenIfOwned(n, u) == Holder(n) # {} /\ Holder(n) # {u}

\* and whose is it?
Taken(n, u) == Holder(n) # {u}

Owner(h) ==
  LET j == job[h] IN
  /\ At(h, "owner")
  /\ IF Taken(j.name, j.user) THEN Set(h, NoJob) ELSE Go(h, "commit")
  /\ UNCHANGED <<user, roster, budget, notes>>

\* username is unique: the transaction fails when somebody else holds the name.
Commit(h) ==
  LET j == job[h]
      u == IF j.op = "signUp" THEN NextId ELSE j.user
      r == IF j.op = "signUp" THEN [NoUser EXCEPT !.there = TRUE, !.active = TRUE] ELSE user[u]
      name == IF j.name = "none" THEN r.name ELSE j.name IN
  /\ At(h, "commit")
  /\ \/ /\ j.name # "none" => Holder(j.name) \subseteq {u}
        /\ u \in UserIds
        /\ user' = [user EXCEPT ![u] = [r EXCEPT !.name = name,
                                                 !.hash = IF j.hash = None THEN @ ELSE j.hash]]
        /\ Set(h, [Reconcile(NoJob, u) EXCEPT !.old = IF name \in {j.old, "none"} THEN "none" ELSE j.old])
     \/ /\ j.name # "none" /\ ~(Holder(j.name) \subseteq {u})
        /\ Set(h, NoJob)
        /\ UNCHANGED user
  /\ UNCHANGED <<roster, budget, notes>>

\* DELETE /admin/users/:id and a denial.
StartRemove(h, u) ==
  /\ user[u].there
  /\ Request(h, "remove", [NoJob EXCEPT !.pc = "remove", !.user = u])

Deactivate(h) ==
  LET j == job[h] IN
  /\ At(h, "remove")
  /\ user' = [user EXCEPT ![j.user].active = FALSE]
  /\ Set(h, Reconcile(j, j.user))
  /\ UNCHANGED <<roster, budget, notes>>

\* Approval of a merge: s is to survive.
StartMerge(h, s, n) ==
  /\ s # n /\ user[s].there /\ user[n].there
  /\ Request(h, "merge", [NoJob EXCEPT !.pc = "merge", !.user = s, !.other = n])

\* Mutant: only the survivor's entry is reconciled.
AlsoReconcileNobody(n) == Nobody

\* reconcileRoster: the user merged away only if there was a username.
AlsoReconcile(n) == IF user[n].name = "none" THEN Nobody ELSE n

\* moveEverything: the survivor takes the name and the password it lacks.
Merge(h) ==
  LET j == job[h]
      s == j.user
      n == j.other
      takes == user[s].name = "none" IN
  /\ At(h, "merge")
  /\ user' = [user EXCEPT
        ![n].active = FALSE,
        ![n].name = IF takes THEN "none" ELSE @,
        ![s].name = IF takes THEN user[n].name ELSE @,
        ![s].hash = IF @ = None THEN user[n].hash ELSE @]
  /\ Set(h, Reconcile([j EXCEPT !.other = AlsoReconcile(n)], s))
  /\ UNCHANGED <<roster, budget, notes>>

\* Re-entry at sign-in and the Workspace sync activate and deactivate users, and
\* leave the roster alone.
Flip(u) ==
  /\ "flip" \in Ops /\ ops < MaxOps
  /\ Quiet \/ races + fails < MaxMishaps
  /\ user[u].there
  /\ user' = [user EXCEPT ![u].active = ~@]
  /\ untold' = untold \cup {u}
  /\ ops' = ops + 1
  /\ races' = IF Quiet THEN races ELSE races + 1
  /\ job' = Disturbed(job)
  /\ UNCHANGED <<roster, fails, foreign, blind, left, lost>>

----------------------------------------------------------------------------
(* Pushing *)

\* POST .../laptop/push; and what follows a change of the display name.
StartPushNow(h, u) ==
  /\ user[u].there
  /\ Request(h, "pushNow", Reconcile(NoJob, u))

\* Mutant: only those whose last write failed.
StartPushDirty(h) ==
  Request(h, "pushAll", Return([NoJob EXCEPT
    !.op = "pushAll", !.sound = TRUE, !.todo = {u \in Known : user[u].dirty}]))

\* pushAll: everybody with a username.
StartPushAll(h) ==
  Request(h, "pushAll", Return([NoJob EXCEPT
    !.op = "pushAll", !.sound = TRUE, !.todo = {u \in Known : user[u].name # "none"}]))

PushJob == [NoJob EXCEPT !.todo = {u \in Known : user[u].dirty}]

\* tick, some hour later: the job reconciles the users marked dirty.  nextRun is moved
\* on at the end of a run only, so that a later tick may start another meanwhile.
Tick(h) ==
  /\ \E u \in Known : user[u].dirty
  /\ Begin(h, Return(PushJob))
  /\ UNCHANGED ops

\* The answer of a push-all.
Done(h) ==
  /\ At(h, "done")
  /\ Set(h, NoJob)
  /\ UNCHANGED <<user, roster, budget, notes>>

----------------------------------------------------------------------------
(* reconcile *)

\* Mutant: without a name there is nothing to do.
ReadRowNamed(h) ==
  LET j == job[h]
      r == user[j.user] IN
  /\ At(h, "row")
  /\ Set(h, IF r.name = "none" THEN Return(j) ELSE [j EXCEPT !.pc = "read", !.row = r])
  /\ untold' = untold \ {j.user}
  /\ UNCHANGED <<user, roster, budget, foreign, blind, left, lost>>

\* markClean writes only if the row that was read was dirty.
MarkClean(j) == IF j.row.dirty THEN [j EXCEPT !.pc = "tidy"] ELSE Return(j)

ReadRow(h) ==
  LET j == [job[h] EXCEPT !.row = user[job[h].user]] IN
  /\ At(h, "row")
  /\ Set(h, IF j.row.name = "none" THEN MarkClean(j) ELSE [j EXCEPT !.pc = "read"])
  /\ untold' = untold \ {j.user}
  /\ UNCHANGED <<user, roster, budget, foreign, blind, left, lost>>

\* What the entry is, and is to be.
ReadEntry(h) ==
  LET j == [job[h] EXCEPT !.seen = roster[job[h].row.name]] IN
  /\ At(h, "read")
  /\ Set(h, IF DesiredEntry(j.row, j.seen) = j.seen THEN MarkClean(j)
                                                   ELSE [j EXCEPT !.pc = "write"])
  /\ UNCHANGED <<user, roster, budget, notes>>

Put(j) == roster' = [roster EXCEPT ![j.row.name] = DesiredEntry(j.row, j.seen)]

WriteEntry(h) ==
  /\ At(h, "write")
  /\ Put(job[h])
  /\ Go(h, "tidy")
  /\ UNCHANGED <<user, budget, notes>>

\* laptop_roster_dirty = false, by markClean or with the audit event.
Tidy(h) ==
  LET j == job[h] IN
  /\ At(h, "tidy")
  /\ user' = [user EXCEPT ![j.user].dirty = FALSE]
  /\ Set(h, Return(j))
  /\ UNCHANGED <<roster, budget, notes>>

MarkDirty(h) ==
  LET j == job[h] IN
  /\ At(h, "dirty")
  /\ user' = [user EXCEPT ![j.user].dirty = TRUE]
  /\ Set(h, Return(j))
  /\ UNCHANGED <<roster, budget, notes>>

\* lockRosterId
LockRead(h) ==
  /\ At(h, "lockRead")
  /\ IF roster[job[h].old] \in Hashes THEN Go(h, "lockWrite") ELSE Set(h, NoJob)
  /\ UNCHANGED <<user, roster, budget, notes>>

LockWrite(h) ==
  /\ At(h, "lockWrite")
  /\ roster' = [roster EXCEPT ![job[h].old] = Locked]
  /\ Set(h, NoJob)
  /\ UNCHANGED <<user, budget, notes>>

----------------------------------------------------------------------------
(* The import *)

NextEntry(j) == IF j.ids = {} THEN NoJob ELSE [j EXCEPT !.seen = None, !.pc = "entry"]

\* importAll lists the ids first.
StartImport(h) ==
  Request(h, "import", NextEntry([NoJob EXCEPT !.op = "import",
                                               !.ids = {n \in Names : roster[n] # None}]))

ImportRead(h) ==
  /\ At(h, "entry")
  /\ Set(h, [job[h] EXCEPT !.pc = "find", !.seen = roster[Some(job[h].ids)]])
  /\ UNCHANGED <<user, roster, budget, notes>>

Imported(j) == NextEntry([j EXCEPT !.ids = @ \ {Some(@)}])

\* An id that is a username here is left alone.
ImportFind(h) ==
  LET j == job[h] IN
  /\ At(h, "find")
  /\ Set(h, IF Holder(Some(j.ids)) # {} THEN Imported(j) ELSE [j EXCEPT !.pc = "create"])
  /\ UNCHANGED <<user, roster, budget, notes>>

\* Mutant: whatever the entry has for a hash.
UsableHashAny(e) == e

UsableHash(e) == IF e \in Hashes THEN e ELSE None

ImportCreate(h) ==
  LET j == job[h]
      n == Some(j.ids) IN
  /\ At(h, "create")
  /\ \/ /\ Holder(n) = {} /\ NextId \in UserIds
        /\ user' = [user EXCEPT ![NextId] = [there |-> TRUE, name |-> n, active |-> TRUE,
                                             hash |-> UsableHash(j.seen), dirty |-> FALSE]]
        /\ foreign' = foreign \ {n}
     \/ /\ Holder(n) # {}
        /\ UNCHANGED <<user, foreign>>
  /\ Set(h, Imported(j))
  /\ UNCHANGED <<roster, budget, blind, untold, left, lost>>

----------------------------------------------------------------------------
(* Failures *)

Mishap ==
  /\ races + fails < MaxMishaps
  /\ fails' = fails + 1
  /\ UNCHANGED <<ops, races, foreign, untold>>

Spoilt(h) == [job[h] EXCEPT !.sound = FALSE]

\* The ownership check fails open.
CheckFails(h) ==
  /\ At(h, "check")
  /\ Mishap
  /\ Set(h, [Spoilt(h) EXCEPT !.pc = "commit"])
  /\ blind' = TRUE
  /\ UNCHANGED <<user, roster, left, lost>>

\* A statement before the commit, or of the import: the request, or the entry, fails.
StatementFails(h) ==
  /\ job[h].pc \in {"owner", "commit", "remove", "merge", "entry", "find", "create"}
  /\ Mishap
  /\ Set(h, IF job[h].op = "import" THEN Imported(Spoilt(h)) ELSE NoJob)
  /\ UNCHANGED <<user, roster, blind, left, lost>>

\* Reading or writing the entry fails - written or not - or the update after it.
RosterFails(h) ==
  LET j == job[h] IN
  /\ \/ j.pc = "read" /\ UNCHANGED roster
     \/ j.pc = "write" /\ (UNCHANGED roster \/ Put(j))
     \/ j.pc = "tidy" /\ DesiredEntry(j.row, j.seen) # j.seen /\ UNCHANGED roster
  /\ Mishap
  /\ Set(h, [Spoilt(h) EXCEPT !.pc = "dirty"])
  /\ UNCHANGED <<user, blind, left, lost>>

\* The row cannot be read, or not be marked; markClean only logs that.
MarkFails(h) ==
  LET j == job[h] IN
  /\ \/ j.pc \in {"row", "dirty"}
     \/ j.pc = "tidy" /\ DesiredEntry(j.row, j.seen) = j.seen
  /\ Mishap
  /\ Set(h, Return(Spoilt(h)))
  /\ lost' = (lost \/ j.pc # "tidy")
  /\ UNCHANGED <<user, roster, blind, left>>

\* The lock of the old name fails, and nothing says so but the log.
LockFails(h) ==
  /\ job[h].pc \in {"lockRead", "lockWrite"}
  /\ Mishap
  /\ Set(h, NoJob)
  /\ left' = left \cup {job[h].old}
  /\ UNCHANGED <<user, roster, blind, lost>>

Crash ==
  /\ ~Quiet
  /\ Mishap
  /\ job' = [h \in Handlers |-> NoJob]
  /\ lost' = TRUE
  /\ UNCHANGED <<user, roster, blind, left>>

----------------------------------------------------------------------------
\* Laptops may have made entries, some locked; one user came by another way, or was
\* imported from one of them.
Init ==
  /\ roster \in [Names -> {None, Locked, Old}]
  /\ \E n \in {m \in Names : roster[m] = Old} \cup {"none"} :
       /\ user = [u \in UserIds |->
                    IF u = 1 THEN [NoUser EXCEPT !.there = TRUE, !.active = TRUE, !.name = n,
                                                 !.hash = IF n = "none" THEN None ELSE Old]
                             ELSE NoUser]
       /\ foreign = {m \in Names : roster[m] # None} \ {n}
  /\ job = [h \in Handlers |-> NoJob]
  /\ ops = 0 /\ races = 0 /\ fails = 0
  /\ blind = FALSE /\ untold = {} /\ left = {} /\ lost = FALSE

Start(h) ==
  \/ \E u \in UserIds, n \in Names \cup {"none"}, p \in BOOLEAN :
       StartOwn(h, u, n, p) \/ StartAdmin(h, u, n, p)
  \/ \E n \in Names : StartSignUp(h, n)
  \/ \E u \in UserIds : StartRemove(h, u) \/ StartPushNow(h, u)
  \/ \E s, n \in UserIds : StartMerge(h, s, n)
  \/ StartPushAll(h) \/ StartImport(h)

Step(h) ==
  \/ Check(h) \/ Owner(h) \/ Commit(h) \/ Deactivate(h) \/ Merge(h)
  \/ ReadRow(h) \/ ReadEntry(h) \/ WriteEntry(h) \/ Tidy(h) \/ MarkDirty(h)
  \/ LockRead(h) \/ LockWrite(h) \/ Done(h)
  \/ ImportRead(h) \/ ImportFind(h) \/ ImportCreate(h)

Failure(h) ==
  CheckFails(h) \/ StatementFails(h) \/ RosterFails(h) \/ MarkFails(h) \/ LockFails(h)

Next ==
  \/ \E h \in Handlers : Start(h) \/ Tick(h) \/ Step(h) \/ Failure(h)
  \/ \E u \in UserIds : Flip(u)
  \/ Crash

Spec == Init /\ [][Next]_vars

\* What has begun goes on, and the scheduler ticks.
FairSpec ==
  /\ Spec
  /\ WF_vars(\E h \in Handlers : Step(h))
  /\ WF_vars(\E h \in Handlers : Tick(h))

----------------------------------------------------------------------------
(* Properties *)

Row == [there: BOOLEAN, name: Names \cup {"none"}, hash: Hashes \cup {None},
        active: BOOLEAN, dirty: BOOLEAN]
Points == {"idle", "check", "owner", "commit", "remove", "merge", "row", "read", "write",
           "tidy", "dirty", "lockRead", "lockWrite", "done", "entry", "find", "create"}
Job == [op: {"none", "signUp", "pushAll", "import"}, pc: Points,
        user: UserIds \cup {Nobody}, name: Names \cup {"none"}, hash: Hashes \cup {None},
        other: UserIds \cup {Nobody}, row: Row, seen: Hashes \cup {None, Locked},
        todo: SUBSET UserIds, ids: SUBSET Names, old: Names \cup {"none"}, sound: BOOLEAN]

\* Type correctness.
TypeOK ==
  /\ user \in [UserIds -> Row]
  /\ roster \in [Names -> Hashes \cup {None, Locked}]
  /\ job \in [Handlers -> Job]
  /\ ops \in 0..MaxOps /\ races \in Nat /\ fails \in Nat
  /\ foreign \subseteq Names /\ left \subseteq Names /\ untold \subseteq UserIds
  /\ blind \in BOOLEAN /\ lost \in BOOLEAN

Agrees(u) ==
  LET n == user[u].name IN
  n # "none" => IF Eligible(user[u]) THEN roster[n] = user[u].hash ELSE roster[n] \notin Hashes

\* reconcile's promise, as long as requests do not overlap and nothing ends
\* unmarked: whatever call to the bucket or update fails, a user's entry is what the
\* row says or the user is marked for the job - or was (de)activated by a path
\* that forgets the roster.  A name nobody holds any more is locked, unless the
\* lock after a rename failed.
RosterAgrees ==
  Quiet /\ races = 0 /\ ~lost =>
    /\ \A u \in Known : Agrees(u) \/ user[u].dirty \/ u \in untold
    /\ \A n \in Names : roster[n] \in Hashes /\ Holder(n) = {} => n \in foreign \cup left

\* rosterIdTakenByOther, under every interleaving: nobody gets hold of an entry a
\* laptop made for somebody else, unless the roster could not be read.
NoTakeover ==
  ~blind => \A n \in foreign : Holder(n) = {} /\ roster[n] \in {Old, Locked}

\* pushAll is for "whenever the bucket needs repairing": whatever races, crashes and
\* failures did before, after one that nothing disturbs everybody's entry agrees.
PushAllRepairs ==
  \A h \in Handlers :
    At(h, "done") /\ job[h].sound =>
      \A u \in Known : Agrees(u)

\* Whoever is marked dirty does not stay so: the hourly job gets to everybody.
SomeDirty == \E u \in Known : user[u].dirty
DirtyIsRetried == SomeDirty ~> ~SomeDirty
=============================================================================
