------------------------------ MODULE Enrolment ------------------------------
(***************************************************************************)
(* Groups and cohorts, who belongs to them, and the passphrases with which  *)
(* students sign up into one and its members sign in.                       *)
(*                                                                          *)
(* A scope is a group or a cohort.  Its passphrase is valid for a while and *)
(* found by its text alone, in both tables.  A request is a record in job:  *)
(* pc is the statement it executes next, the rest is what it has read.      *)
(***************************************************************************)
EXTENDS Integers, FiniteSets

CONSTANTS
  Groups, Cohorts, \* rows the two tables can have
  Users,           \* users there can be,
  Students,        \* those whose role is student,
  LeagueUsers,     \* those whose address is one of the League's,
  FirstUsers,      \* and those who may be there from the start
  NoScope, NoUser,
  Names,           \* names of groups, cohorts and OUs
  Phrases,         \* texts of passphrases
  Ttl,             \* how long a passphrase is valid
  MaxAttempts,     \* phrases generated before create gives up
  Handlers,        \* requests that can be under way at the same time
  Ops,             \* the requests they are
  MaxNow,          \* bounds: the clock,
  MaxOps,          \* requests begun,
  MaxMishaps       \* requests begun while another is under way, failing statements and crashes

Scopes == Groups \cup Cohorts
AllOps == {"issue", "revoke", "group", "rename", "dropGroup", "add", "remove", "cohort",
           "toGroup", "syncGroups", "syncUser", "unseen", "delete", "merge", "reenter",
           "signUp", "login"}

ASSUME EnrolmentAssumption ==
  /\ Groups \cap Cohorts = {} /\ NoScope \notin Scopes
  /\ Students \subseteq Users /\ LeagueUsers \subseteq Users /\ FirstUsers \subseteq Users
  /\ NoUser \notin Users
  /\ "none" \notin Names /\ "none" \notin Phrases
  /\ Ttl \in Nat \ {0} /\ MaxAttempts \in Nat \ {0}
  /\ Ops \subseteq AllOps
  /\ MaxNow \in Nat /\ MaxOps \in Nat /\ MaxMishaps \in Nat

VARIABLES
  scope,   \* scope[s]: the row of s, its passphrase and when that expires
  user,    \* user[u]: is there such a user, is_active, cohort_id
  member,  \* UserGroup: pairs of a group and a user
  ou,      \* names of the OUs at Google
  now,     \* the clock
  job,     \* the requests
  ops,     \* requests begun
  mishaps, \* those of them begun while another was under way, and failures
  crossed, \* auxiliary: two requests for a passphrase have overlapped
  owed     \* auxiliary: owed[h]: scopes whose passphrase the login h presents and which its
           \* user has been a member of, all the time since it began

vars   == <<scope, user, member, ou, now, job, ops, mishaps, crossed, owed>>
people == <<user, member>>
budget == <<ops, mishaps>>

NoRow    == [state |-> "none", name |-> "none", phrase |-> "none", expires |-> 0]
Stranger == [known |-> FALSE, active |-> FALSE, cohort |-> NoScope]

\* scope:  what the request is about, or the scope whose passphrase was found
\* chosen: the passphrase was given and not generated
\* at:     the time the request took when it began to compare passphrases
\* cohort, inactive: of the user's row when it was read
\* todo:   OUs a sync has still to visit
\* then:   what a look-up of a passphrase is for
NoJob == [pc |-> "idle", scope |-> NoScope, phrase |-> "none", chosen |-> FALSE, at |-> 0,
          tries |-> 0, user |-> NoUser, cohort |-> NoScope, inactive |-> FALSE,
          name |-> "none", todo |-> {}, then |-> "none"]

----------------------------------------------------------------------------
(* Rows and requests *)

Live(s)     == scope[s].state = "live"
Named(K, n) == {s \in K : Live(s) /\ scope[s].name = n}

\* Rows of K with passphrase p that expires after t.
Matches(K, p, t) == {s \in K : scope[s].phrase = p /\ scope[s].expires > t}

Belongs(u, s) == IF s \in Cohorts THEN user[u].cohort = s ELSE <<s, u>> \in member

Insert(s, n)  == scope' = [scope EXCEPT ![s] = [NoRow EXCEPT !.state = "live", !.name = n]]
Fresh(K)      == {s \in K : scope[s].state = "none"}
PutPhrase(s, p, t) == scope' = [scope EXCEPT ![s].phrase = p, ![s].expires = t]

At(h, pc)  == job[h].pc = pc
Set(h, j)  == job' = [job EXCEPT ![h] = j]
Go(h, pc)  == Set(h, [job[h] EXCEPT !.pc = pc])
End(h)     == Set(h, NoJob)
Quiet      == \A h \in Handlers : At(h, "idle")
Issuing(h) == job[h].pc \in {"checkCohorts", "checkGroups", "store"}

\* The scopes through which the user of h may sign in with the passphrase presented.
Entitling(h) ==
  {s \in Scopes : /\ s \in Matches(Scopes, job[h].phrase, now)
                  /\ user[job[h].user].active /\ Belongs(job[h].user, s)}

Watch ==
  owed' = [h \in Handlers |->
             IF job'[h].then # "login" THEN {}
             ELSE IF At(h, "idle") THEN Entitling(h)'
             ELSE owed[h] \cap Entitling(h)']

Count(op) ==
  /\ op \in Ops /\ ops < MaxOps
  /\ Quiet \/ mishaps < MaxMishaps
  /\ ops' = ops + 1
  /\ mishaps' = IF Quiet THEN mishaps ELSE mishaps + 1

\* A request of several statements begins.
Begin(h, op, j) ==
  /\ At(h, "idle")
  /\ Set(h, j)
  /\ Count(op)
  /\ UNCHANGED <<scope, people, ou, now>>

\* A request that comes down to one transaction.
AtOnce(op) ==
  /\ Count(op)
  /\ UNCHANGED <<ou, now, job, crossed>>

----------------------------------------------------------------------------
(* Passphrases *)

\* The route finds the scope and create takes the time.
StartIssue(h, s, p, chosen) ==
  /\ Live(s)
  /\ Begin(h, "issue", [NoJob EXCEPT !.pc = "checkCohorts", !.scope = s, !.phrase = p,
                                      !.chosen = chosen, !.at = now])
  /\ crossed' = (crossed \/ \E k \in Handlers : Issuing(k))
  /\ Watch

\* A generated passphrase is replaced by another one.
Collide(h) ==
  IF job[h].chosen \/ job[h].tries + 1 = MaxAttempts
    THEN End(h)
    ELSE \E p \in Phrases :
           Set(h, [job[h] EXCEPT !.pc = "checkCohorts", !.phrase = p, !.tries = @ + 1])

\* _hasCollision: one findFirst for each table, any row that fits.
Compare(h, K, next) ==
  LET found == Matches(K, job[h].phrase, job[h].at) IN
  /\ \/ found \subseteq {job[h].scope} /\ Go(h, next)
     \/ job[h].scope \in found /\ Go(h, next)
     \/ found \ {job[h].scope} # {} /\ Collide(h)
  /\ UNCHANGED <<scope, people, ou, now, budget, crossed>>
  /\ Watch

\* Mutant: the passphrase of a cohort is not compared with those of groups.
CheckGroupsForGroups(h) ==
  /\ At(h, "checkGroups")
  /\ Compare(h, IF job[h].scope \in Groups THEN Groups ELSE {}, "store")

CheckCohorts(h) == At(h, "checkCohorts") /\ Compare(h, Cohorts, "checkGroups")
CheckGroups(h)  == At(h, "checkGroups") /\ Compare(h, Groups, "store")

\* The transaction fails if the row was deleted meanwhile.
Store(h) ==
  /\ At(h, "store")
  /\ \/ Live(job[h].scope) /\ PutPhrase(job[h].scope, job[h].phrase, job[h].at + Ttl)
     \/ ~Live(job[h].scope) /\ UNCHANGED scope
  /\ End(h)
  /\ UNCHANGED <<people, ou, now, budget, crossed>>
  /\ Watch

StartRevoke(h, s) ==
  /\ Live(s)
  /\ Begin(h, "revoke", [NoJob EXCEPT !.pc = "findActive", !.scope = s])
  /\ UNCHANGED crossed /\ Watch

\* getActive
FindActive(h) ==
  LET row == scope[job[h].scope] IN
  /\ At(h, "findActive")
  /\ IF row.phrase # "none" /\ row.expires > now THEN Go(h, "clear") ELSE End(h)
  /\ UNCHANGED <<scope, people, ou, now, budget, crossed>>
  /\ Watch

\* Whatever passphrase the row has by now.
Clear(h) ==
  /\ At(h, "clear")
  /\ \/ Live(job[h].scope) /\ PutPhrase(job[h].scope, "none", 0)
     \/ ~Live(job[h].scope) /\ UNCHANGED scope
  /\ End(h)
  /\ UNCHANGED <<people, ou, now, budget, crossed>>
  /\ Watch

----------------------------------------------------------------------------
(* Groups *)

StartGroup(h, n) ==
  /\ Named(Groups, n) = {}
  /\ Begin(h, "group", [NoJob EXCEPT !.pc = "insertGroup", !.name = n])
  /\ UNCHANGED crossed /\ Watch

\* syncCohorts: every OU listed becomes a group of its name.
StartSyncGroups(h) ==
  /\ ou # {}
  /\ Begin(h, "syncGroups", [NoJob EXCEPT !.pc = "findGroup", !.todo = ou])
  /\ UNCHANGED crossed /\ Watch

NextOU(j) == IF j.todo = {} THEN NoJob ELSE [j EXCEPT !.pc = "findGroup", !.name = "none"]

\* upsertByName
FindGroup(h) ==
  /\ At(h, "findGroup")
  /\ \E n \in job[h].todo :
       LET j == [job[h] EXCEPT !.todo = @ \ {n}] IN
       IF Named(Groups, n) # {} THEN Set(h, NextOU(j))
                                ELSE Set(h, [j EXCEPT !.pc = "insertGroup", !.name = n])
  /\ UNCHANGED <<scope, people, ou, now, budget, crossed>>
  /\ Watch

\* The name is unique.
InsertGroup(h) ==
  LET n == job[h].name IN
  /\ At(h, "insertGroup")
  /\ \/ /\ Named(Groups, n) = {}
        /\ \E g \in Fresh(Groups) : Insert(g, n)
        /\ Set(h, NextOU(job[h]))
     \/ /\ Named(Groups, n) # {}
        /\ UNCHANGED scope
        /\ End(h)
  /\ UNCHANGED <<people, ou, now, budget, crossed>>
  /\ Watch

StartRename(h, g, n) ==
  /\ Live(g) /\ Named(Groups, n) = {}
  /\ Begin(h, "rename", [NoJob EXCEPT !.pc = "rename", !.scope = g, !.name = n])
  /\ UNCHANGED crossed /\ Watch

Rename(h) ==
  LET j == job[h] IN
  /\ At(h, "rename")
  /\ scope' = IF Live(j.scope) /\ Named(Groups, j.name) = {}
                THEN [scope EXCEPT ![j.scope].name = j.name] ELSE scope
  /\ End(h)
  /\ UNCHANGED <<people, ou, now, budget, crossed>>
  /\ Watch

StartDropGroup(h, g) ==
  /\ Live(g)
  /\ Begin(h, "dropGroup", [NoJob EXCEPT !.pc = "dropGroup", !.scope = g])
  /\ UNCHANGED crossed /\ Watch

\* Mutant: the memberships stay.
DropGroupOnly(h) ==
  /\ At(h, "dropGroup")
  /\ scope' = [scope EXCEPT ![job[h].scope] = [NoRow EXCEPT !.state = "gone"]]
  /\ End(h)
  /\ UNCHANGED <<people, ou, now, budget, crossed>>
  /\ Watch

\* The memberships go with the group.
DropGroup(h) ==
  LET g == job[h].scope IN
  /\ At(h, "dropGroup")
  /\ scope' = [scope EXCEPT ![g] = [NoRow EXCEPT !.state = "gone"]]
  /\ member' = {m \in member : m[1] # g}
  /\ End(h)
  /\ UNCHANGED <<user, ou, now, budget, crossed>>
  /\ Watch

StartAdd(h, g, u) ==
  /\ Begin(h, "add", [NoJob EXCEPT !.pc = "findMember", !.scope = g, !.user = u])
  /\ UNCHANGED crossed /\ Watch

\* addMember: group and user exist, inactive users too, and no membership yet.
FindMember(h) ==
  LET j == job[h] IN
  /\ At(h, "findMember")
  /\ IF Live(j.scope) /\ user[j.user].known /\ <<j.scope, j.user>> \notin member
       THEN Go(h, "addMember") ELSE End(h)
  /\ UNCHANGED <<scope, people, ou, now, budget, crossed>>
  /\ Watch

AddMember(h) ==
  LET j == job[h] IN
  /\ At(h, "addMember")
  /\ member' = IF Live(j.scope) THEN member \cup {<<j.scope, j.user>>} ELSE member
  /\ End(h)
  /\ UNCHANGED <<scope, user, ou, now, budget, crossed>>
  /\ Watch

StartRemove(h, g, u) ==
  /\ <<g, u>> \in member
  /\ Begin(h, "remove", [NoJob EXCEPT !.pc = "remove", !.scope = g, !.user = u])
  /\ UNCHANGED crossed /\ Watch

RemoveMember(h) ==
  LET j == job[h] IN
  /\ At(h, "remove")
  /\ member' = member \ {<<j.scope, j.user>>}
  /\ End(h)
  /\ UNCHANGED <<scope, user, ou, now, budget, crossed>>
  /\ Watch

----------------------------------------------------------------------------
(* Cohorts *)

StartCohort(h, n) ==
  /\ Named(Cohorts, n) = {}
  /\ Begin(h, "cohort", [NoJob EXCEPT !.pc = "createOU", !.name = n])
  /\ UNCHANGED crossed /\ Watch

\* Google refuses an OU that exists, one that an earlier attempt left behind included.
CreateOU(h) ==
  LET n == job[h].name IN
  /\ At(h, "createOU")
  /\ ou' = ou \cup {n}
  /\ IF n \in ou THEN End(h) ELSE Go(h, "insertCohort")
  /\ UNCHANGED <<scope, people, now, budget, crossed>>
  /\ Watch

InsertCohort(h) ==
  LET n == job[h].name IN
  /\ At(h, "insertCohort")
  /\ \/ Named(Cohorts, n) = {} /\ \E c \in Fresh(Cohorts) : Insert(c, n)
     \/ Named(Cohorts, n) # {} /\ UNCHANGED scope
  /\ End(h)
  /\ UNCHANGED <<people, ou, now, budget, crossed>>
  /\ Watch

\* syncToGroup: the active students of a cohort join the group of its name.
SyncToGroup(c) ==
  LET named == Named(Groups, scope[c].name) IN
  /\ AtOnce("toGroup")
  /\ Live(c)
  /\ \E g \in IF named = {} THEN Fresh(Groups) ELSE named :
       /\ IF named = {} THEN Insert(g, scope[c].name) ELSE UNCHANGED scope
       /\ member' = member \cup
            {<<g, u>> : u \in {v \in Students : user[v].active /\ user[v].cohort = c}}
  /\ UNCHANGED user
  /\ Watch

----------------------------------------------------------------------------
(* Users who come, go and are put together *)

\* syncStudents at one of the users Google listed.
StartSyncUser(h, u) ==
  /\ u \in LeagueUsers
  /\ Begin(h, "syncUser",
       [NoJob EXCEPT !.pc = IF user[u].known THEN "patch" ELSE "insertUser", !.user = u,
                     !.cohort = user[u].cohort, !.inactive = user[u].known /\ ~user[u].active])
  /\ UNCHANGED crossed /\ Watch

InsertUser(h) ==
  LET u == job[h].user IN
  /\ At(h, "insertUser")
  /\ user' = IF user[u].known THEN user
             ELSE [user EXCEPT ![u] = [Stranger EXCEPT !.known = TRUE, !.active = TRUE]]
  /\ End(h)
  /\ UNCHANGED <<scope, member, ou, now, budget, crossed>>
  /\ Watch

\* Back in, and out of the cohort: the OU listed is the root.
PatchUser(h) ==
  LET j == job[h] IN
  /\ At(h, "patch")
  /\ user' = [user EXCEPT ![j.user].active = @ \/ j.inactive,
                          ![j.user].cohort = IF j.cohort = NoScope THEN @ ELSE NoScope]
  /\ End(h)
  /\ UNCHANGED <<scope, member, ou, now, budget, crossed>>
  /\ Watch

\* _deactivateNotSeen: the memberships stay.
Unseen(u) ==
  /\ AtOnce("unseen")
  /\ u \in LeagueUsers /\ user[u].active
  /\ user' = [user EXCEPT ![u].active = FALSE]
  /\ UNCHANGED <<scope, member>>
  /\ Watch

\* An administrator removes the user, who leaves all groups and stays in the cohort.
Delete(u) ==
  /\ AtOnce("delete")
  /\ user[u].known
  /\ user' = [user EXCEPT ![u].active = FALSE]
  /\ member' = {m \in member : m[2] # u}
  /\ UNCHANGED scope
  /\ Watch

\* applyDeniedReentry
Reenter(u) ==
  /\ AtOnce("reenter")
  /\ user[u].known /\ ~user[u].active
  /\ user' = [user EXCEPT ![u].active = TRUE]
  /\ UNCHANGED <<scope, member>>
  /\ Watch

\* moveEverything: v is merged into u.
Merge(u, v) ==
  /\ AtOnce("merge")
  /\ u # v /\ user[u].known /\ user[v].known
  /\ member' = {<<m[1], IF m[2] = v THEN u ELSE m[2]>> : m \in member}
  /\ user' = [user EXCEPT ![u].cohort = IF @ = NoScope THEN user[v].cohort ELSE @,
                          ![v].active = FALSE]
  /\ UNCHANGED scope
  /\ Watch

----------------------------------------------------------------------------
(* Signing up and signing in with a passphrase *)

StartSignUp(h, u, p) ==
  /\ Begin(h, "signUp", [NoJob EXCEPT !.pc = "seekCohort", !.user = u, !.phrase = p,
                                       !.then = "signUp"])
  /\ UNCHANGED crossed /\ Watch

\* The password did not fit.
StartLogin(h, u, p) ==
  /\ user[u].active
  /\ Begin(h, "login", [NoJob EXCEPT !.pc = "seekCohort", !.user = u, !.phrase = p,
                                      !.cohort = user[u].cohort, !.then = "login"])
  /\ UNCHANGED crossed /\ Watch

Answered(j, admitted) == [j EXCEPT !.pc = IF admitted THEN "admitted" ELSE "refused"]

\* What follows a passphrase found: userBelongsToScope compares the cohort it was told.
Found(j, s) ==
  IF j.then = "signUp" THEN [j EXCEPT !.pc = "createUser", !.scope = s]
  ELSE IF s \in Cohorts THEN Answered(j, j.cohort = s)
  ELSE [j EXCEPT !.pc = "belongs", !.scope = s]

\* Mutant: of a user with a cohort only the cohort's passphrase is considered.
SeekCohortOfUser(h) ==
  LET j == [job[h] EXCEPT !.at = now]
      found == Matches(Cohorts, j.phrase, now) IN
  /\ At(h, "seekCohort")
  /\ \/ found = {} /\ Set(h, IF j.cohort = NoScope THEN [j EXCEPT !.pc = "seekGroup"]
                                                   ELSE Answered(j, FALSE))
     \/ \E c \in found : Set(h, Found(j, c))
  /\ UNCHANGED <<scope, people, ou, now, budget, crossed>>
  /\ Watch

\* findBySignupValue: cohorts, then groups, any row that fits.
SeekCohort(h) ==
  LET j == [job[h] EXCEPT !.at = now]
      found == Matches(Cohorts, j.phrase, now) IN
  /\ At(h, "seekCohort")
  /\ \/ found = {} /\ Set(h, [j EXCEPT !.pc = "seekGroup"])
     \/ \E c \in found : Set(h, Found(j, c))
  /\ UNCHANGED <<scope, people, ou, now, budget, crossed>>
  /\ Watch

SeekGroup(h) ==
  LET j == job[h]
      found == Matches(Groups, j.phrase, j.at) IN
  /\ At(h, "seekGroup")
  /\ \/ found = {} /\ Set(h, IF j.then = "login" THEN Answered(j, FALSE) ELSE NoJob)
     \/ \E g \in found : Set(h, Found(j, g))
  /\ UNCHANGED <<scope, people, ou, now, budget, crossed>>
  /\ Watch

InGroup(h) ==
  LET j == job[h] IN
  /\ At(h, "belongs")
  /\ Set(h, Answered(j, <<j.scope, j.user>> \in member))
  /\ UNCHANGED <<scope, people, ou, now, budget, crossed>>
  /\ Watch

\* Username and address are unique.  Who found a group joins it afterwards.
CreateUser(h) ==
  LET j == job[h] IN
  /\ At(h, "createUser")
  /\ \/ /\ ~user[j.user].known
        /\ user' = [user EXCEPT ![j.user] =
                      [known |-> TRUE, active |-> TRUE,
                       cohort |-> IF j.scope \in Cohorts THEN j.scope ELSE NoScope]]
        /\ IF j.scope \in Groups THEN Go(h, "findMember") ELSE End(h)
     \/ /\ user[j.user].known
        /\ UNCHANGED user
        /\ End(h)
  /\ UNCHANGED <<scope, member, ou, now, budget, crossed>>
  /\ Watch

Respond(h) ==
  /\ job[h].pc \in {"admitted", "refused"}
  /\ End(h)
  /\ UNCHANGED <<scope, people, ou, now, budget, crossed>>
  /\ Watch

----------------------------------------------------------------------------
(* The rest of the world *)

Tick ==
  /\ now < MaxNow
  /\ now' = now + 1
  /\ UNCHANGED <<scope, people, ou, job, budget, crossed>>
  /\ Watch

\* A statement fails and ends its request; a crash ends all of them.
Fails(H) ==
  /\ H # {} /\ mishaps < MaxMishaps
  /\ \A h \in H : ~At(h, "idle")
  /\ job' = [h \in Handlers |-> IF h \in H THEN NoJob ELSE job[h]]
  /\ mishaps' = mishaps + 1
  /\ UNCHANGED <<scope, people, ou, now, ops, crossed>>
  /\ Watch

StatementFails(h) == Fails({h})
Crash == Fails({h \in Handlers : ~At(h, "idle")})

----------------------------------------------------------------------------

\* What earlier requests left, the passphrases that are valid all different.
Init ==
  /\ scope \in [Scopes -> {NoRow} \cup
                  {[state |-> "live", name |-> n, phrase |-> p,
                    expires |-> IF p = "none" THEN 0 ELSE Ttl] :
                     n \in Names, p \in Phrases \cup {"none"}}]
  /\ \A s, t \in Scopes : s # t /\ Live(s) /\ Live(t) =>
       /\ {s, t} \subseteq Groups \/ {s, t} \subseteq Cohorts => scope[s].name # scope[t].name
       /\ scope[s].phrase # "none" => scope[s].phrase # scope[t].phrase
  /\ user \in [Users -> {Stranger} \cup
                 [known : {TRUE}, active : {TRUE}, cohort : Cohorts \cup {NoScope}]]
  /\ \A u \in Users :
       /\ u \notin FirstUsers => ~user[u].known
       /\ user[u].cohort # NoScope => Live(user[u].cohort)
  /\ member \in SUBSET {m \in Groups \X Users : Live(m[1]) /\ user[m[2]].known}
  /\ ou = {scope[c].name : c \in {d \in Cohorts : Live(d)}}
  /\ now = 0
  /\ job = [h \in Handlers |-> NoJob]
  /\ ops = 0 /\ mishaps = 0
  /\ crossed = FALSE
  /\ owed = [h \in Handlers |-> {}]

Begins(h) ==
  \/ \E s \in Scopes, p \in Phrases, chosen \in BOOLEAN : StartIssue(h, s, p, chosen)
  \/ \E s \in Scopes : StartRevoke(h, s)
  \/ \E n \in Names : StartGroup(h, n)
  \/ StartSyncGroups(h)
  \/ \E g \in Groups, n \in Names : StartRename(h, g, n)
  \/ \E g \in Groups : StartDropGroup(h, g)
  \/ \E g \in Groups, u \in Users : StartAdd(h, g, u)
  \/ \E g \in Groups, u \in Users : StartRemove(h, g, u)
  \/ \E n \in Names : StartCohort(h, n)
  \/ \E u \in Users : StartSyncUser(h, u)
  \/ \E u \in Users, p \in Phrases : StartSignUp(h, u, p)
  \/ \E u \in Users, p \in Phrases : StartLogin(h, u, p)

Step(h) ==
  \/ CheckCohorts(h) \/ CheckGroups(h) \/ Store(h)
  \/ FindActive(h) \/ Clear(h)
  \/ FindGroup(h) \/ InsertGroup(h) \/ Rename(h) \/ DropGroup(h)
  \/ FindMember(h) \/ AddMember(h) \/ RemoveMember(h)
  \/ CreateOU(h) \/ InsertCohort(h)
  \/ InsertUser(h) \/ PatchUser(h)
  \/ SeekCohort(h) \/ SeekGroup(h) \/ InGroup(h) \/ CreateUser(h) \/ Respond(h)
  \/ StatementFails(h)

Next ==
  \/ \E h \in Handlers : Begins(h) \/ Step(h)
  \/ \E c \in Cohorts : SyncToGroup(c)
  \/ \E u \in Users : Unseen(u) \/ Delete(u) \/ Reenter(u)
  \/ \E u, v \in Users : Merge(u, v)
  \/ Tick
  \/ Crash

Spec == Init /\ [][Next]_vars

----------------------------------------------------------------------------
(* Properties *)

Pcs == {"idle", "checkCohorts", "checkGroups", "store", "findActive", "clear", "insertGroup",
        "findGroup", "rename", "dropGroup", "findMember", "addMember", "remove", "createOU",
        "insertCohort", "insertUser", "patch", "seekCohort", "seekGroup", "belongs",
        "createUser", "admitted", "refused"}

Row  == [state : {"none", "live", "gone"}, name : Names \cup {"none"},
         phrase : Phrases \cup {"none"}, expires : Nat]

User == [known : BOOLEAN, active : BOOLEAN, cohort : Cohorts \cup {NoScope}]

Job  == [pc : Pcs, scope : Scopes \cup {NoScope}, phrase : Phrases \cup {"none"},
         chosen : BOOLEAN, at : Nat, tries : Nat, user : Users \cup {NoUser},
         cohort : Cohorts \cup {NoScope}, inactive : BOOLEAN, name : Names \cup {"none"},
         todo : SUBSET Names, then : {"none", "signUp", "login"}]

\* Types, and what the schema enforces: a row that is not there has no passphrase, and
\* memberships and cohort_id refer to rows that are there.
TypeOK ==
  /\ scope \in [Scopes -> Row]
  /\ user \in [Users -> User]
  /\ member \subseteq Groups \X Users
  /\ ou \subseteq Names
  /\ now \in Nat
  /\ job \in [Handlers -> Job]
  /\ ops \in Nat /\ mishaps \in Nat
  /\ crossed \in BOOLEAN
  /\ owed \in [Handlers -> SUBSET Scopes]
  /\ \A s \in Scopes : ~Live(s) => scope[s].phrase = "none"
  /\ \A m \in member : Live(m[1]) /\ user[m[2]].known
  /\ \A u \in Users : user[u].cohort # NoScope => Live(user[u].cohort)

\* A passphrase opens one scope: as long as no two requests for one overlapped, two scopes
\* never have the same passphrase while both are valid, however long the check takes,
\* whichever tables they are in, and whatever is renamed, revoked or deleted meanwhile.
OneScopePerPhrase ==
  ~crossed => \A s, t \in Scopes :
    s # t /\ scope[s].phrase # "none" /\ scope[s].phrase = scope[t].phrase
      => scope[s].expires <= now \/ scope[t].expires <= now

\* A member is let in: unless two requests for a passphrase overlapped, a login with a
\* passphrase is refused only if there was no scope whose valid passphrase it is and to which
\* its user belonged from the request's first statement to its last.  Rows are read in four
\* statements, while scopes, members and cohorts change.
MemberAdmitted ==
  ~crossed => \A h \in Handlers : At(h, "refused") => owed[h] = {}
=============================================================================
