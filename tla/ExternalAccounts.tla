-------------------------- MODULE ExternalAccounts --------------------------
(***************************************************************************)
(* The accounts students hold elsewhere - a Google Workspace account and a  *)
(* Claude seat - and the ExternalAccount rows that say which they hold:     *)
(* WorkspaceProvisioningService, ClaudeProvisioningService,                 *)
(* ExternalAccountLifecycleService with the routes and bulk operations that *)
(* call it, the hourly workspace-delete job, and the synchronisations with  *)
(* Google (its student accounts) and Anthropic.                             *)
(*                                                                          *)
(* A request, or the job, is a record in task: pc names what it does next.  *)
(* They interleave at every await.  Between "call" and "save" a lifecycle   *)
(* operation waits for a remote service inside its $transaction, and no     *)
(* other transaction runs; statements outside transactions do.  Users are   *)
(* students and no two of them have the same name, so a League address      *)
(* belongs to one of them.                                                  *)
(***************************************************************************)
EXTENDS Integers, FiniteSets

CONSTANTS
  Users,       \* students
  LeagueUsers, \* those whose primary_email is their League address
  NoUser,
  Handlers,    \* requests that can be under way at the same time
  Scheduler,   \* the process that runs the workspace-delete job
  Ops,         \* the requests they are
  Delay,       \* WORKSPACE_DELETE_DELAY_DAYS
  MaxAccount,  \* bounds: rows that can be inserted,
  MaxInvite,   \* invitations sent,
  MaxNow,      \* the last instant,
  MaxOps,      \* requests begun,
  MaxFails,    \* remote calls and transactions that fail, and crashes,
  MaxDrift     \* changes made at Google by hand

AllOps == {"provisionWorkspace", "provisionClaude", "suspend", "unsuspend", "remove",
           "bulk", "syncWorkspace", "syncClaude"}

ASSUME AccountsAssumption ==
  /\ LeagueUsers \subseteq Users /\ NoUser \notin Users
  /\ Scheduler \notin Handlers
  /\ Ops \subseteq AllOps
  /\ Delay \in Nat
  /\ MaxAccount \in Nat /\ MaxInvite \in Nat /\ MaxNow \in Nat
  /\ MaxOps \in Nat /\ MaxFails \in Nat /\ MaxDrift \in Nat

AccountIds == 1..MaxAccount
InviteIds  == 1..MaxInvite
Tasks      == Handlers \cup {Scheduler}

\* external_id that is not an invitation's: a League address, or a user_ id.
Identity == 0

\* SQL NULL in scheduled_delete_at.
Never == -1

VARIABLES
  account, \* account[a]: the ExternalAccount with id a
  google,  \* google[u]: the Google account with u's address
  invite,  \* invite[i]: the Anthropic invitation with id i
  seat,    \* seat[u]: u's membership: "none", "org", or "workspace" (Students)
  now,
  task,    \* the requests and the job
  ops,     \* requests begun
  fails,   \* failures so far
  drift,   \* changes made by hand so far
  \* Auxiliary: history that the code does not keep.
  calm,    \* so far nothing overlapped, got lost or drifted
  solo     \* the task under way, if none other was, and nothing crashed or drifted, since it began

vars   == <<account, google, invite, seat, now, task, ops, fails, drift, calm, solo>>
remote == <<google, invite, seat>>
budget == <<now, ops, fails, drift>>

NoAccount == [user |-> NoUser, type |-> "workspace", status |-> "none", ext |-> Identity,
              changed |-> 0, due |-> Never]

\* act:    the lifecycle operation
\* user:   whom a provisioning is for
\* row:    the row to reactivate
\* ext:    the invitation just sent
\* todo:   rows a loop has still to visit
\* people: org members a loop has still to visit
\* seen:   users a listing showed
\* listed: invitations a listing showed
NoTask == [pc |-> "idle", act |-> "none", user |-> NoUser, row |-> 0, ext |-> 0,
           todo |-> {}, people |-> {}, seen |-> {}, listed |-> {}]

----------------------------------------------------------------------------
(* Tables and tasks *)

Rows(u, type) ==
  {a \in AccountIds : account[a].status # "none" /\ account[a].user = u /\ account[a].type = type}

IsLive(a) == account[a].status \in {"pending", "active"}

\* findActiveByUserAndType
Live(u, type) == {a \in Rows(u, type) : IsLive(a)}

FreeIds == {a \in AccountIds : account[a].status = "none"}

First(S) == CHOOSE a \in S : \A b \in S : a <= b

Insert(user, type, status, ext) ==
  /\ FreeIds # {}
  /\ account' = [account EXCEPT ![First(FreeIds)] =
                   [user |-> user, type |-> type, status |-> status, ext |-> ext,
                    changed |-> now, due |-> Never]]

\* Mutant: whatever the new status, no deletion is scheduled any longer.
SetStatusUnscheduled(a, status) ==
  account' = [account EXCEPT ![a].status = status, ![a].changed = now, ![a].due = Never]

\* updateStatus: scheduled_delete_at stays as it is.
SetStatus(a, status) ==
  account' = [account EXCEPT ![a].status = status, ![a].changed = now]

At(h, pc)  == task[h].pc = pc
Set(h, t)  == task' = [task EXCEPT ![h] = t]
Go(h, pc)  == Set(h, [task[h] EXCEPT !.pc = pc])
End(h)     == Set(h, NoTask)
Quiet      == \A h \in Tasks : At(h, "idle")

\* The row a loop is at; and the loop goes on, at "next", or is over.
Row(h) == First(task[h].todo)

Advance(h, next) ==
  IF task[h].todo = {Row(h)}
    THEN End(h)
    ELSE Set(h, [task[h] EXCEPT !.pc = next, !.todo = @ \ {Row(h)}])

\* A lifecycle operation's transaction is open while it calls out.
TransactionFree == \A h \in Tasks : task[h].pc \notin {"call", "reinvite", "save"}

Begin(h, op, t) ==
  /\ op \in Ops /\ ops < MaxOps
  /\ At(h, "idle")
  /\ Set(h, t)
  /\ ops' = ops + 1
  /\ calm' = (calm /\ Quiet)
  /\ solo' = IF Quiet THEN {h} ELSE {}
  /\ UNCHANGED <<account, remote, now, fails, drift>>

----------------------------------------------------------------------------
(* Provisioning: the reads come first, then the remote call, then the      *)
(* transaction.                                                             *)

StartProvisionWorkspace(h, u) ==
  /\ Live(u, "workspace") = {}
  /\ IF Rows(u, "workspace") = {}
       THEN Begin(h, "provisionWorkspace", [NoTask EXCEPT !.pc = "create", !.user = u])
       ELSE \E a \in Rows(u, "workspace") :
              /\ \A b \in Rows(u, "workspace") : account[b].changed <= account[a].changed
              /\ Begin(h, "provisionWorkspace",
                       [NoTask EXCEPT !.pc = "reactivate", !.user = u, !.row = a])

\* createUser: Google refuses an address that is taken.
CreateUser(h) ==
  LET u == task[h].user IN
  /\ At(h, "create")
  /\ IF google[u] = "absent"
       THEN google' = [google EXCEPT ![u] = "active"] /\ Go(h, "storeWorkspace")
       ELSE UNCHANGED google /\ End(h)
  /\ UNCHANGED <<account, invite, seat, budget, calm, solo>>

\* Mutant: the row is reactivated without Google.
ReactivateRow(h) ==
  /\ At(h, "reactivate")
  /\ Go(h, "storeWorkspace")
  /\ UNCHANGED <<account, remote, budget, calm, solo>>

\* unsuspendUser for the row that was suspended or removed.
Reactivate(h) ==
  LET u == task[h].user IN
  /\ At(h, "reactivate")
  /\ IF google[u] # "absent"
       THEN google' = [google EXCEPT ![u] = "active"] /\ Go(h, "storeWorkspace")
       ELSE UNCHANGED google /\ End(h)
  /\ UNCHANGED <<account, invite, seat, budget, calm, solo>>

StoreWorkspace(h) ==
  /\ At(h, "storeWorkspace") /\ TransactionFree
  /\ IF task[h].row = 0
       THEN Insert(task[h].user, "workspace", "active", Identity)
       ELSE SetStatus(task[h].row, "active")
  /\ End(h)
  /\ UNCHANGED <<remote, budget, calm, solo>>

\* The League address is that of the live workspace row, or the primary one.
StartProvisionClaude(h, u) ==
  /\ Live(u, "workspace") # {} \/ u \in LeagueUsers
  /\ Live(u, "claude") = {}
  /\ Begin(h, "provisionClaude", [NoTask EXCEPT !.pc = "invite", !.user = u])

\* inviteToOrg for user u: the task holds the new invitation's id.
Send(h, u, next) ==
  \E i \in InviteIds :
    /\ invite[i].state = "none"
    /\ \A j \in 1..(i - 1) : invite[j].state # "none"
    /\ invite' = [invite EXCEPT ![i] = [user |-> u, state |-> "open"]]
    /\ Set(h, [task[h] EXCEPT !.pc = next, !.ext = i])

InviteMember(h) ==
  /\ At(h, "invite")
  /\ Send(h, task[h].user, "storeClaude")
  /\ UNCHANGED <<account, google, seat, budget, calm, solo>>

StoreClaude(h) ==
  /\ At(h, "storeClaude") /\ TransactionFree
  /\ Insert(task[h].user, "claude", "pending", task[h].ext)
  /\ End(h)
  /\ UNCHANGED <<remote, budget, calm, solo>>

----------------------------------------------------------------------------
(* suspend, unsuspend and remove: the row is read, the remote service       *)
(* called and the row written in one transaction.                           *)

\* The routes name a row; the status is judged in the transaction.
StartLifecycle(h, a, act) ==
  /\ account[a].status # "none"
  /\ Begin(h, act, [NoTask EXCEPT !.pc = "open", !.act = act, !.todo = {a}])

\* Bulk suspend and remove, and deprovision: the rows are picked first.
Eligible(us, act) ==
  {a \in AccountIds : /\ account[a].user \in us
                      /\ account[a].status \in IF act = "suspend" THEN {"active"}
                                               ELSE {"active", "suspended"}}

StartBulk(h, us, act) ==
  /\ Eligible(us, act) # {}
  /\ Begin(h, "bulk", [NoTask EXCEPT !.pc = "open", !.act = act, !.todo = Eligible(us, act)])

\* A Claude row whose invitation was accepted and recorded is not unsuspended.
Admissible(a, act) ==
  IF act = "unsuspend"
    THEN /\ account[a].status = "suspended"
         /\ account[a].type = "claude" => account[a].ext # Identity
    ELSE account[a].status # "removed"

\* remove does not suspend again what the row says is suspended.
NeedsCall(a, act) ==
  ~(act = "remove" /\ account[a].type = "workspace" /\ account[a].status = "suspended")

Open(h) ==
  /\ At(h, "open") /\ TransactionFree
  /\ IF Admissible(Row(h), task[h].act)
       THEN Go(h, IF NeedsCall(Row(h), task[h].act) THEN "call" ELSE "save")
       ELSE Advance(h, "open")
  /\ UNCHANGED <<account, remote, budget, calm, solo>>

\* suspendUser, or unsuspendUser; on an error the transaction is rolled back.
CallGoogle(h) ==
  LET u == account[Row(h)].user IN
  /\ At(h, "call") /\ account[Row(h)].type = "workspace"
  /\ IF google[u] # "absent"
       THEN /\ google' = [google EXCEPT ![u] = IF task[h].act = "unsuspend"
                                                 THEN "active" ELSE "suspended"]
            /\ Go(h, "save")
       ELSE UNCHANGED google /\ Advance(h, "open")
  /\ UNCHANGED <<account, invite, seat, budget, calm, solo>>

\* cancelInvite: that the invitation is no longer open is not an error.
CallInvitation(h) ==
  LET i == account[Row(h)].ext IN
  /\ At(h, "call") /\ account[Row(h)].type = "claude" /\ i # Identity
  /\ invite' = IF invite[i].state = "open" THEN [invite EXCEPT ![i].state = "cancelled"]
                                           ELSE invite
  /\ Go(h, IF task[h].act = "unsuspend" THEN "reinvite" ELSE "save")
  /\ UNCHANGED <<account, google, seat, budget, calm, solo>>

\* Mutant: a suspension does not reach the workspace.
CallMemberToRemove(h) ==
  LET u == account[Row(h)].user IN
  /\ At(h, "call") /\ account[Row(h)].type = "claude" /\ account[Row(h)].ext = Identity
  /\ seat' = IF task[h].act = "remove" THEN [seat EXCEPT ![u] = "none"] ELSE seat
  /\ Go(h, "save")
  /\ UNCHANGED <<account, google, invite, budget, calm, solo>>

\* removeUserFromWorkspace to suspend, deleteOrgUser to remove.
CallMember(h) ==
  LET u == account[Row(h)].user IN
  /\ At(h, "call") /\ account[Row(h)].type = "claude" /\ account[Row(h)].ext = Identity
  /\ seat' = [seat EXCEPT ![u] = IF task[h].act = "remove" THEN "none"
                                 ELSE IF @ = "workspace" THEN "org" ELSE @]
  /\ Go(h, "save")
  /\ UNCHANGED <<account, google, invite, budget, calm, solo>>

Reinvite(h) ==
  /\ At(h, "reinvite")
  /\ Send(h, account[Row(h)].user, "save")
  /\ UNCHANGED <<account, google, seat, budget, calm, solo>>

\* Mutant: the new invitation's id is not stored.
SavedOldInvite(a, act, ext) ==
  CASE act = "suspend"   -> [account[a] EXCEPT !.status = "suspended", !.changed = now]
    [] act = "remove"    -> [account[a] EXCEPT !.status = "removed", !.changed = now,
                              !.due = IF account[a].type = "workspace" THEN now + Delay ELSE @]
    [] act = "unsuspend" -> [account[a] EXCEPT !.changed = now,
                              !.status = IF account[a].type = "workspace" THEN "active"
                                                                          ELSE "pending"]

Saved(a, act, ext) ==
  CASE act = "suspend"   -> [account[a] EXCEPT !.status = "suspended", !.changed = now]
    [] act = "remove"    -> [account[a] EXCEPT !.status = "removed", !.changed = now,
                              !.due = IF account[a].type = "workspace" THEN now + Delay ELSE @]
    [] act = "unsuspend" -> IF account[a].type = "workspace"
                              THEN [account[a] EXCEPT !.status = "active", !.changed = now]
                              ELSE [account[a] EXCEPT !.status = "pending", !.changed = now,
                                                      !.ext = ext]

Save(h) ==
  /\ At(h, "save")
  /\ account' = [account EXCEPT ![Row(h)] = Saved(Row(h), task[h].act, task[h].ext)]
  /\ Advance(h, "open")
  /\ UNCHANGED <<remote, budget, calm, solo>>

----------------------------------------------------------------------------
(* WorkspaceDeleteJob: its list is read once.                               *)

\* Mutant: the date is not compared.
PendingDeletionAnyDate ==
  {a \in AccountIds : /\ account[a].type = "workspace" /\ account[a].status = "removed"
                      /\ account[a].due # Never}

\* findPendingDeletion
PendingDeletion ==
  {a \in AccountIds : /\ account[a].type = "workspace" /\ account[a].status = "removed"
                      /\ account[a].due # Never /\ account[a].due <= now}

StartDeleteJob ==
  /\ At(Scheduler, "idle")
  /\ PendingDeletion # {}
  /\ Set(Scheduler, [NoTask EXCEPT !.pc = "delete", !.todo = PendingDeletion])
  /\ calm' = (calm /\ Quiet)
  /\ solo' = IF Quiet THEN {Scheduler} ELSE {}
  /\ UNCHANGED <<account, remote, budget>>

\* deleteUser; on an error the job goes on with the next row.
DeleteUser ==
  LET u == account[Row(Scheduler)].user IN
  /\ At(Scheduler, "delete")
  /\ IF google[u] # "absent"
       THEN google' = [google EXCEPT ![u] = "absent"] /\ Go(Scheduler, "clear")
       ELSE UNCHANGED google /\ Advance(Scheduler, "delete")
  /\ UNCHANGED <<account, invite, seat, budget, calm, solo>>

ClearDue ==
  /\ At(Scheduler, "clear") /\ TransactionFree
  /\ account' = [account EXCEPT ![Row(Scheduler)].due = Never]
  /\ Advance(Scheduler, "delete")
  /\ UNCHANGED <<remote, budget, calm, solo>>

----------------------------------------------------------------------------
(* WorkspaceSyncService.syncStudents, as far as the accounts go: what it    *)
(* does to User rows is not modelled here.                                  *)

StartSyncWorkspace(h) == Begin(h, "syncWorkspace", [NoTask EXCEPT !.pc = "list"])

\* Mutant: a suspended account counts as seen.
ListAll(h) ==
  /\ At(h, "list")
  /\ Set(h, [task[h] EXCEPT !.pc = "find", !.seen = {u \in Users : google[u] # "absent"}])
  /\ UNCHANGED <<account, remote, budget, calm, solo>>

\* listUsersInOU: suspended accounts count as not seen.
ListUsers(h) ==
  /\ At(h, "list")
  /\ Set(h, [task[h] EXCEPT !.pc = "find", !.seen = {u \in Users : google[u] = "active"}])
  /\ UNCHANGED <<account, remote, budget, calm, solo>>

FindUnseen(h) ==
  LET todo == {a \in AccountIds : /\ account[a].type = "workspace" /\ IsLive(a)
                                  /\ account[a].user \notin task[h].seen} IN
  /\ At(h, "find")
  /\ IF todo = {} THEN End(h) ELSE Set(h, [task[h] EXCEPT !.pc = "flag", !.todo = todo])
  /\ UNCHANGED <<account, remote, budget, calm, solo>>

\* Mutant: a status the schema does not know.
FlagUnseenDeleted(h) ==
  /\ At(h, "flag")
  /\ SetStatus(Row(h), "deleted")
  /\ Advance(h, "flag")
  /\ UNCHANGED <<remote, budget, calm, solo>>

\* One statement for each row, in no transaction.
FlagUnseen(h) ==
  /\ At(h, "flag")
  /\ SetStatus(Row(h), "removed")
  /\ Advance(h, "flag")
  /\ UNCHANGED <<remote, budget, calm, solo>>

----------------------------------------------------------------------------
(* AnthropicSyncService.reconcile                                           *)

StartSyncClaude(h) == Begin(h, "syncClaude", [NoTask EXCEPT !.pc = "fetch"])

\* fetchAllOrgUsers and fetchAllInvites: an accepted invitation is listed too.
Fetch(h) ==
  LET members == {u \in Users : seat[u] # "none"} IN
  /\ At(h, "fetch")
  /\ Set(h, [task[h] EXCEPT
               !.pc = "link", !.seen = members, !.people = members,
               !.listed = {i \in InviteIds : invite[i].state \in {"open", "accepted"}}])
  /\ UNCHANGED <<account, remote, budget, calm, solo>>

IsLinked(u) == \E a \in Rows(u, "claude") : account[a].ext = Identity

\* Pass 1: a member nobody's row names gets a row, if the address is primary.
LinkMember(h) ==
  /\ At(h, "link") /\ TransactionFree
  /\ \E u \in task[h].people :
       /\ IF ~IsLinked(u) /\ u \in LeagueUsers /\ Live(u, "claude") = {}
            THEN Insert(u, "claude", "active", Identity)
            ELSE UNCHANGED account
       /\ Set(h, [task[h] EXCEPT !.people = @ \ {u}])
  /\ UNCHANGED <<remote, budget, calm, solo>>

\* Pass 2: pending rows whose invitation is listed and whose invitee is a member.
FindAccepted(h) ==
  LET todo == {a \in AccountIds : /\ account[a].type = "claude" /\ account[a].status = "pending"
                                  /\ account[a].ext \in task[h].listed
                                  /\ invite[account[a].ext].user \in task[h].seen} IN
  /\ At(h, "link") /\ task[h].people = {}
  /\ Set(h, [task[h] EXCEPT !.pc = IF todo = {} THEN "findStale" ELSE "accept", !.todo = todo])
  /\ UNCHANGED <<account, remote, budget, calm, solo>>

\* The row is updated whatever became of it; addUserToWorkspace may fail.
RecordAccepted(h) ==
  LET u == account[Row(h)].user IN
  /\ At(h, "accept") /\ TransactionFree
  /\ account' = [account EXCEPT ![Row(h)].status = "active", ![Row(h)].ext = Identity,
                                ![Row(h)].changed = now]
  /\ \/ seat' = [seat EXCEPT ![u] = IF @ = "org" THEN "workspace" ELSE @] /\ UNCHANGED fails
     \/ fails < MaxFails /\ fails' = fails + 1 /\ UNCHANGED seat
  /\ IF task[h].todo = {Row(h)}
       THEN Set(h, [task[h] EXCEPT !.pc = "findStale", !.todo = {}])
       ELSE Advance(h, "accept")
  /\ UNCHANGED <<google, invite, now, ops, drift, calm, solo>>

\* Pass 3: rows whose external_id neither listing showed.
FindStale(h) ==
  LET shown(a) == IF account[a].ext = Identity THEN account[a].user \in task[h].seen
                                               ELSE account[a].ext \in task[h].listed
      todo == {a \in AccountIds : /\ account[a].type = "claude"
                                  /\ account[a].status \notin {"none", "removed"}
                                  /\ ~shown(a)} IN
  /\ At(h, "findStale")
  /\ IF todo = {} THEN End(h) ELSE Set(h, [task[h] EXCEPT !.pc = "stale", !.todo = todo])
  /\ UNCHANGED <<account, remote, budget, calm, solo>>

FlagStale(h) ==
  /\ At(h, "stale") /\ TransactionFree
  /\ SetStatus(Row(h), "removed")
  /\ Advance(h, "stale")
  /\ UNCHANGED <<remote, budget, calm, solo>>

----------------------------------------------------------------------------
(* Failures and the world outside                                           *)

\* A remote call fails.  A lifecycle operation is rolled back, but the calls
\* for Claude that are best effort are taken for done; the job goes on with
\* the next row; elsewhere the request ends.
RemoteFails(h) ==
  LET bestEffort == At(h, "call") /\ account[Row(h)].type = "claude" /\ task[h].act # "remove" IN
  /\ fails < MaxFails
  /\ task[h].pc \in {"create", "reactivate", "invite", "call", "reinvite", "delete",
                     "list", "fetch"}
  /\ CASE bestEffort                            -> Go(h, IF task[h].act = "unsuspend"
                                                          THEN "reinvite" ELSE "save")
       [] ~bestEffort /\ task[h].pc \in {"call", "reinvite"} -> Advance(h, "open")
       [] At(h, "delete")                       -> Advance(h, "delete")
       [] OTHER                                 -> End(h)
  /\ fails' = fails + 1
  /\ calm' = (calm /\ ~bestEffort)
  /\ UNCHANGED <<account, remote, now, ops, drift, solo>>

\* The transaction after a remote call fails: what the call did stays done.
TransactionFails(h) ==
  /\ fails < MaxFails
  /\ task[h].pc \in {"storeWorkspace", "storeClaude", "save", "clear", "accept", "stale"}
  /\ CASE At(h, "save")  -> Advance(h, "open")
       [] At(h, "clear") -> Advance(h, "delete")
       [] OTHER          -> End(h)
  /\ fails' = fails + 1
  /\ calm' = FALSE
  /\ UNCHANGED <<account, remote, now, ops, drift, solo>>

\* The server crashes and restarts: what was under way is lost.
Crash ==
  /\ ~Quiet
  /\ fails < MaxFails
  /\ task' = [h \in Tasks |-> NoTask]
  /\ fails' = fails + 1
  /\ calm' = FALSE /\ solo' = {}
  /\ UNCHANGED <<account, remote, now, ops, drift>>

\* The student accepts the invitation.
Accept(i) ==
  /\ invite[i].state = "open"
  /\ invite' = [invite EXCEPT ![i].state = "accepted"]
  /\ seat' = [seat EXCEPT ![invite[i].user] = IF @ = "none" THEN "org" ELSE @]
  /\ UNCHANGED <<account, google, budget, task, calm, solo>>

\* Somebody suspends or deletes the account in Google's console.
Drift(u) ==
  /\ drift < MaxDrift
  /\ google[u] # "absent"
  /\ \E s \in {"suspended", "absent"} : google' = [google EXCEPT ![u] = s]
  /\ drift' = drift + 1
  /\ calm' = FALSE /\ solo' = {}
  /\ UNCHANGED <<account, invite, seat, now, task, ops, fails>>

Tick ==
  /\ now < MaxNow
  /\ now' = now + 1
  /\ UNCHANGED <<account, remote, task, ops, fails, drift, calm, solo>>

----------------------------------------------------------------------------
\* Some students have a Workspace account already, the rows in the order they
\* were inserted.
Init ==
  /\ \E holder \in [AccountIds -> Users \cup {NoUser}] :
       /\ \A a, b \in AccountIds :
            /\ holder[a] = holder[b] /\ holder[a] # NoUser => a = b
            /\ a < b /\ holder[b] # NoUser => holder[a] # NoUser
       /\ account = [a \in AccountIds |->
                       IF holder[a] = NoUser THEN NoAccount
                       ELSE [NoAccount EXCEPT !.user = holder[a], !.status = "active"]]
       /\ google = [u \in Users |->
                      IF \E a \in AccountIds : holder[a] = u THEN "active" ELSE "absent"]
  /\ invite = [i \in InviteIds |-> [user |-> NoUser, state |-> "none"]]
  /\ seat = [u \in Users |-> "none"]
  /\ now = 0 /\ ops = 0 /\ fails = 0 /\ drift = 0
  /\ task = [h \in Tasks |-> NoTask]
  /\ calm = TRUE /\ solo = {}

Start(h) ==
  \/ \E u \in Users : StartProvisionWorkspace(h, u) \/ StartProvisionClaude(h, u)
  \/ \E a \in AccountIds, act \in {"suspend", "unsuspend", "remove"} : StartLifecycle(h, a, act)
  \/ \E us \in SUBSET Users, act \in {"suspend", "remove"} : StartBulk(h, us, act)
  \/ StartSyncWorkspace(h)
  \/ StartSyncClaude(h)

Step(h) ==
  \/ CreateUser(h) \/ Reactivate(h) \/ StoreWorkspace(h)
  \/ InviteMember(h) \/ StoreClaude(h)
  \/ Open(h) \/ CallGoogle(h) \/ CallInvitation(h) \/ CallMember(h) \/ Reinvite(h) \/ Save(h)
  \/ ListUsers(h) \/ FindUnseen(h) \/ FlagUnseen(h)
  \/ Fetch(h) \/ LinkMember(h) \/ FindAccepted(h) \/ RecordAccepted(h)
  \/ FindStale(h) \/ FlagStale(h)

DeleteJob == StartDeleteJob \/ DeleteUser \/ ClearDue

Next ==
  \/ \E h \in Handlers : Start(h) \/ Step(h)
  \/ DeleteJob
  \/ \E h \in Tasks : RemoteFails(h) \/ TransactionFails(h)
  \/ Crash
  \/ \E i \in InviteIds : Accept(i)
  \/ \E u \in Users : Drift(u)
  \/ Tick

Spec == Init /\ [][Next]_vars

\* Whoever has begun goes on, the job runs every hour, and time passes.
FairSpec ==
  /\ Spec
  /\ \A h \in Handlers : WF_vars(Step(h))
  /\ WF_vars(DeleteJob)
  /\ WF_vars(Tick)

----------------------------------------------------------------------------
(* Properties *)

\* Type correctness.
TypeOK ==
  /\ account \in [AccountIds -> [user: Users \cup {NoUser}, type: {"workspace", "claude"},
                                 status: {"none", "pending", "active", "suspended", "removed"},
                                 ext: {Identity} \cup InviteIds, changed: Nat,
                                 due: Nat \cup {Never}]]
  /\ google \in [Users -> {"absent", "active", "suspended"}]
  /\ invite \in [InviteIds -> [user: Users \cup {NoUser},
                               state: {"none", "open", "accepted", "cancelled"}]]
  /\ seat \in [Users -> {"none", "org", "workspace"}]
  /\ now \in Nat /\ ops \in Nat /\ fails \in Nat /\ drift \in Nat
  /\ task \in [Tasks -> [pc: {"idle", "create", "reactivate", "storeWorkspace", "invite",
                              "storeClaude", "open", "call", "reinvite", "save", "delete",
                              "clear", "list", "find", "flag", "fetch", "link", "accept",
                              "findStale", "stale"},
                         act: {"none", "suspend", "unsuspend", "remove"},
                         user: Users \cup {NoUser}, row: AccountIds \cup {0},
                         ext: {Identity} \cup InviteIds, todo: SUBSET AccountIds,
                         people: SUBSET Users, seen: SUBSET Users, listed: SUBSET InviteIds]]
  /\ calm \in BOOLEAN /\ solo \subseteq Tasks

\* When requests do not overlap and nothing gets lost, the rows tell the truth
\* about Google: a student's account can be used exactly when a row of theirs
\* says so, and no student has two rows.
WorkspaceAgrees ==
  calm /\ Quiet =>
    \A u \in Users : /\ (google[u] = "active") <=> (Live(u, "workspace") # {})
                     /\ Cardinality(Rows(u, "workspace")) <= 1

\* Likewise a member of the Students workspace is one of whom an active row says
\* so: a suspension or removal is never on record only.
SeatOnRecord ==
  calm /\ Quiet =>
    \A u \in Users : seat[u] = "workspace" =>
      \E a \in Rows(u, "claude") : account[a].status = "active" /\ account[a].ext = Identity

\* Likewise a pending row names an invitation that can still be, or has been,
\* accepted, and no other row names it.
PendingIsInvited ==
  calm /\ Quiet =>
    \A a \in AccountIds : account[a].status = "pending" =>
      /\ account[a].ext # Identity /\ invite[account[a].ext].state \in {"open", "accepted"}
      /\ \A b \in AccountIds \ {a} : account[b].status # "none" => account[b].ext # account[a].ext

\* Likewise nobody's Google account is deleted before the retention period after
\* its removal is over.  (A job that overlaps a reactivation, or a sync that flags a
\* row whose date is from an earlier removal, does delete early: not in calm.)
DeletedAfterGrace ==
  [][\A u \in Users : calm /\ google[u] # "absent" /\ google'[u] = "absent" /\ drift' = drift =>
       \A a \in Rows(u, "workspace") :
         account[a].status = "removed" /\ account[a].changed + Delay <= now]_vars

\* Whatever has overlapped, got lost or been changed by hand before: a sync that runs
\* to its end alone leaves no row that claims what is not there, neither a live row
\* without a Google account that can be used, nor a Claude row without a seat or an
\* invitation that can be, or has been, accepted.
SyncRepairs ==
  [][\A h \in Handlers : solo = {h} /\ task'[h].pc = "idle" /\ fails' = fails =>
       /\ At(h, "find") \/ At(h, "flag") =>
            \A u \in Users : (Live(u, "workspace") # {})' => google'[u] = "active"
       /\ At(h, "findStale") \/ At(h, "stale") =>
            \A a \in AccountIds :
              account'[a].type = "claude" /\ account'[a].status \notin {"none", "removed"} =>
                IF account'[a].ext = Identity
                  THEN seat'[account'[a].user] # "none"
                  ELSE invite'[account'[a].ext].state \in {"open", "accepted"}]_vars

\* Whatever fails or overlaps, an account whose deletion was scheduled is deleted,
\* unless the student gets one back first.  (At "clear" the job has deleted it.)
RemovedIsErased ==
  \A u \in Users :
    (/\ ~At(Scheduler, "clear")
     /\ \E a \in Rows(u, "workspace") :
          account[a].status = "removed" /\ account[a].due # Never /\ account[a].due <= MaxNow)
      ~> (google[u] = "absent" \/ Live(u, "workspace") # {})
=============================================================================
