----------------------- MODULE ExternalAccounts_proofs -----------------------
(***************************************************************************)
(* For any number of students, rows and invitations, and any retention:     *)
(* while no two tasks overlap, nothing gets lost and nobody changes         *)
(* accounts at Google by hand, the rows agree with Google and Anthropic     *)
(* whenever no task is under way, and no account is deleted before its      *)
(* retention is over.  Types are correct whatever happens.                  *)
(***************************************************************************)
EXTENDS ExternalAccounts, FiniteSetTheorems, NaturalsInduction, WellFoundedInduction, TLAPS

-----------------------------------------------------------------------------
(* The inductive invariant *)

Points == {"idle", "create", "reactivate", "storeWorkspace", "invite", "storeClaude", "open",
           "call", "reinvite", "save", "delete", "clear", "list", "find", "flag", "fetch",
           "link", "accept", "findStale", "stale"}

Account == [user: Users \cup {NoUser}, type: {"workspace", "claude"},
            status: {"none", "pending", "active", "suspended", "removed"},
            ext: {Identity} \cup InviteIds, changed: Nat, due: Nat \cup {Never}]

Invitation == [user: Users \cup {NoUser}, state: {"none", "open", "accepted", "cancelled"}]

Task == [pc: Points, act: {"none", "suspend", "unsuspend", "remove"}, user: Users \cup {NoUser},
         row: AccountIds \cup {0}, ext: {Identity} \cup InviteIds, todo: SUBSET AccountIds,
         people: SUBSET Users, seen: SUBSET Users, listed: SUBSET InviteIds]

Typed ==
  /\ account \in [AccountIds -> Account] /\ google \in [Users -> {"absent", "active", "suspended"}]
  /\ invite \in [InviteIds -> Invitation] /\ seat \in [Users -> {"none", "org", "workspace"}]
  /\ now \in Nat /\ ops \in Nat /\ fails \in Nat /\ drift \in Nat /\ calm \in BOOLEAN

\* A lifecycle request knows which operation it is, and which row.
Knows(t) == t.pc \in {"open", "call", "reinvite", "save"} => t.act # "none" /\ t.todo # {}

Types ==
  /\ Typed
  /\ task \in [Tasks -> Task] /\ \A h \in Tasks : Knows(task[h])

There(a) == account[a].status # "none"

\* A row is a user's, and so is the invitation it names, which nobody else's row names.
RowsLinked ==
  \A a \in AccountIds : There(a) =>
    /\ account[a].user \in Users
    /\ account[a].ext # Identity =>
         invite[account[a].ext].state # "none" /\ invite[account[a].ext].user = account[a].user

OneInvite ==
  \A a, b \in AccountIds :
    There(a) /\ There(b) /\ a # b /\ account[a].ext # Identity => account[b].ext # account[a].ext

OneRow == \A u \in Users : \A a, b \in Rows(u, "workspace") : a = b

\* What the deletion of a removed row is scheduled for is the end of its retention.
DueOK ==
  \A a \in AccountIds :
    account[a].type = "workspace" /\ account[a].status = "removed" /\ account[a].due # Never =>
      account[a].due = account[a].changed + Delay

\* Whom the next statement of task t is to bring into agreement, and the row it is to write.
InHand(t, u) ==
  \/ t.pc = "storeWorkspace" /\ t.user = u
  \/ t.pc = "save" /\ account[First(t.todo)].type = "workspace" /\ account[First(t.todo)].user = u
Writes(t, a) == t.pc = "save" /\ a = First(t.todo)

Agrees(u)   == (google[u] = "active") <=> (Live(u, "workspace") # {})
Recorded(u) == seat[u] = "workspace" =>
                 \E a \in Rows(u, "claude") : account[a].status = "active" /\ account[a].ext = Identity
Invited(a)  == account[a].status = "pending" =>
                 account[a].ext # Identity /\ invite[account[a].ext].state \in {"open", "accepted"}

\* An invitation to u that no row names yet.
Fresh(i, u) ==
  /\ i \in InviteIds /\ invite[i].user = u /\ invite[i].state \in {"open", "accepted"}
  /\ \A a \in AccountIds : There(a) => account[a].ext # i

\* The rows a loop has still to visit; t is at the first of them.
Visits(t, type) ==
  t.todo # {} /\ \A a \in t.todo : There(a) /\ (type = "any" \/ account[a].type = type)

Provisions(t) ==
  /\ t.user \in Users
  /\ \/ t.row = 0 /\ Rows(t.user, "workspace") = {}
     \/ t.row \in Rows(t.user, "workspace")

\* What task t has read, or done elsewhere, is still so.
Good(t) ==
  LET a == First(t.todo) IN
  /\ t.pc = "create" => Provisions(t) /\ t.row = 0
  /\ t.pc = "reactivate" => Provisions(t) /\ t.row # 0
  /\ t.pc = "storeWorkspace" => Provisions(t) /\ google[t.user] = "active"
  /\ t.pc = "invite" => t.user \in Users
  /\ t.pc = "storeClaude" => t.user \in Users /\ Fresh(t.ext, t.user)
  /\ t.pc \in {"open", "call", "reinvite", "save"} => Visits(t, "any")
  /\ t.pc \in {"call", "reinvite"} => Admissible(a, t.act)
  /\ t.pc = "reinvite" => t.act = "unsuspend" /\ account[a].type = "claude"
  /\ t.pc = "save" /\ account[a].type = "workspace" =>
       (google[account[a].user] = "active" <=> t.act = "unsuspend")
  /\ t.pc = "save" /\ account[a].type = "claude" =>
       IF t.act = "unsuspend" THEN Fresh(t.ext, account[a].user) /\ account[a].ext # Identity
       ELSE account[a].ext = Identity => seat[account[a].user] # "workspace"
  /\ t.pc \in {"delete", "clear"} =>
       /\ Visits(t, "workspace")
       /\ \A b \in t.todo : account[b].status = "removed" /\ account[b].due # Never /\ account[b].due <= now
  /\ t.pc = "find" => \A u \in Users : google[u] = "active" => u \in t.seen
  /\ t.pc # "flag"
  /\ t.pc \in {"link", "accept", "findStale", "stale"} =>
       \A u \in Users : seat[u] = "workspace" => u \in t.seen
  /\ t.pc = "accept" => Visits(t, "claude") /\ \A b \in t.todo : account[b].user \in t.seen
  /\ t.pc = "stale" =>
       /\ Visits(t, "claude")
       /\ \A b \in t.todo : account[b].ext = Identity => account[b].user \notin t.seen

Idle(h) == task[h].pc = "idle"

\* In calm one task is under way at most.
Alone == \A g, h \in Tasks : ~Idle(g) /\ ~Idle(h) => g = h

Tables == RowsLinked /\ OneInvite /\ OneRow /\ DueOK /\ \A u \in Users : Recorded(u)

Calmly ==
  /\ Tables
  /\ Alone /\ \A h \in Tasks : Good(task[h])
  /\ \A u \in Users : Agrees(u) \/ \E h \in Tasks : InHand(task[h], u)
  /\ \A a \in AccountIds : Invited(a) \/ \E h \in Tasks : Writes(task[h], a)

IInv == Types /\ (calm => Calmly)

\* The same when t is the only task.
Steady(t) ==
  /\ Tables /\ Good(t)
  /\ \A u \in Users : Agrees(u) \/ InHand(t, u)
  /\ \A a \in AccountIds : Invited(a) \/ Writes(t, a)

-----------------------------------------------------------------------------
(* Rows and tasks *)

LEMMA FirstIsIn ==
  ASSUME NEW S \in SUBSET AccountIds, S # {}
  PROVE  First(S) \in S
<1> DEFINE R == OpToRel(<, Nat)
<1>1. S \subseteq Nat
  BY AccountsAssumption DEF AccountIds
<1>2. PICK a \in S : \A b \in S : ~(<<b, a>> \in R)
  BY <1>1, NatLessThanWellFounded, WFMin
<1>3. \A b \in S : a <= b
  <2> TAKE b \in S
  <2>1. ~(b < a)
    BY <1>1, <1>2 DEF OpToRel
  <2> QED BY <1>1, <2>1
<1> QED BY <1>3 DEF First

LEMMA NoTaskTyped == NoTask \in Task /\ NoTask.pc = "idle" /\ Knows(NoTask)
BY DEF NoTask, Task, Points, Identity, Knows

LEMMA TypesAre == TypeOK <=> Typed /\ solo \subseteq Tasks /\ task \in [Tasks -> Task]
BY DEF TypeOK, Typed, Account, Invitation, Task, Points

LEMMA IdleIsGood == ASSUME NEW t, t.pc = "idle" PROVE Good(t)
BY DEF Good

\* In calm, what holds of the only task.
LEMMA IsSteady ==
  ASSUME IInv, calm, NEW h \in Tasks, \A g \in Tasks : g # h => Idle(g)
  PROVE  Steady(task[h])
<1>1. \A g \in Tasks : Idle(g) => (\A u : ~InHand(task[g], u)) /\ (\A a : ~Writes(task[g], a))
  BY DEF Idle, InHand, Writes
<1> QED BY <1>1 DEF IInv, Calmly, Steady

LEMMA BusyAlone ==
  ASSUME IInv, calm, NEW h \in Tasks, ~Idle(h)
  PROVE  \A g \in Tasks : g # h => Idle(g)
BY DEF IInv, Calmly, Alone

\* One task goes on, and is the only one in calm.
LEMMA Moves ==
  ASSUME IInv, NEW h \in Tasks, NEW t \in Task, Set(h, t), Knows(t), Typed',
         calm' => calm /\ (\A g \in Tasks : g # h => Idle(g)) /\ (Steady(task[h]) => Steady(t)')
  PROVE  IInv'
<1>1. task' = [task EXCEPT ![h] = t] /\ task \in [Tasks -> Task]
  BY DEF Set, IInv, Types
<1>2. task'[h] = t /\ \A g \in Tasks : g # h => task'[g] = task[g]
  BY <1>1
<1>3. Types'
  <2>1. \A g \in Tasks : Knows(task'[g])
    BY <1>2 DEF IInv, Types
  <2>2. (\A g \in Tasks : Knows(task[g]))'
    BY <2>1 DEF Knows
  <2> QED BY <1>1, <2>2 DEF Types
<1>4. ASSUME calm' PROVE Calmly'
  <2>1. Steady(t)' /\ \A g \in Tasks : g # h => task'[g].pc = "idle"
    BY <1>2, <1>4, IsSteady DEF Idle
  <2>2. Alone'
    BY <2>1 DEF Alone, Idle
  <2>3. ASSUME NEW g \in Tasks PROVE Good(task[g])'
    <3>1. CASE g = h
      <4>1. task'[g] = t
        BY <1>2, <3>1
      <4> QED BY <2>1, <4>1 DEF Steady
    <3>2. CASE g # h
      <4>1. task'[g].pc = "idle"
        BY <2>1, <3>2
      <4> QED BY <4>1 DEF Good
    <3> QED BY <3>1, <3>2
  <2>4. \A u \in Users : Agrees(u)' \/ InHand(task[h], u)'
    BY <1>2, <2>1 DEF Steady, InHand
  <2>5. \A a \in AccountIds : Invited(a)' \/ Writes(task[h], a)'
    BY <1>2, <2>1 DEF Steady, Writes
  <2> QED BY <2>1, <2>2, <2>3, <2>4, <2>5 DEF Steady, Calmly
<1> QED BY <1>3, <1>4 DEF IInv

\* What a task knows stays so while nothing is written; the job's dates may pass.
LEMMA GoodStays ==
  ASSUME NEW t, Good(t), UNCHANGED <<account, remote>>, now' = now \/ t.pc \notin {"delete", "clear"}
  PROVE  Good(t)'
<1>1. UNCHANGED account /\ UNCHANGED google /\ UNCHANGED invite /\ UNCHANGED seat
  BY DEF remote
<1>2. /\ \A type : Visits(t, type)' <=> Visits(t, type)
      /\ \A i, u : Fresh(i, u)' <=> Fresh(i, u)
      /\ \A a, act : Admissible(a, act)' <=> Admissible(a, act)
  BY <1>1 DEF Visits, There, Fresh, Admissible
<1>3. Provisions(t)' <=> Provisions(t)
  BY <1>1 DEF Provisions, Rows
<1> QED BY <1>1, <1>2, <1>3 DEF Good

\* A task that only reads, or that failed to do anything, goes on.
LEMMA Rereads ==
  ASSUME NEW b, NEW t, Steady(b), b.pc \notin {"storeWorkspace", "save"}, Good(t),
         UNCHANGED <<account, remote, now>>
  PROVE  Steady(t)'
<1>1. UNCHANGED account /\ UNCHANGED google /\ UNCHANGED invite /\ UNCHANGED seat /\ UNCHANGED now
  BY DEF remote
<1>2. Tables'
  BY <1>1 DEF Steady, Tables, RowsLinked, OneInvite, OneRow, DueOK, Recorded, Rows, There
<1>3. \A u \in Users : Agrees(u)'
  BY <1>1 DEF Steady, InHand, Agrees, Live, Rows, IsLive
<1>4. \A a \in AccountIds : Invited(a)'
  BY <1>1 DEF Steady, Writes, Invited
<1>5. Good(t)'
  BY GoodStays
<1> QED BY <1>2, <1>3, <1>4, <1>5 DEF Steady

LEMMA MovesReading ==
  ASSUME IInv, NEW h \in Tasks, ~Idle(h), NEW t \in Task, Set(h, t), Knows(t),
         UNCHANGED <<account, remote, now, ops, drift>>, fails' \in Nat, calm' \in BOOLEAN,
         calm' => /\ calm /\ task[h].pc \notin {"storeWorkspace", "save"}
                  /\ Steady(task[h]) => Good(t)
  PROVE  IInv'
<1>1. Typed'
  BY DEF IInv, Types, Typed, remote
<1>2. ASSUME calm' PROVE calm /\ (\A g \in Tasks : g # h => Idle(g)) /\ (Steady(task[h]) => Steady(t)')
  <2> PICK b : b = task[h]
    OBVIOUS
  <2>1. Steady(b) => Steady(t)'
    BY <1>2, Rereads
  <2> QED BY <1>2, <2>1, BusyAlone
<1> QED BY <1>1, <1>2, Moves

-----------------------------------------------------------------------------
(* Requests begin *)

\* In calm a request begins when nothing is under way: everything agrees.
LEMMA Begins ==
  ASSUME IInv, NEW h \in Tasks, NEW t \in Task, Set(h, t), Knows(t), calm' = (calm /\ Quiet),
         UNCHANGED <<account, remote, now, drift>>, ops' \in Nat, fails' = fails,
         calm /\ Quiet /\ Tables /\ (\A u \in Users : Agrees(u)) => Good(t)
  PROVE  IInv'
<1>1. Typed'
  BY DEF IInv, Types, Typed, remote
<1>2. ASSUME calm' PROVE calm /\ (\A g \in Tasks : g # h => Idle(g)) /\ (Steady(task[h]) => Steady(t)')
  <2> PICK b : b = task[h]
    OBVIOUS
  <2>1. calm /\ Quiet /\ (\A g \in Tasks : Idle(g)) /\ b.pc = "idle"
    BY <1>2 DEF Quiet, At, Idle
  <2>2. ASSUME Steady(b) PROVE Good(t)
    BY <2>1, <2>2 DEF Steady, InHand
  <2>3. Steady(b) => Steady(t)'
    BY <2>1, <2>2, Rereads
  <2> QED BY <2>1, <2>3
<1> QED BY <1>1, <1>2, Moves

LEMMA BeginKeeps ==
  ASSUME IInv, NEW h \in Handlers, NEW op, NEW t \in Task, Begin(h, op, t), Knows(t),
         calm /\ Quiet /\ Tables /\ (\A u \in Users : Agrees(u)) => Good(t)
  PROVE  IInv'
<1>1. /\ Set(h, t) /\ calm' = (calm /\ Quiet) /\ ops' = ops + 1
      /\ UNCHANGED <<account, remote, now, fails, drift>>
  BY DEF Begin
<1>2. ops' \in Nat /\ h \in Tasks
  BY <1>1 DEF IInv, Types, Typed, Tasks
<1> QED BY <1>1, <1>2, Begins

LEMMA RowsAre ==
  ASSUME NEW u, NEW type
  PROVE  /\ \A a \in Rows(u, type) :
              a \in AccountIds /\ There(a) /\ account[a].user = u /\ account[a].type = type
         /\ Rows(u, type) \subseteq AccountIds
BY DEF Rows, There

LEMMA StartProvisionWorkspaceKeeps ==
  ASSUME IInv, NEW h \in Handlers, NEW u \in Users, StartProvisionWorkspace(h, u)
  PROVE  IInv'
<1>1. CASE /\ Rows(u, "workspace") = {}
           /\ Begin(h, "provisionWorkspace", [NoTask EXCEPT !.pc = "create", !.user = u])
  <2> DEFINE t == [NoTask EXCEPT !.pc = "create", !.user = u]
  <2>1. t \in Task /\ t.pc = "create" /\ t.user = u /\ t.row = 0
    BY DEF NoTask, Task, Points, Identity
  <2> HIDE DEF t
  <2>2. Begin(h, "provisionWorkspace", t)
    BY <1>1 DEF t
  <2>3. Good(t) /\ Knows(t)
    BY <1>1, <2>1 DEF Good, Provisions, Knows
  <2> QED BY <2>1, <2>2, <2>3, BeginKeeps
<1>2. ASSUME NEW a \in Rows(u, "workspace"),
             Begin(h, "provisionWorkspace", [NoTask EXCEPT !.pc = "reactivate", !.user = u, !.row = a])
      PROVE  IInv'
  <2> DEFINE t == [NoTask EXCEPT !.pc = "reactivate", !.user = u, !.row = a]
  <2>0. a \in AccountIds /\ a # 0
    BY RowsAre DEF AccountIds
  <2>1. t \in Task /\ t.pc = "reactivate" /\ t.user = u /\ t.row = a
    BY <2>0 DEF NoTask, Task, Points, Identity
  <2> HIDE DEF t
  <2>2. Begin(h, "provisionWorkspace", t)
    BY <1>2 DEF t
  <2>3. Good(t) /\ Knows(t)
    BY <2>0, <2>1 DEF Good, Provisions, Knows
  <2> QED BY <2>1, <2>2, <2>3, BeginKeeps
<1> QED BY <1>1, <1>2 DEF StartProvisionWorkspace

LEMMA StartProvisionClaudeKeeps ==
  ASSUME IInv, NEW h \in Handlers, NEW u \in Users, StartProvisionClaude(h, u)
  PROVE  IInv'
<1> DEFINE t == [NoTask EXCEPT !.pc = "invite", !.user = u]
<1>1. t \in Task /\ t.pc = "invite" /\ t.user = u
  BY DEF NoTask, Task, Points, Identity
<1>2. Begin(h, "provisionClaude", t)
  BY DEF StartProvisionClaude
<1> HIDE DEF t
<1>3. Good(t) /\ Knows(t)
  BY <1>1 DEF Good, Knows
<1> QED BY <1>1, <1>2, <1>3, BeginKeeps

LEMMA StartLifecycleKeeps ==
  ASSUME IInv, NEW h \in Handlers, NEW a \in AccountIds, NEW act \in {"suspend", "unsuspend", "remove"},
         StartLifecycle(h, a, act)
  PROVE  IInv'
<1> DEFINE t == [NoTask EXCEPT !.pc = "open", !.act = act, !.todo = {a}]
<1>1. t \in Task /\ t.pc = "open" /\ t.act = act /\ t.todo = {a}
  BY DEF NoTask, Task, Points, Identity
<1>2. Begin(h, act, t) /\ There(a)
  BY DEF StartLifecycle, There
<1> HIDE DEF t
<1>3. Good(t) /\ Knows(t)
  BY <1>1, <1>2 DEF Good, Knows, Visits
<1> QED BY <1>1, <1>2, <1>3, BeginKeeps

LEMMA StartBulkKeeps ==
  ASSUME IInv, NEW h \in Handlers, NEW us, NEW act \in {"suspend", "remove"}, StartBulk(h, us, act)
  PROVE  IInv'
<1> PICK s : s = Eligible(us, act)
  OBVIOUS
<1> DEFINE t == [NoTask EXCEPT !.pc = "open", !.act = act, !.todo = s]
<1>1. s \subseteq AccountIds /\ s # {} /\ \A a \in s : There(a)
  BY DEF StartBulk, Eligible, There
<1>2. t \in Task /\ t.pc = "open" /\ t.act = act /\ t.todo = s
  BY <1>1 DEF NoTask, Task, Points, Identity
<1>3. Begin(h, "bulk", t)
  BY DEF StartBulk
<1> HIDE DEF t
<1>4. Good(t) /\ Knows(t)
  BY <1>1, <1>2 DEF Good, Knows, Visits
<1> QED BY <1>2, <1>3, <1>4, BeginKeeps

LEMMA StartSyncKeeps ==
  ASSUME IInv, NEW h \in Handlers, StartSyncWorkspace(h) \/ StartSyncClaude(h)
  PROVE  IInv'
<1>1. ASSUME NEW op, NEW pc \in {"list", "fetch"}, Begin(h, op, [NoTask EXCEPT !.pc = pc]) PROVE IInv'
  <2> DEFINE t == [NoTask EXCEPT !.pc = pc]
  <2>1. t \in Task /\ t.pc = pc
    BY DEF NoTask, Task, Points, Identity
  <2>2. Begin(h, op, t)
    BY <1>1
  <2> HIDE DEF t
  <2>3. Good(t) /\ Knows(t)
    BY <2>1 DEF Good, Knows
  <2> QED BY <2>1, <2>2, <2>3, BeginKeeps
<1> QED BY <1>1 DEF StartSyncWorkspace, StartSyncClaude

LEMMA StartKeeps == ASSUME IInv, NEW h \in Handlers, Start(h) PROVE IInv'
<1>1. ASSUME NEW u \in Users, StartProvisionWorkspace(h, u) \/ StartProvisionClaude(h, u) PROVE IInv'
  BY <1>1, StartProvisionWorkspaceKeeps, StartProvisionClaudeKeeps
<1>2. ASSUME NEW a \in AccountIds, NEW act \in {"suspend", "unsuspend", "remove"}, StartLifecycle(h, a, act)
      PROVE  IInv'
  BY <1>2, StartLifecycleKeeps
<1>3. ASSUME NEW us \in SUBSET Users, NEW act \in {"suspend", "remove"}, StartBulk(h, us, act) PROVE IInv'
  BY <1>3, StartBulkKeeps
<1> QED BY <1>1, <1>2, <1>3, StartSyncKeeps DEF Start

\* The job picks rows that were removed.
LEMMA StartDeleteJobKeeps == ASSUME IInv, StartDeleteJob PROVE IInv'
<1> PICK s : s = PendingDeletion
  OBVIOUS
<1> DEFINE t == [NoTask EXCEPT !.pc = "delete", !.todo = s]
<1>1. s # {} /\ Set(Scheduler, t) /\ calm' = (calm /\ Quiet) /\ UNCHANGED <<account, remote, budget>>
  BY DEF StartDeleteJob
<1>2. s \subseteq AccountIds /\ \A a \in s :
        /\ There(a) /\ account[a].type = "workspace" /\ account[a].status = "removed"
        /\ account[a].due # Never /\ account[a].due <= now
  BY DEF PendingDeletion, There
<1>3. t \in Task /\ t.pc = "delete" /\ t.todo = s
  BY <1>2 DEF NoTask, Task, Points, Identity
<1> HIDE DEF t
<1>4. Good(t) /\ Knows(t)
  BY <1>1, <1>2, <1>3 DEF Good, Knows, Visits
<1>5. Scheduler \in Tasks /\ ops' \in Nat /\ fails' = fails /\ UNCHANGED <<account, remote, now, drift>>
  BY <1>1 DEF Tasks, budget, IInv, Types, Typed
<1> QED BY <1>1, <1>3, <1>4, <1>5, Begins

-----------------------------------------------------------------------------
(* Provisioning *)

LEMMA TaskTyped ==
  ASSUME IInv, NEW h \in Tasks
  PROVE  /\ task[h] \in Task /\ Knows(task[h]) /\ Typed
         /\ task[h].todo \in SUBSET AccountIds /\ task[h].user \in Users \cup {NoUser}
         /\ task[h].ext \in {Identity} \cup InviteIds
BY DEF IInv, Types, Task

\* A task goes on with other rows, or with the invitation it sent.
LEMMA TodoSet ==
  ASSUME NEW b \in Task, NEW pc \in Points, NEW s \in SUBSET AccountIds
  PROVE  [b EXCEPT !.pc = pc, !.todo = s] \in Task
BY DEF Task

LEMMA ExtSet ==
  ASSUME NEW b \in Task, NEW pc \in Points, NEW i \in InviteIds
  PROVE  [b EXCEPT !.pc = pc, !.ext = i] \in Task
BY DEF Task

\* A request ends.
LEMMA EndKeeps ==
  ASSUME IInv, NEW h \in Tasks, ~Idle(h), End(h), UNCHANGED <<account, remote, now, ops, drift>>,
         fails' \in Nat, calm' \in BOOLEAN,
         calm' => calm /\ task[h].pc \notin {"storeWorkspace", "save"}
  PROVE  IInv'
BY NoTaskTyped, IdleIsGood, MovesReading DEF End

LEMMA GoogleWritten ==
  ASSUME Typed, NEW u \in Users, NEW v \in {"absent", "active", "suspended"},
         google' = [google EXCEPT ![u] = v], UNCHANGED <<account, invite, seat, now>>
  PROVE  /\ google'[u] = v /\ (\A w \in Users : w # u => google'[w] = google[w])
         /\ \A w, type : Rows(w, type)' = Rows(w, type) /\ Live(w, type)' = Live(w, type)
         /\ Tables => Tables'
         /\ \A w \in Users : w # u => (Agrees(w)' <=> Agrees(w))
         /\ \A a \in AccountIds : Invited(a)' <=> Invited(a)
<1>1. google'[u] = v /\ \A w \in Users : w # u => google'[w] = google[w]
  BY DEF Typed
<1>2. \A w, type : Rows(w, type)' = Rows(w, type) /\ Live(w, type)' = Live(w, type)
  BY DEF Rows, Live, IsLive
<1>3. Tables => Tables'
  BY <1>2 DEF Tables, RowsLinked, OneInvite, OneRow, DueOK, Recorded, There
<1>4. \A w \in Users : w # u => (Agrees(w)' <=> Agrees(w))
  BY <1>1, <1>2 DEF Agrees
<1>5. \A a \in AccountIds : Invited(a)' <=> Invited(a)
  BY DEF Invited
<1> QED BY <1>1, <1>2, <1>3, <1>4, <1>5

\* Google has the account, and the row is to be written.
LEMMA GoogleIsReady ==
  ASSUME IInv, NEW h \in Handlers, task[h].pc \in {"create", "reactivate"},
         google' = [google EXCEPT ![task[h].user] = "active"], Go(h, "storeWorkspace"),
         UNCHANGED <<account, invite, seat, budget, calm>>
  PROVE  IInv'
<1> PICK b, u : b = task[h] /\ u = b.user
  OBVIOUS
<1> PICK t : t = [b EXCEPT !.pc = "storeWorkspace"]
  OBVIOUS
<1>1. h \in Tasks /\ ~Idle(h) /\ b \in Task /\ Typed
  BY TaskTyped DEF Tasks, Idle
<1>2. t \in Task /\ t.pc = "storeWorkspace" /\ t.user = u /\ t.row = b.row
  BY <1>1 DEF Task, Points
<1>3. Set(h, t) /\ Knows(t)
  BY <1>2 DEF Go, Knows
<1>4. Typed'
  BY <1>1 DEF Typed, budget
<1>5. ASSUME calm, Steady(b) PROVE Steady(t)'
  <2>1. u \in Users /\ Provisions(b)
    BY <1>5 DEF Steady, Good, Provisions
  <2>2. /\ google'[u] = "active" /\ Tables'
        /\ \A w, type : Rows(w, type)' = Rows(w, type) /\ Live(w, type)' = Live(w, type)
        /\ \A w \in Users : w # u => (Agrees(w)' <=> Agrees(w))
        /\ \A a \in AccountIds : Invited(a)' <=> Invited(a)
    BY <1>1, <1>5, <2>1, GoogleWritten DEF Steady, budget
  <2>3. Good(t)'
    BY <1>2, <2>1, <2>2 DEF Good, Provisions
  <2>4. \A w \in Users : Agrees(w)' \/ InHand(t, w)'
    BY <1>2, <1>5, <2>2 DEF Steady, InHand
  <2>5. \A a \in AccountIds : Invited(a)'
    BY <1>5, <2>2 DEF Steady, Writes
  <2> QED BY <2>2, <2>3, <2>4, <2>5 DEF Steady
<1> QED BY <1>1, <1>2, <1>3, <1>4, <1>5, BusyAlone, Moves

LEMMA CreateUserKeeps == ASSUME IInv, NEW h \in Handlers, CreateUser(h) PROVE IInv'
<1>1. At(h, "create") /\ UNCHANGED <<account, invite, seat, budget, calm>> /\ h \in Tasks
  BY DEF CreateUser, Tasks
<1>2. CASE google' = [google EXCEPT ![task[h].user] = "active"] /\ Go(h, "storeWorkspace")
  BY <1>1, <1>2, GoogleIsReady DEF At
<1>3. CASE UNCHANGED google /\ End(h)
  BY <1>1, <1>3, TaskTyped, EndKeeps DEF At, Idle, remote, budget, Typed
<1> QED BY <1>2, <1>3 DEF CreateUser

LEMMA ReactivateKeeps == ASSUME IInv, NEW h \in Handlers, Reactivate(h) PROVE IInv'
<1>1. At(h, "reactivate") /\ UNCHANGED <<account, invite, seat, budget, calm>> /\ h \in Tasks
  BY DEF Reactivate, Tasks
<1>2. CASE google' = [google EXCEPT ![task[h].user] = "active"] /\ Go(h, "storeWorkspace")
  BY <1>1, <1>2, GoogleIsReady DEF At
<1>3. CASE UNCHANGED google /\ End(h)
  BY <1>1, <1>3, TaskTyped, EndKeeps DEF At, Idle, remote, budget, Typed
<1> QED BY <1>2, <1>3 DEF Reactivate

\* A row is written: whose it is stays, and it is still there.
LEMMA RowWritten ==
  ASSUME Typed, NEW a \in AccountIds, There(a), NEW r, account' = [account EXCEPT ![a] = r],
         r.user = account[a].user, r.type = account[a].type, r.status # "none"
  PROVE  /\ account'[a] = r /\ \A c \in AccountIds : c # a => account'[c] = account[c]
         /\ \A c \in AccountIds : There(c)' <=> There(c)
         /\ \A w, type : Rows(w, type)' = Rows(w, type)
<1>1. account'[a] = r /\ \A c \in AccountIds : c # a => account'[c] = account[c]
  BY DEF Typed
<1>2. \A c \in AccountIds : There(c)' <=> There(c)
  BY <1>1 DEF There
<1>3. \A w, type : Rows(w, type)' = Rows(w, type)
  BY <1>1 DEF Rows, There
<1> QED BY <1>1, <1>2, <1>3

\* A row is inserted.
LEMMA RowInserted ==
  ASSUME Typed, NEW user, NEW type, NEW status \in {"pending", "active"}, NEW ext,
         Insert(user, type, status, ext)
  PROVE  \E a \in AccountIds :
           LET r == [user |-> user, type |-> type, status |-> status, ext |-> ext,
                     changed |-> now, due |-> Never] IN
           /\ ~There(a) /\ account' = [account EXCEPT ![a] = r]
           /\ account'[a] = r /\ \A c \in AccountIds : c # a => account'[c] = account[c]
           /\ There(a)' /\ \A c \in AccountIds : c # a => (There(c)' <=> There(c))
           /\ \A w, ty : Rows(w, ty)' = Rows(w, ty) \cup (IF w = user /\ ty = type THEN {a} ELSE {})
<1> PICK a : a = First(FreeIds)
  OBVIOUS
<1> PICK r : r = [user |-> user, type |-> type, status |-> status, ext |-> ext,
                  changed |-> now, due |-> Never]
  OBVIOUS
<1>1. a \in AccountIds /\ ~There(a)
  <2>1. FreeIds \subseteq AccountIds /\ FreeIds # {}
    BY DEF FreeIds, Insert
  <2> QED BY <2>1, FirstIsIn DEF FreeIds, There
<1>2. account' = [account EXCEPT ![a] = r]
  BY DEF Insert
<1>3. account'[a] = r /\ \A c \in AccountIds : c # a => account'[c] = account[c]
  BY <1>1, <1>2 DEF Typed
<1>4. There(a)' /\ \A c \in AccountIds : c # a => (There(c)' <=> There(c))
  BY <1>3 DEF There
<1>5. ASSUME NEW w, NEW ty PROVE Rows(w, ty)' = Rows(w, ty) \cup (IF w = user /\ ty = type THEN {a} ELSE {})
  <2>1. \A c \in AccountIds : c \in Rows(w, ty)' <=> There(c)' /\ account'[c].user = w /\ account'[c].type = ty
    BY DEF Rows, There
  <2>2. \A c \in AccountIds : c \in Rows(w, ty) <=> There(c) /\ account[c].user = w /\ account[c].type = ty
    BY DEF Rows, There
  <2>3. r.user = user /\ r.type = type
    OBVIOUS
  <2>4. Rows(w, ty)' \subseteq AccountIds /\ Rows(w, ty) \subseteq AccountIds
    BY DEF Rows
  <2>5. a \notin Rows(w, ty) /\ (a \in Rows(w, ty)' <=> w = user /\ ty = type)
    BY <1>1, <1>3, <1>4, <2>1, <2>2, <2>3
  <2>6. \A c \in AccountIds : c # a => (c \in Rows(w, ty)' <=> c \in Rows(w, ty))
    BY <1>3, <1>4, <2>1, <2>2
  <2> QED BY <1>1, <2>4, <2>5, <2>6
<1> QED BY <1>1, <1>2, <1>3, <1>4, <1>5

\* The tables with a new row; an invitation it names is a fresh one.
LEMMA InsertTables ==
  ASSUME Typed, Tables, NEW user \in Users, NEW type \in {"workspace", "claude"},
         NEW status \in {"pending", "active"}, NEW ext, Insert(user, type, status, ext),
         ext = Identity \/ Fresh(ext, user), status = "pending" => ext # Identity,
         type = "workspace" => Rows(user, "workspace") = {},
         UNCHANGED <<remote, now>>
  PROVE  /\ Tables'
         /\ \A w \in Users : w # user \/ type # "workspace" => (Agrees(w)' <=> Agrees(w))
         /\ type = "workspace" => Live(user, "workspace")' # {}
         /\ \A c \in AccountIds : Invited(c) => Invited(c)'
<1> DEFINE row == [user |-> user, type |-> type, status |-> status, ext |-> ext,
                   changed |-> now, due |-> Never]
<1>1. PICK a \in AccountIds :
           /\ ~There(a) /\ account' = [account EXCEPT ![a] = row]
           /\ account'[a] = row /\ \A c \in AccountIds : c # a => account'[c] = account[c]
           /\ There(a)' /\ \A c \in AccountIds : c # a => (There(c)' <=> There(c))
           /\ \A w, ty : Rows(w, ty)' = Rows(w, ty) \cup (IF w = user /\ ty = type THEN {a} ELSE {})
  BY RowInserted
<1> PICK r : r = row
  OBVIOUS
<1>2. /\ r.user = user /\ r.type = type /\ r.status = status /\ r.ext = ext /\ r.due = Never
      /\ account'[a] = r
  BY <1>1
<1> HIDE DEF row
<1>3. google' = google /\ invite' = invite /\ seat' = seat
  BY DEF remote
<1>4. RowsLinked'
  <2> SUFFICES ASSUME NEW c \in AccountIds, There(c)'
               PROVE  /\ account'[c].user \in Users
                      /\ account'[c].ext # Identity =>
                           invite'[account'[c].ext].state # "none" /\ invite'[account'[c].ext].user = account'[c].user
    BY DEF RowsLinked
  <2>1. CASE c = a
    BY <1>2, <1>3, <2>1 DEF Fresh
  <2>2. CASE c # a
    BY <1>1, <1>3, <2>2 DEF Tables, RowsLinked
  <2> QED BY <2>1, <2>2
<1>5. OneInvite'
  <2> SUFFICES ASSUME NEW c \in AccountIds, NEW d \in AccountIds, There(c)', There(d)', c # d,
                      account'[c].ext # Identity
               PROVE  account'[d].ext # account'[c].ext
    BY DEF OneInvite
  <2>1. CASE c # a /\ d # a
    BY <1>1, <2>1 DEF Tables, OneInvite
  <2>2. CASE c = a
    BY <1>1, <1>2, <2>2 DEF Fresh
  <2>3. CASE d = a
    BY <1>1, <1>2, <2>3 DEF Fresh
  <2> QED BY <2>1, <2>2, <2>3
<1>6. OneRow'
  <2> SUFFICES ASSUME NEW w \in Users, NEW c \in Rows(w, "workspace")', NEW d \in Rows(w, "workspace")'
               PROVE  c = d
    BY DEF OneRow
  <2>1. CASE w = user /\ type = "workspace"
    BY <1>1, <2>1
  <2>2. CASE ~(w = user /\ type = "workspace")
    BY <1>1, <2>2 DEF Tables, OneRow
  <2> QED BY <2>1, <2>2
<1>7. DueOK'
  <2> SUFFICES ASSUME NEW c \in AccountIds, account'[c].type = "workspace", account'[c].status = "removed",
                      account'[c].due # Never
               PROVE  account'[c].due = account'[c].changed + Delay
    BY DEF DueOK
  <2> QED BY <1>1, <1>2 DEF Tables, DueOK
<1>8. ASSUME NEW w \in Users PROVE Recorded(w)'
  <2> SUFFICES ASSUME seat[w] = "workspace"
               PROVE  \E c \in Rows(w, "claude")' : account'[c].status = "active" /\ account'[c].ext = Identity
    BY <1>3 DEF Recorded
  <2>1. PICK c \in Rows(w, "claude") : account[c].status = "active" /\ account[c].ext = Identity
    BY DEF Tables, Recorded
  <2>2. c \in AccountIds /\ There(c)
    BY <2>1, RowsAre
  <2>3. c # a /\ c \in Rows(w, "claude")'
    BY <1>1, <2>1, <2>2
  <2> QED BY <1>1, <2>1, <2>2, <2>3
<1>9. ASSUME NEW w \in Users, w # user \/ type # "workspace" PROVE Agrees(w)' <=> Agrees(w)
  <2>1. Rows(w, "workspace")' = Rows(w, "workspace")
    BY <1>1, <1>9
  <2>2. \A c \in Rows(w, "workspace") : c # a /\ account'[c] = account[c]
    BY <1>1, RowsAre
  <2>3. Live(w, "workspace")' = Live(w, "workspace")
    BY <2>1, <2>2 DEF Live, IsLive
  <2> QED BY <1>3, <2>3 DEF Agrees
<1>10. ASSUME type = "workspace" PROVE Live(user, "workspace")' # {}
  <2>1. a \in Rows(user, "workspace")'
    BY <1>1, <1>10
  <2>2. IsLive(a)'
    BY <1>2 DEF IsLive
  <2> QED BY <2>1, <2>2 DEF Live
<1>11. ASSUME NEW c \in AccountIds, Invited(c) PROVE Invited(c)'
  BY <1>1, <1>2, <1>3, <1>11 DEF Invited, Fresh
<1> QED BY <1>4, <1>5, <1>6, <1>7, <1>8, <1>9, <1>10, <1>11 DEF Tables

LEMMA RowTyped ==
  ASSUME Typed, NEW user \in Users \cup {NoUser}, NEW type \in {"workspace", "claude"},
         NEW status \in {"pending", "active"}, NEW ext \in {Identity} \cup InviteIds,
         Insert(user, type, status, ext)
  PROVE  account' \in [AccountIds -> Account]
BY DEF Typed, Insert, Account

\* Row a is written; an invitation it newly names is a fresh one.
Written(a, r) ==
  /\ There(a) /\ account' = [account EXCEPT ![a] = r]
  /\ r.user = account[a].user /\ r.type = account[a].type /\ r.status # "none"
  /\ r.ext \in {Identity, account[a].ext} \/ Fresh(r.ext, r.user)
  /\ r.type = "workspace" /\ r.status = "removed" /\ r.due # Never => r.due = r.changed + Delay

LEMMA WriteTables ==
  ASSUME Typed, Tables, NEW a \in AccountIds, NEW r, Written(a, r), UNCHANGED <<google, invite>>
  PROVE  /\ RowsLinked' /\ OneInvite' /\ OneRow' /\ DueOK'
         /\ \A w \in Users : w # r.user \/ r.type # "workspace" => (Agrees(w)' <=> Agrees(w))
         /\ r.type = "workspace" =>
              (Agrees(r.user)' <=> ((google[r.user] = "active") <=> r.status \in {"pending", "active"}))
         /\ \A c \in AccountIds : c # a => (Invited(c)' <=> Invited(c))
<1>0. /\ There(a) /\ account' = [account EXCEPT ![a] = r]
      /\ r.user = account[a].user /\ r.type = account[a].type /\ r.status # "none"
      /\ r.ext \in {Identity, account[a].ext} \/ Fresh(r.ext, r.user)
      /\ r.type = "workspace" /\ r.status = "removed" /\ r.due # Never => r.due = r.changed + Delay
  BY DEF Written
<1>1. /\ account'[a] = r /\ \A c \in AccountIds : c # a => account'[c] = account[c]
      /\ \A c \in AccountIds : There(c)' <=> There(c)
      /\ \A w, type : Rows(w, type)' = Rows(w, type)
  BY <1>0, RowWritten
<1>2. RowsLinked'
  <2> SUFFICES ASSUME NEW c \in AccountIds, There(c)'
               PROVE  /\ account'[c].user \in Users
                      /\ account'[c].ext # Identity =>
                           invite'[account'[c].ext].state # "none" /\ invite'[account'[c].ext].user = account'[c].user
    BY DEF RowsLinked
  <2> QED BY <1>0, <1>1 DEF Tables, RowsLinked, Fresh
<1>3. OneInvite'
  <2> SUFFICES ASSUME NEW c \in AccountIds, NEW d \in AccountIds, There(c)', There(d)', c # d,
                      account'[c].ext # Identity
               PROVE  account'[d].ext # account'[c].ext
    BY DEF OneInvite
  <2>0. There(c) /\ There(d)
    BY <1>1
  <2>1. CASE c # a /\ d # a
    BY <1>0, <1>1, <2>0, <2>1 DEF Tables, OneInvite
  <2>2. CASE c = a
    BY <1>0, <1>1, <2>0, <2>2 DEF Fresh, Tables, OneInvite
  <2>3. CASE d = a
    BY <1>0, <1>1, <2>0, <2>3 DEF Fresh, Tables, OneInvite
  <2> QED BY <2>1, <2>2, <2>3
<1>4. OneRow'
  BY <1>1 DEF Tables, OneRow
<1>5. DueOK'
  <2> SUFFICES ASSUME NEW c \in AccountIds, account'[c].type = "workspace", account'[c].status = "removed",
                      account'[c].due # Never
               PROVE  account'[c].due = account'[c].changed + Delay
    BY DEF DueOK
  <2> QED BY <1>0, <1>1 DEF Tables, DueOK
<1>6. ASSUME NEW w \in Users, w # r.user \/ r.type # "workspace" PROVE Agrees(w)' <=> Agrees(w)
  <2>1. \A c \in Rows(w, "workspace") : account'[c] = account[c]
    BY <1>0, <1>1, <1>6, RowsAre
  <2>2. Live(w, "workspace")' = Live(w, "workspace")
    BY <1>1, <2>1 DEF Live, IsLive
  <2> QED BY <2>2 DEF Agrees
<1>7. ASSUME r.type = "workspace"
      PROVE  Agrees(r.user)' <=> ((google[r.user] = "active") <=> r.status \in {"pending", "active"})
  <2>1. a \in Rows(r.user, "workspace") /\ r.user \in Users
    BY <1>0, <1>7 DEF Rows, There, Tables, RowsLinked
  <2>2. \A c \in Rows(r.user, "workspace") : c = a
    BY <2>1 DEF Tables, OneRow
  <2>3. Live(r.user, "workspace")' # {} <=> r.status \in {"pending", "active"}
    BY <1>1, <2>1, <2>2 DEF Live, IsLive
  <2> QED BY <2>3 DEF Agrees
<1>8. ASSUME NEW c \in AccountIds, c # a PROVE Invited(c)' <=> Invited(c)
  BY <1>1, <1>8 DEF Invited
<1> QED BY <1>2, <1>3, <1>4, <1>5, <1>6, <1>7, <1>8

\* A member of the workspace stays on record.
LEMMA RecordStays ==
  ASSUME Typed, NEW w \in Users, Recorded(w), NEW a \in AccountIds, NEW r, Written(a, r),
         seat'[w] = "workspace" => seat[w] = "workspace",
         \/ r.status = "active" /\ r.ext = Identity
         \/ account[a].type # "claude" \/ account[a].ext # Identity
         \/ seat[account[a].user] # "workspace"
  PROVE  Recorded(w)'
<1>1. /\ account'[a] = r /\ \A c \in AccountIds : c # a => account'[c] = account[c]
      /\ \A v, type : Rows(v, type)' = Rows(v, type)
  BY RowWritten DEF Written
<1>0. r.user = account[a].user /\ r.type = account[a].type
  BY DEF Written
<1> SUFFICES ASSUME seat[w] = "workspace"
             PROVE  \E c \in Rows(w, "claude")' : account'[c].status = "active" /\ account'[c].ext = Identity
  BY DEF Recorded
<1>2. PICK c \in Rows(w, "claude") : account[c].status = "active" /\ account[c].ext = Identity
  BY DEF Recorded
<1>3. c \in AccountIds /\ account[c].user = w /\ account[c].type = "claude"
  BY <1>2, RowsAre
<1>4. CASE c # a
  BY <1>1, <1>2, <1>3, <1>4
<1>5. CASE c = a
  BY <1>0, <1>1, <1>2, <1>3, <1>5
<1> QED BY <1>4, <1>5

LEMMA StoreWorkspaceKeeps == ASSUME IInv, NEW h \in Handlers, StoreWorkspace(h) PROVE IInv'
<1> PICK b, u, a : b = task[h] /\ u = b.user /\ a = b.row
  OBVIOUS
<1>1. /\ b.pc = "storeWorkspace" /\ Set(h, NoTask) /\ UNCHANGED <<google, invite, seat, budget, calm>>
      /\ IF a = 0 THEN Insert(u, "workspace", "active", Identity) ELSE SetStatus(a, "active")
  BY DEF StoreWorkspace, At, End, remote
<1>2. /\ h \in Tasks /\ ~Idle(h) /\ b \in Task /\ Typed
      /\ u \in Users \cup {NoUser} /\ a \in AccountIds \cup {0}
  BY <1>1, TaskTyped DEF Tasks, Idle, Task
<1>3. account' \in [AccountIds -> Account]
  <2>1. CASE a = 0
    BY <1>1, <1>2, <2>1, RowTyped
  <2>2. CASE a # 0
    BY <1>1, <1>2, <2>2 DEF SetStatus, Typed, Account
  <2> QED BY <2>1, <2>2
<1>4. Typed'
  BY <1>1, <1>2, <1>3 DEF Typed, budget
<1>5. ASSUME calm, Steady(b) PROVE Steady(NoTask)'
  <2>1. /\ u \in Users /\ google[u] = "active" /\ Provisions(b) /\ Tables
        /\ \A w \in Users : w # u => Agrees(w)
        /\ \A c \in AccountIds : Invited(c)
    BY <1>1, <1>5 DEF Steady, Good, Provisions, InHand, Writes
  <2>2. Good(NoTask)'
    BY NoTaskTyped DEF Good
  <2>3. CASE a = 0
    <3>1. Rows(u, "workspace") = {}
      BY <2>1, <2>3, RowsAre DEF Provisions, AccountIds
    <3>2. Insert(u, "workspace", "active", Identity) /\ UNCHANGED <<remote, now>>
      BY <1>1, <2>3 DEF remote, budget
    <3>3. /\ Tables' /\ Live(u, "workspace")' # {}
          /\ \A w \in Users : w # u => (Agrees(w)' <=> Agrees(w))
          /\ \A c \in AccountIds : Invited(c) => Invited(c)'
      BY <1>2, <2>1, <3>1, <3>2, InsertTables
    <3>4. Agrees(u)'
      BY <1>1, <2>1, <3>3 DEF Agrees
    <3> QED BY <2>1, <2>2, <3>3, <3>4 DEF Steady
  <2>4. CASE a # 0
    <3>1. a \in Rows(u, "workspace")
      BY <2>1, <2>4 DEF Provisions
    <3>2. a \in AccountIds /\ There(a) /\ account[a].user = u /\ account[a].type = "workspace" /\ account[a] \in Account
      BY <1>2, <3>1, RowsAre DEF Typed
    <3> PICK r : r = [account[a] EXCEPT !.status = "active", !.changed = now]
      OBVIOUS
    <3>3. account' = [account EXCEPT ![a] = r]
      BY <1>1, <1>2, <2>4, <3>2 DEF SetStatus, Typed
    <3>4. r.user = u /\ r.type = "workspace" /\ r.status = "active" /\ r.ext = account[a].ext
      BY <3>2 DEF Account
    <3>0. Written(a, r)
      BY <3>2, <3>3, <3>4 DEF Written
    <3>5. /\ RowsLinked' /\ OneInvite' /\ OneRow' /\ DueOK'
          /\ \A w \in Users : w # r.user \/ r.type # "workspace" => (Agrees(w)' <=> Agrees(w))
          /\ r.type = "workspace" =>
               (Agrees(r.user)' <=> ((google[r.user] = "active") <=> r.status \in {"pending", "active"}))
          /\ \A c \in AccountIds : c # a => (Invited(c)' <=> Invited(c))
      BY <1>1, <1>2, <2>1, <3>2, <3>0, WriteTables
    <3>6. \A w \in Users : Recorded(w)'
      BY <1>1, <1>2, <2>1, <3>0, <3>2, <3>4, RecordStays DEF Tables
    <3>7. Invited(a)'
      BY <1>2, <3>2, <3>3, <3>4 DEF Invited, Typed
    <3>8. \A w \in Users : Agrees(w)'
      BY <2>1, <3>4, <3>5
    <3>9. \A c \in AccountIds : Invited(c)'
      BY <2>1, <3>5, <3>7
    <3> QED BY <2>2, <3>5, <3>6, <3>8, <3>9 DEF Steady, Tables
  <2> QED BY <2>3, <2>4
<1> QED BY <1>1, <1>2, <1>4, <1>5, NoTaskTyped, BusyAlone, Moves

\* An invitation is sent, cancelled or accepted: it stays whose it is.
LEMMA InviteTables ==
  ASSUME Typed, Tables, NEW i \in InviteIds, NEW v, invite' = [invite EXCEPT ![i] = v],
         v.state # "none", invite[i].state # "none" => v.user = invite[i].user,
         UNCHANGED <<account, google>>, \A w \in Users : seat'[w] = "workspace" <=> seat[w] = "workspace"
  PROVE  /\ Tables' /\ invite'[i] = v
         /\ \A w, type : Rows(w, type)' = Rows(w, type)
         /\ \A w \in Users : Agrees(w)' <=> Agrees(w)
         /\ \A c \in AccountIds :
              Invited(c) /\ (account[c].ext # i \/ v.state \in {"open", "accepted"}) => Invited(c)'
<1>1. invite'[i] = v /\ \A j \in InviteIds : j # i => invite'[j] = invite[j]
  BY DEF Typed
<1>2. \A w, type : Rows(w, type)' = Rows(w, type)
  BY DEF Rows
<1>3. RowsLinked'
  <2> SUFFICES ASSUME NEW c \in AccountIds, There(c)'
               PROVE  /\ account'[c].user \in Users
                      /\ account'[c].ext # Identity =>
                           invite'[account'[c].ext].state # "none" /\ invite'[account'[c].ext].user = account'[c].user
    BY DEF RowsLinked
  <2>1. There(c) /\ account[c].ext \in {Identity} \cup InviteIds
    BY DEF There, Typed, Account
  <2> QED BY <1>1, <2>1 DEF Tables, RowsLinked
<1>4. OneInvite' /\ OneRow' /\ DueOK' /\ \A w \in Users : Recorded(w)'
  BY <1>2 DEF Tables, OneInvite, OneRow, DueOK, Recorded, There
<1>5. \A w \in Users : Agrees(w)' <=> Agrees(w)
  BY <1>2 DEF Agrees, Live, IsLive
<1>6. ASSUME NEW c \in AccountIds, Invited(c), account[c].ext # i \/ v.state \in {"open", "accepted"}
      PROVE  Invited(c)'
  <2>1. account[c].ext \in {Identity} \cup InviteIds
    BY DEF Typed, Account
  <2> QED BY <1>1, <1>6, <2>1 DEF Invited
<1> QED BY <1>1, <1>2, <1>3, <1>4, <1>5, <1>6 DEF Tables

\* What is sent is fresh.
LEMMA Sends ==
  ASSUME IInv, NEW h \in Tasks, NEW u, NEW next \in Points, Send(h, u, next)
  PROVE  /\ invite' \in [InviteIds -> [user: {u} \cup Users \cup {NoUser},
                                       state: {"none", "open", "accepted", "cancelled"}]]
         /\ \E i \in InviteIds :
              /\ Set(h, [task[h] EXCEPT !.pc = next, !.ext = i])
              /\ calm /\ Tables /\ u \in Users /\ UNCHANGED <<account, google, seat>> =>
                   /\ Tables' /\ Fresh(i, u)'
                   /\ \A w, type : Rows(w, type)' = Rows(w, type)
                   /\ \A w \in Users : Agrees(w)' <=> Agrees(w)
                   /\ \A c \in AccountIds : Invited(c) => Invited(c)'
<1>1. PICK i \in InviteIds :
           /\ invite[i].state = "none" /\ invite' = [invite EXCEPT ![i] = [user |-> u, state |-> "open"]]
           /\ Set(h, [task[h] EXCEPT !.pc = next, !.ext = i])
  BY DEF Send
<1> PICK v : v = [user |-> u, state |-> "open"]
  OBVIOUS
<1>2. v.user = u /\ v.state = "open" /\ invite' = [invite EXCEPT ![i] = v] /\ Typed
  BY <1>1, TaskTyped
<1>3. ASSUME Tables, u \in Users, UNCHANGED <<account, google, seat>>
      PROVE  /\ Tables' /\ Fresh(i, u)'
             /\ \A w, type : Rows(w, type)' = Rows(w, type)
             /\ \A w \in Users : Agrees(w)' <=> Agrees(w)
             /\ \A c \in AccountIds : Invited(c) => Invited(c)'
  <2>1. /\ Tables' /\ invite'[i] = v /\ \A w \in Users : Agrees(w)' <=> Agrees(w)
        /\ \A w, type : Rows(w, type)' = Rows(w, type)
        /\ \A c \in AccountIds : Invited(c) => Invited(c)'
    <3>1. /\ Typed /\ Tables /\ invite' = [invite EXCEPT ![i] = v]
          /\ v.state # "none" /\ v.state \in {"open", "accepted"}
          /\ invite[i].state # "none" => v.user = invite[i].user
          /\ UNCHANGED <<account, google>> /\ \A w \in Users : seat'[w] = "workspace" <=> seat[w] = "workspace"
      BY <1>1, <1>2, <1>3
    <3>2. /\ Tables' /\ invite'[i] = v
          /\ \A w, type : Rows(w, type)' = Rows(w, type)
          /\ \A w \in Users : Agrees(w)' <=> Agrees(w)
          /\ \A c \in AccountIds :
               Invited(c) /\ (account[c].ext # i \/ v.state \in {"open", "accepted"}) => Invited(c)'
      BY <3>1, InviteTables
    <3> QED BY <3>1, <3>2
  <2>2. i # Identity
    BY DEF InviteIds, Identity
  <2>3. \A a \in AccountIds : There(a) => account[a].ext # i
    BY <1>1, <1>3, <2>2 DEF Tables, RowsLinked
  <2>4. Fresh(i, u)'
    BY <1>2, <1>3, <2>1, <2>3 DEF Fresh, There
  <2> QED BY <2>1, <2>4
<1>4. invite' \in [InviteIds -> [user: {u} \cup Users \cup {NoUser},
                                 state: {"none", "open", "accepted", "cancelled"}]]
  BY <1>1, <1>2 DEF Typed, Invitation
<1> QED BY <1>1, <1>3, <1>4

LEMMA InviteMemberKeeps == ASSUME IInv, NEW h \in Handlers, InviteMember(h) PROVE IInv'
<1> PICK b, u : b = task[h] /\ u = b.user
  OBVIOUS
<1>1. b.pc = "invite" /\ Send(h, u, "storeClaude") /\ UNCHANGED <<account, google, seat, budget, calm>>
  BY DEF InviteMember, At
<1>2. h \in Tasks /\ ~Idle(h) /\ b \in Task /\ Typed /\ u \in Users \cup {NoUser}
  BY <1>1, TaskTyped DEF Tasks, Idle
<1>0. "storeClaude" \in Points
  BY DEF Points
<1>3. PICK i \in InviteIds :
           /\ Set(h, [task[h] EXCEPT !.pc = "storeClaude", !.ext = i])
           /\ calm /\ Tables /\ u \in Users /\ UNCHANGED <<account, google, seat>> =>
                   /\ Tables' /\ Fresh(i, u)'
                   /\ \A w, type : Rows(w, type)' = Rows(w, type)
                   /\ \A w \in Users : Agrees(w)' <=> Agrees(w)
                   /\ \A c \in AccountIds : Invited(c) => Invited(c)'
  <2>1. Send(h, u, "storeClaude") /\ h \in Tasks
    BY <1>1, <1>2
  <2> QED BY <1>0, <2>1, Sends
<1> PICK t : t = [b EXCEPT !.pc = "storeClaude", !.ext = i]
  OBVIOUS
<1>4. t \in Task /\ t.pc = "storeClaude" /\ t.user = u /\ t.ext = i
  <2>1. t \in Task
    BY <1>0, <1>2, ExtSet
  <2> QED BY <1>2, <2>1 DEF Task
<1>5. Knows(t)
  BY <1>4 DEF Knows
<1>6. invite' \in [InviteIds -> [user: {u} \cup Users \cup {NoUser},
                                 state: {"none", "open", "accepted", "cancelled"}]]
  BY <1>0, <1>1, <1>2, Sends
<1>7. {u} \cup Users \cup {NoUser} = Users \cup {NoUser}
  BY <1>2
<1>8. Typed'
  BY <1>1, <1>2, <1>6, <1>7 DEF Typed, budget, Invitation
<1>9. ASSUME calm, Steady(b) PROVE Steady(t)'
  <2>1. u \in Users /\ Tables /\ (\A w \in Users : Agrees(w)) /\ \A c \in AccountIds : Invited(c)
    BY <1>1, <1>9 DEF Steady, Good, InHand, Writes
  <2>2. /\ Tables' /\ Fresh(i, u)' /\ (\A w \in Users : Agrees(w)')
        /\ \A c \in AccountIds : Invited(c)'
    BY <1>1, <1>3, <1>9, <2>1
  <2>3. Good(t)'
    BY <1>4, <2>1, <2>2 DEF Good
  <2> QED BY <2>2, <2>3 DEF Steady
<1> QED BY <1>1, <1>2, <1>3, <1>4, <1>5, <1>8, <1>9, BusyAlone, Moves

LEMMA StoreClaudeKeeps == ASSUME IInv, NEW h \in Handlers, StoreClaude(h) PROVE IInv'
<1> PICK b, u, i : b = task[h] /\ u = b.user /\ i = b.ext
  OBVIOUS
<1>1. /\ b.pc = "storeClaude" /\ Set(h, NoTask) /\ UNCHANGED <<remote, budget, calm>>
      /\ Insert(u, "claude", "pending", i)
  BY DEF StoreClaude, At, End
<1>2. /\ h \in Tasks /\ ~Idle(h) /\ b \in Task /\ Typed
      /\ u \in Users \cup {NoUser} /\ i \in {Identity} \cup InviteIds
  BY <1>1, TaskTyped DEF Tasks, Idle
<1>3. Typed'
  <2>1. account' \in [AccountIds -> Account]
    BY <1>1, <1>2, RowTyped
  <2> QED BY <1>1, <1>2, <2>1 DEF Typed, budget, remote
<1>4. ASSUME calm, Steady(b) PROVE Steady(NoTask)'
  <2>1. /\ u \in Users /\ Tables /\ Fresh(i, u) /\ (\A w \in Users : Agrees(w))
        /\ \A c \in AccountIds : Invited(c)
    BY <1>1, <1>4 DEF Steady, Good, InHand, Writes
  <2>2. i # Identity /\ UNCHANGED <<remote, now>>
    BY <1>1, <2>1 DEF Fresh, InviteIds, Identity, budget
  <2>3. /\ Tables' /\ (\A w \in Users : Agrees(w)' <=> Agrees(w))
        /\ \A c \in AccountIds : Invited(c) => Invited(c)'
    BY <1>1, <1>2, <2>1, <2>2, InsertTables
  <2>4. Good(NoTask)'
    BY NoTaskTyped DEF Good
  <2> QED BY <2>1, <2>3, <2>4 DEF Steady
<1> QED BY <1>1, <1>2, <1>3, <1>4, NoTaskTyped, BusyAlone, Moves

-----------------------------------------------------------------------------
(* Lifecycle operations *)

\* A loop goes on with the next row, or is over.
LEMMA AdvanceIs ==
  ASSUME NEW h, NEW b \in Task, b = task[h], NEW next \in Points, Advance(h, next)
  PROVE  \E t \in Task :
           /\ Set(h, t)
           /\ \/ t = NoTask
              \/ /\ t.pc = next /\ t.todo = b.todo \ {First(b.todo)} /\ (b.todo # {} => t.todo # {})
                 /\ t.act = b.act /\ t.seen = b.seen /\ t.people = b.people
<1> PICK a : a = First(b.todo)
  OBVIOUS
<1>1. CASE b.todo = {a}
  <2>1. Set(h, NoTask)
    BY <1>1 DEF Advance, Row, End
  <2> QED BY <2>1, NoTaskTyped
<1>2. CASE b.todo # {a}
  <2> PICK s : s = b.todo \ {a}
    OBVIOUS
  <2> PICK t : t = [b EXCEPT !.pc = next, !.todo = s]
    OBVIOUS
  <2>1. Set(h, t)
    BY <1>2 DEF Advance, Row
  <2>2. s \in SUBSET AccountIds /\ (b.todo # {} => s # {})
    BY <1>2 DEF Task
  <2>3. /\ t \in Task /\ t.pc = next /\ t.todo = s
        /\ t.act = b.act /\ t.seen = b.seen /\ t.people = b.people
    <3>1. t \in Task
      BY <2>2, TodoSet
    <3> QED BY <3>1 DEF Task
  <2> QED BY <2>1, <2>2, <2>3
<1> QED BY <1>1, <1>2

LEMMA AdvanceKeeps ==
  ASSUME IInv, NEW h \in Tasks, NEW next, Advance(h, next),
         \/ task[h].pc \in {"open", "call", "reinvite", "save"} /\ next = "open"
         \/ task[h].pc \in {"delete", "clear"} /\ next = "delete",
         UNCHANGED <<account, remote, now, ops, drift>>, fails' \in Nat, calm' \in BOOLEAN,
         calm' => calm /\ task[h].pc # "save"
  PROVE  IInv'
<1> PICK b : b = task[h]
  OBVIOUS
<1>1. b \in Task /\ Knows(b) /\ ~Idle(h) /\ next \in Points
  BY TaskTyped DEF Idle, Points
<1>2. PICK t \in Task :
        /\ Set(h, t)
        /\ \/ t = NoTask
           \/ /\ t.pc = next /\ t.todo = b.todo \ {First(b.todo)} /\ (b.todo # {} => t.todo # {})
              /\ t.act = b.act /\ t.seen = b.seen /\ t.people = b.people
  BY <1>1, AdvanceIs
<1>3. Knows(t)
  BY <1>1, <1>2, NoTaskTyped DEF Knows
<1>4. ASSUME Steady(b) PROVE Good(t)
  <2>1. CASE t = NoTask
    BY <2>1, NoTaskTyped, IdleIsGood
  <2>2. CASE t.pc = "open"
    <3>1. Visits(b, "any") /\ t.todo # {} /\ t.todo \subseteq b.todo
      BY <1>1, <1>2, <1>4, <2>2, NoTaskTyped DEF Steady, Good, Visits
    <3> QED BY <2>2, <3>1 DEF Good, Visits
  <2>3. CASE t.pc = "delete"
    <3>1. /\ Visits(b, "workspace") /\ t.todo # {} /\ t.todo \subseteq b.todo
          /\ \A c \in b.todo : account[c].status = "removed" /\ account[c].due # Never /\ account[c].due <= now
      BY <1>1, <1>2, <1>4, <2>3, NoTaskTyped DEF Steady, Good, Visits
    <3> QED BY <2>3, <3>1 DEF Good, Visits
  <2> QED BY <1>2, <2>1, <2>2, <2>3
<1> QED BY <1>1, <1>2, <1>3, <1>4, MovesReading

\* The row a lifecycle operation is at.
LEMMA RowTaken ==
  ASSUME IInv, NEW h \in Handlers, task[h].pc \in {"open", "call", "reinvite", "save"}
  PROVE  /\ h \in Tasks /\ ~Idle(h) /\ task[h] \in Task /\ Knows(task[h]) /\ Typed
         /\ Row(h) \in task[h].todo /\ Row(h) \in AccountIds /\ account[Row(h)] \in Account
         /\ task[h].act \in {"suspend", "unsuspend", "remove"}
         /\ Steady(task[h]) => There(Row(h)) /\ account[Row(h)].user \in Users
<1>1. h \in Tasks /\ ~Idle(h) /\ task[h] \in Task /\ Knows(task[h]) /\ Typed
  BY TaskTyped DEF Tasks, Idle
<1>2. /\ task[h].todo \in SUBSET AccountIds /\ task[h].todo # {}
      /\ task[h].act \in {"suspend", "unsuspend", "remove"}
  BY <1>1 DEF Knows, Task
<1>3. Row(h) \in task[h].todo /\ Row(h) \in AccountIds /\ account[Row(h)] \in Account
  BY <1>1, <1>2, FirstIsIn DEF Row, Typed
<1>4. ASSUME Steady(task[h]) PROVE There(Row(h)) /\ account[Row(h)].user \in Users
  BY <1>3, <1>4 DEF Steady, Good, Visits, Tables, RowsLinked
<1> QED BY <1>1, <1>2, <1>3, <1>4

LEMMA OpenKeeps == ASSUME IInv, NEW h \in Handlers, Open(h) PROVE IInv'
<1> PICK b, a, act : b = task[h] /\ a = Row(h) /\ act = b.act
  OBVIOUS
<1>1. b.pc = "open" /\ UNCHANGED <<account, remote, budget, calm>>
  BY DEF Open, At
<1>2. /\ h \in Tasks /\ ~Idle(h) /\ b \in Task /\ Knows(b) /\ Typed
      /\ a \in b.todo /\ a \in AccountIds
      /\ Steady(b) => There(a) /\ account[a].user \in Users
  BY <1>1, RowTaken
<1>3. UNCHANGED <<account, remote, now, ops, drift>> /\ fails' \in Nat /\ calm' \in BOOLEAN /\ calm' = calm
  BY <1>1, <1>2 DEF budget, Typed
<1>4. CASE Admissible(a, act)
  <2> PICK pc : pc = IF NeedsCall(a, act) THEN "call" ELSE "save"
    OBVIOUS
  <2> PICK t : t = [b EXCEPT !.pc = pc]
    OBVIOUS
  <2>1. Set(h, t) /\ pc \in {"call", "save"} /\ (pc = "save" => ~NeedsCall(a, act))
    BY <1>4 DEF Open, Go
  <2>2. t \in Task /\ t.pc = pc /\ t.todo = b.todo /\ t.act = act
    BY <1>2, <2>1 DEF Task, Points
  <2>3. Knows(t)
    BY <1>1, <1>2, <2>2 DEF Knows
  <2>4. ASSUME calm, Steady(b) PROVE Good(t)
    <3>1. There(a) /\ account[a].user \in Users /\ Visits(t, "any") /\ a = First(t.todo)
      BY <1>1, <1>2, <2>2, <2>4 DEF Steady, Good, Visits, Row
    <3>2. CASE pc = "call"
      BY <1>4, <2>2, <3>1, <3>2 DEF Good
    <3>3. CASE pc = "save"
      <4>1. act = "remove" /\ account[a].type = "workspace" /\ account[a].status = "suspended"
        BY <2>1, <3>3 DEF NeedsCall
      <4> PICK u : u = account[a].user
        OBVIOUS
      <4>2. a \in Rows(u, "workspace") /\ u \in Users
        BY <1>2, <3>1, <4>1 DEF Rows, There
      <4>3. Live(u, "workspace") = {}
        BY <2>4, <4>1, <4>2 DEF Steady, Tables, OneRow, Live, IsLive
      <4>4. google[u] # "active"
        BY <1>1, <2>4, <4>2, <4>3 DEF Steady, Agrees, InHand
      <4> QED BY <2>2, <3>1, <3>3, <4>1, <4>4 DEF Good
    <3> QED BY <2>1, <3>2, <3>3
  <2> QED BY <1>1, <1>2, <1>3, <2>1, <2>2, <2>3, <2>4, MovesReading
<1>5. CASE ~Admissible(a, act)
  <2>1. Advance(h, "open")
    BY <1>5 DEF Open
  <2> QED BY <1>1, <1>2, <1>3, <2>1, AdvanceKeeps
<1> QED BY <1>4, <1>5

LEMMA CallGoogleKeeps == ASSUME IInv, NEW h \in Handlers, CallGoogle(h) PROVE IInv'
<1> PICK b, a, u, act : b = task[h] /\ a = Row(h) /\ u = account[a].user /\ act = b.act
  OBVIOUS
<1> PICK v : v = IF act = "unsuspend" THEN "active" ELSE "suspended"
  OBVIOUS
<1>1. b.pc = "call" /\ account[a].type = "workspace" /\ UNCHANGED <<account, invite, seat, budget, calm>>
  BY DEF CallGoogle, At
<1>2. /\ h \in Tasks /\ ~Idle(h) /\ b \in Task /\ Knows(b) /\ Typed
      /\ a \in b.todo /\ a \in AccountIds /\ act \in {"suspend", "unsuspend", "remove"}
      /\ Steady(b) => There(a) /\ u \in Users
  BY <1>1, RowTaken
<1>3. CASE google' = [google EXCEPT ![u] = v] /\ Go(h, "save")
  <2> PICK t : t = [b EXCEPT !.pc = "save"]
    OBVIOUS
  <2>1. t \in Task /\ t.pc = "save" /\ t.todo = b.todo /\ t.act = act /\ Set(h, t)
    BY <1>2, <1>3 DEF Task, Points, Go
  <2>2. Knows(t)
    BY <1>1, <1>2, <2>1 DEF Knows
  <2>3. Typed'
    BY <1>1, <1>2, <1>3 DEF Typed, budget
  <2>4. ASSUME calm, Steady(b) PROVE Steady(t)'
    <3>1. /\ u \in Users /\ Visits(b, "any") /\ a = First(t.todo) /\ Tables
          /\ (\A w \in Users : Agrees(w)) /\ \A c \in AccountIds : Invited(c)
      BY <1>1, <1>2, <2>1, <2>4 DEF Steady, Good, InHand, Writes, Row
    <3>2. /\ google'[u] = v /\ Tables' /\ (\A w \in Users : w # u => (Agrees(w)' <=> Agrees(w)))
          /\ \A c \in AccountIds : Invited(c)' <=> Invited(c)
      <4>1. /\ UNCHANGED <<account, invite, seat, now>> /\ u \in Users
            /\ Typed /\ google' = [google EXCEPT ![u] = v] /\ v \in {"absent", "active", "suspended"}
        BY <1>1, <1>2, <1>3, <3>1 DEF budget
      <4>2. /\ google'[u] = v /\ (\A w \in Users : w # u => google'[w] = google[w])
            /\ \A w, type : Rows(w, type)' = Rows(w, type) /\ Live(w, type)' = Live(w, type)
            /\ Tables => Tables'
            /\ \A w \in Users : w # u => (Agrees(w)' <=> Agrees(w))
            /\ \A c \in AccountIds : Invited(c)' <=> Invited(c)
        BY <4>1, GoogleWritten
      <4> QED BY <3>1, <4>2
    <3>3. Visits(t, "any")'
      BY <1>1, <2>1, <3>1 DEF Visits, There
    <3>4. Good(t)'
      BY <1>1, <2>1, <3>1, <3>2, <3>3 DEF Good
    <3>5. \A w \in Users : Agrees(w)' \/ InHand(t, w)'
      BY <1>1, <2>1, <3>1, <3>2 DEF InHand
    <3> QED BY <3>1, <3>2, <3>4, <3>5 DEF Steady
  <2> QED BY <1>1, <1>2, <2>1, <2>2, <2>3, <2>4, BusyAlone, Moves
<1>4. CASE UNCHANGED google /\ Advance(h, "open")
  <2>1. UNCHANGED <<account, remote, now, ops, drift>> /\ fails' \in Nat /\ calm' \in BOOLEAN /\ calm' = calm
    BY <1>1, <1>2, <1>4 DEF budget, Typed, remote
  <2> QED BY <1>1, <1>2, <1>4, <2>1, AdvanceKeeps
<1> QED BY <1>3, <1>4 DEF CallGoogle

LEMMA CallMemberKeeps == ASSUME IInv, NEW h \in Handlers, CallMember(h) PROVE IInv'
<1> PICK b, a, u, act : b = task[h] /\ a = Row(h) /\ u = account[a].user /\ act = b.act
  OBVIOUS
<1> PICK v : v = IF act = "remove" THEN "none" ELSE IF seat[u] = "workspace" THEN "org" ELSE seat[u]
  OBVIOUS
<1> PICK t : t = [b EXCEPT !.pc = "save"]
  OBVIOUS
<1>1. /\ b.pc = "call" /\ account[a].type = "claude" /\ account[a].ext = Identity
      /\ seat' = [seat EXCEPT ![u] = v] /\ Set(h, t) /\ UNCHANGED <<account, google, invite, budget, calm>>
  BY DEF CallMember, At, Go
<1>2. /\ h \in Tasks /\ ~Idle(h) /\ b \in Task /\ Knows(b) /\ Typed
      /\ a \in b.todo /\ a \in AccountIds /\ act \in {"suspend", "unsuspend", "remove"}
      /\ Steady(b) => There(a) /\ u \in Users
  BY <1>1, RowTaken
<1>3. t \in Task /\ t.pc = "save" /\ t.todo = b.todo /\ t.act = act
  BY <1>2 DEF Task, Points
<1>4. Knows(t)
  BY <1>1, <1>2, <1>3 DEF Knows
<1>5. Typed'
  <2>1. seat' \in [Users -> {"none", "org", "workspace"}]
    BY <1>1, <1>2 DEF Typed
  <2> QED BY <1>1, <1>2, <2>1 DEF Typed, budget
<1>6. ASSUME calm, Steady(b) PROVE Steady(t)'
  <2>1. /\ u \in Users /\ Visits(b, "any") /\ a = First(t.todo) /\ Tables /\ Admissible(a, act)
        /\ (\A w \in Users : Agrees(w)) /\ \A c \in AccountIds : Invited(c)
    BY <1>1, <1>2, <1>3, <1>6 DEF Steady, Good, InHand, Writes, Row
  <2>2. act # "unsuspend"
    BY <1>1, <2>1 DEF Admissible
  <2>3. seat'[u] # "workspace" /\ \A w \in Users : w # u => seat'[w] = seat[w]
    BY <1>1, <1>2, <2>1 DEF Typed
  <2>4. Tables'
    <3>1. \A w \in Users : Recorded(w)'
      BY <1>1, <2>1, <2>3 DEF Tables, Recorded, Rows
    <3>2. RowsLinked' /\ OneInvite' /\ OneRow' /\ DueOK'
      BY <1>1, <2>1 DEF Tables, RowsLinked, OneInvite, OneRow, DueOK, Rows, There
    <3> QED BY <3>1, <3>2 DEF Tables
  <2>5. /\ \A w \in Users : Agrees(w)'
        /\ \A c \in AccountIds : Invited(c)'
    BY <1>1, <2>1 DEF Agrees, Live, Rows, IsLive, Invited
  <2>6. Visits(t, "any")'
    BY <1>1, <1>3, <2>1 DEF Visits, There
  <2>7. Good(t)'
    BY <1>1, <1>3, <2>1, <2>2, <2>3, <2>6 DEF Good
  <2> QED BY <2>4, <2>5, <2>7 DEF Steady
<1> QED BY <1>1, <1>2, <1>3, <1>4, <1>5, <1>6, BusyAlone, Moves

\* In calm nobody else's row names the invitation.
LEMMA CallInvitationKeeps == ASSUME IInv, NEW h \in Handlers, CallInvitation(h) PROVE IInv'
<1> PICK b, a, i, act : b = task[h] /\ a = Row(h) /\ i = account[a].ext /\ act = b.act
  OBVIOUS
<1> PICK pc : pc = IF act = "unsuspend" THEN "reinvite" ELSE "save"
  OBVIOUS
<1> PICK t : t = [b EXCEPT !.pc = pc]
  OBVIOUS
<1>1. /\ b.pc = "call" /\ account[a].type = "claude" /\ i # Identity /\ Set(h, t)
      /\ UNCHANGED <<account, google, seat, budget, calm>>
      /\ invite' = IF invite[i].state = "open" THEN [invite EXCEPT ![i].state = "cancelled"] ELSE invite
  BY DEF CallInvitation, At, Go
<1>2. /\ h \in Tasks /\ ~Idle(h) /\ b \in Task /\ Knows(b) /\ Typed
      /\ a \in b.todo /\ a \in AccountIds /\ act \in {"suspend", "unsuspend", "remove"}
      /\ account[a] \in Account
      /\ Steady(b) => There(a) /\ account[a].user \in Users
  BY <1>1, RowTaken
<1>3. i \in InviteIds /\ invite[i] \in Invitation
  BY <1>1, <1>2 DEF Account, Typed
<1>4. t \in Task /\ t.pc = pc /\ t.todo = b.todo /\ t.act = act
  BY <1>2 DEF Task, Points
<1>5. Knows(t)
  BY <1>1, <1>2, <1>4 DEF Knows
<1> PICK v : v = [invite[i] EXCEPT !.state = "cancelled"]
  OBVIOUS
<1>6. v \in Invitation /\ v.state = "cancelled" /\ v.user = invite[i].user
  BY <1>3 DEF Invitation
<1>7. UNCHANGED invite \/ invite' = [invite EXCEPT ![i] = v]
  BY <1>1
<1>8. Typed'
  <2>1. invite' \in [InviteIds -> Invitation]
    BY <1>2, <1>6, <1>7 DEF Typed
  <2> QED BY <1>1, <1>2, <2>1 DEF Typed, budget
<1>9. ASSUME calm, Steady(b) PROVE Steady(t)'
  <2>1. /\ There(a) /\ Visits(b, "any") /\ a = First(t.todo) /\ Tables /\ Admissible(a, act)
        /\ (\A w \in Users : Agrees(w)) /\ \A c \in AccountIds : Invited(c)
    BY <1>1, <1>2, <1>4, <1>9 DEF Steady, Good, InHand, Writes, Row
  <2>2. /\ Tables' /\ \A w \in Users : Agrees(w)'
        /\ \A c \in AccountIds : account[c].ext # i => Invited(c)'
    <3>1. CASE invite' = [invite EXCEPT ![i] = v]
      <4>1. UNCHANGED <<account, google, seat>>
        BY <1>1
      <4> QED BY <1>2, <1>3, <1>6, <2>1, <3>1, <4>1, InviteTables
    <3>2. CASE UNCHANGED invite
      <4>1. UNCHANGED <<account, remote, now>> /\ b.pc \notin {"storeWorkspace", "save"}
        BY <1>1, <3>2 DEF remote, budget
      <4>2. Steady(NoTask)'
        BY <1>9, <4>1, Rereads, NoTaskTyped, IdleIsGood
      <4>3. NoTask.pc = "idle"
        BY NoTaskTyped
      <4> QED BY <4>2, <4>3 DEF Steady, InHand, Writes
    <3> QED BY <1>7, <3>1, <3>2
  <2>3. Visits(t, "any")' /\ Admissible(a, act)'
    BY <1>1, <1>4, <2>1 DEF Visits, There, Admissible
  <2>4. Good(t)'
    <3>1. CASE act = "unsuspend"
      <4>1. t.pc = "reinvite"
        BY <1>4, <3>1
      <4> QED BY <1>1, <1>4, <2>1, <2>3, <3>1, <4>1 DEF Good
    <3>2. CASE act # "unsuspend"
      <4>1. t.pc = "save"
        BY <1>4, <3>2
      <4> QED BY <1>1, <1>4, <2>1, <2>3, <3>2, <4>1 DEF Good
    <3> QED BY <3>1, <3>2
  <2>5. ASSUME NEW c \in AccountIds PROVE Invited(c)' \/ Writes(t, c)'
    <3>1. CASE account[c].ext # i
      BY <2>2, <3>1
    <3>2. CASE account[c].status # "pending"
      BY <1>1, <3>2 DEF Invited
    <3>3. CASE account[c].ext = i /\ account[c].status = "pending"
      <4>1. c = a
        BY <1>1, <1>2, <2>1, <3>3 DEF Tables, OneInvite, There
      <4>2. act # "unsuspend"
        BY <2>1, <3>3, <4>1 DEF Admissible
      <4> QED BY <1>4, <2>1, <4>1, <4>2 DEF Writes
    <3> QED BY <3>1, <3>2, <3>3
  <2> QED BY <2>2, <2>4, <2>5 DEF Steady
<1> QED BY <1>1, <1>2, <1>4, <1>5, <1>8, <1>9, BusyAlone, Moves

LEMMA ReinviteKeeps == ASSUME IInv, NEW h \in Handlers, Reinvite(h) PROVE IInv'
<1> PICK b, a, u : b = task[h] /\ a = Row(h) /\ u = account[a].user
  OBVIOUS
<1>1. b.pc = "reinvite" /\ Send(h, u, "save") /\ UNCHANGED <<account, google, seat, budget, calm>>
  BY DEF Reinvite, At
<1>2. /\ h \in Tasks /\ ~Idle(h) /\ b \in Task /\ Knows(b) /\ Typed
      /\ a \in b.todo /\ a \in AccountIds /\ account[a] \in Account
      /\ Steady(b) => There(a) /\ u \in Users
  BY <1>1, RowTaken
<1>0. "save" \in Points
  BY DEF Points
<1>3. PICK i \in InviteIds :
           /\ Set(h, [task[h] EXCEPT !.pc = "save", !.ext = i])
           /\ calm /\ Tables /\ u \in Users /\ UNCHANGED <<account, google, seat>> =>
                   /\ Tables' /\ Fresh(i, u)'
                   /\ \A w, type : Rows(w, type)' = Rows(w, type)
                   /\ \A w \in Users : Agrees(w)' <=> Agrees(w)
                   /\ \A c \in AccountIds : Invited(c) => Invited(c)'
  <2>1. Send(h, u, "save") /\ h \in Tasks
    BY <1>1, <1>2
  <2> QED BY <1>0, <2>1, Sends
<1> PICK t : t = [b EXCEPT !.pc = "save", !.ext = i]
  OBVIOUS
<1>4. t \in Task /\ t.pc = "save" /\ t.todo = b.todo /\ t.act = b.act /\ t.ext = i
  <2>1. t \in Task
    BY <1>0, <1>2, ExtSet
  <2> QED BY <1>2, <2>1 DEF Task
<1>5. Knows(t)
  BY <1>1, <1>2, <1>4 DEF Knows
<1>6. invite' \in [InviteIds -> [user: {u} \cup Users \cup {NoUser},
                                 state: {"none", "open", "accepted", "cancelled"}]]
  BY <1>0, <1>1, <1>2, Sends
<1>7. {u} \cup Users \cup {NoUser} = Users \cup {NoUser}
  BY <1>2 DEF Account
<1>8. Typed'
  BY <1>1, <1>2, <1>6, <1>7 DEF Typed, budget, Invitation
<1>9. ASSUME calm, Steady(b) PROVE Steady(t)'
  <2>1. /\ There(a) /\ u \in Users /\ Visits(b, "any") /\ a = First(t.todo) /\ Tables
        /\ Admissible(a, b.act) /\ b.act = "unsuspend" /\ account[a].type = "claude"
        /\ (\A w \in Users : Agrees(w)) /\ \A c \in AccountIds : Invited(c)
    BY <1>1, <1>2, <1>4, <1>9 DEF Steady, Good, InHand, Writes, Row
  <2>2. /\ Tables' /\ Fresh(i, u)' /\ (\A w \in Users : Agrees(w)')
        /\ \A c \in AccountIds : Invited(c)'
    BY <1>1, <1>3, <1>9, <2>1
  <2>3. Visits(t, "any")' /\ account[a].ext # Identity
    BY <1>1, <1>4, <2>1 DEF Visits, There, Admissible
  <2>4. Good(t)'
    BY <1>1, <1>4, <2>1, <2>2, <2>3 DEF Good
  <2> QED BY <2>2, <2>4 DEF Steady
<1> QED BY <1>1, <1>2, <1>3, <1>4, <1>5, <1>8, <1>9, BusyAlone, Moves

\* What a lifecycle operation writes.
LEMMA SavedIs ==
  ASSUME Typed, NEW a \in AccountIds, NEW act \in {"suspend", "unsuspend", "remove"},
         NEW ext \in {Identity} \cup InviteIds, NEW r, r = Saved(a, act, ext)
  PROVE  /\ r \in Account /\ r.user = account[a].user /\ r.type = account[a].type
         /\ act = "suspend" => r.status = "suspended" /\ r.ext = account[a].ext
         /\ act = "remove" => /\ r.status = "removed" /\ r.ext = account[a].ext
                              /\ r.type = "workspace" => r.due = r.changed + Delay
         /\ act = "unsuspend" =>
              IF r.type = "workspace" THEN r.status = "active" /\ r.ext = account[a].ext
                                      ELSE r.status = "pending" /\ r.ext = ext
<1> PICK x : x = account[a]
  OBVIOUS
<1>1. x \in Account /\ now \in Nat /\ Delay \in Nat /\ now + Delay \in Nat
  BY AccountsAssumption DEF Typed
<1>2. CASE act = "suspend"
  <2>1. r = [x EXCEPT !.status = "suspended", !.changed = now]
    BY <1>2 DEF Saved
  <2> QED BY <1>1, <1>2, <2>1 DEF Account
<1>3. CASE act = "remove"
  <2> PICK d : d = IF x.type = "workspace" THEN now + Delay ELSE x.due
    OBVIOUS
  <2>1. r = [x EXCEPT !.status = "removed", !.changed = now, !.due = d]
    BY <1>3 DEF Saved
  <2>2. d \in Nat \cup {Never}
    BY <1>1 DEF Account
  <2>3. r \in Account
    BY <1>1, <2>1, <2>2 DEF Account
  <2>4. /\ r.user = x.user /\ r.type = x.type /\ r.status = "removed" /\ r.ext = x.ext
        /\ r.due = d /\ r.changed = now
    BY <1>1, <2>1 DEF Account
  <2> QED BY <1>3, <2>3, <2>4
<1>4. CASE act = "unsuspend" /\ x.type = "workspace"
  <2>1. r = [x EXCEPT !.status = "active", !.changed = now]
    BY <1>4 DEF Saved
  <2> QED BY <1>1, <1>4, <2>1 DEF Account
<1>5. CASE act = "unsuspend" /\ x.type # "workspace"
  <2>1. r = [x EXCEPT !.status = "pending", !.changed = now, !.ext = ext]
    BY <1>5 DEF Saved
  <2> QED BY <1>1, <1>5, <2>1 DEF Account
<1> QED BY <1>2, <1>3, <1>4, <1>5

LEMMA SaveKeeps == ASSUME IInv, NEW h \in Handlers, Save(h) PROVE IInv'
<1> PICK b, a, act, i : b = task[h] /\ a = Row(h) /\ act = b.act /\ i = b.ext
  OBVIOUS
<1> PICK r : r = Saved(a, act, i)
  OBVIOUS
<1>1. /\ b.pc = "save" /\ account' = [account EXCEPT ![a] = r] /\ Advance(h, "open")
      /\ UNCHANGED <<remote, budget, calm>>
  BY DEF Save, At
<1>2. /\ h \in Tasks /\ ~Idle(h) /\ b \in Task /\ Knows(b) /\ Typed
      /\ a \in b.todo /\ a \in AccountIds /\ act \in {"suspend", "unsuspend", "remove"}
      /\ i \in {Identity} \cup InviteIds
      /\ Steady(b) => There(a) /\ account[a].user \in Users
  BY <1>1, RowTaken, TaskTyped
<1>3. /\ r \in Account /\ r.user = account[a].user /\ r.type = account[a].type
      /\ act = "suspend" => r.status = "suspended" /\ r.ext = account[a].ext
      /\ act = "remove" => /\ r.status = "removed" /\ r.ext = account[a].ext
                           /\ r.type = "workspace" => r.due = r.changed + Delay
      /\ act = "unsuspend" =>
           IF r.type = "workspace" THEN r.status = "active" /\ r.ext = account[a].ext
                                   ELSE r.status = "pending" /\ r.ext = i
  BY <1>2, SavedIs
<1>4. PICK t \in Task :
        /\ Set(h, t)
        /\ \/ t = NoTask
           \/ /\ t.pc = "open" /\ t.todo = b.todo \ {First(b.todo)} /\ (b.todo # {} => t.todo # {})
              /\ t.act = b.act /\ t.seen = b.seen /\ t.people = b.people
  BY <1>1, <1>2, AdvanceIs DEF Points
<1>5. Knows(t)
  BY <1>1, <1>2, <1>4, NoTaskTyped DEF Knows
<1>6. Typed'
  <2>1. account' \in [AccountIds -> Account]
    BY <1>1, <1>2, <1>3 DEF Typed
  <2> QED BY <1>1, <1>2, <2>1 DEF Typed, budget, remote
<1>7. ASSUME calm, Steady(b) PROVE Steady(t)'
  <2> PICK u : u = account[a].user
    OBVIOUS
  <2>1. /\ There(a) /\ u \in Users /\ Visits(b, "any") /\ a = First(b.todo) /\ Tables
        /\ \A w \in Users : Agrees(w) \/ (account[a].type = "workspace" /\ u = w)
        /\ \A c \in AccountIds : c # a => Invited(c)
        /\ account[a].type = "workspace" => (google[u] = "active" <=> act = "unsuspend")
        /\ account[a].type = "claude" =>
             IF act = "unsuspend" THEN Fresh(i, u) /\ account[a].ext # Identity
             ELSE account[a].ext = Identity => seat[u] # "workspace"
    BY <1>1, <1>2, <1>7 DEF Steady, Good, InHand, Writes, Row
  <2>2. account[a].type \in {"workspace", "claude"}
    BY <1>2 DEF Typed, Account
  <2>3. Written(a, r)
    BY <1>1, <1>2, <1>3, <2>1, <2>2 DEF Written
  <2>4. /\ RowsLinked' /\ OneInvite' /\ OneRow' /\ DueOK'
        /\ \A w \in Users : w # r.user \/ r.type # "workspace" => (Agrees(w)' <=> Agrees(w))
        /\ r.type = "workspace" =>
             (Agrees(r.user)' <=> ((google[r.user] = "active") <=> r.status \in {"pending", "active"}))
        /\ \A c \in AccountIds : c # a => (Invited(c)' <=> Invited(c))
    <3>1. UNCHANGED <<google, invite>>
      BY <1>1 DEF remote
    <3> QED BY <1>2, <2>1, <2>3, <3>1, WriteTables
  <2>5. ASSUME NEW w \in Users PROVE Recorded(w)'
    <3>1. account[a].type # "claude" \/ account[a].ext # Identity \/ seat[account[a].user] # "workspace"
      BY <2>1
    <3>2. Recorded(w) /\ (seat'[w] = "workspace" => seat[w] = "workspace")
      BY <1>1, <2>1 DEF Tables, remote
    <3> QED BY <1>2, <2>3, <3>1, <3>2, RecordStays
  <2>6. \A w \in Users : Agrees(w)'
    BY <1>2, <1>3, <2>1, <2>2, <2>4
  <2>7. Invited(a)'
    <3>1. account'[a] = r
      BY <1>1, <1>2 DEF Typed
    <3>2. r.status = "pending" => r.ext = i /\ Fresh(i, u)
      BY <1>2, <1>3, <2>1, <2>2
    <3> QED BY <1>1, <3>1, <3>2 DEF Invited, Fresh, remote, InviteIds, Identity
  <2>8. Good(t)'
    <3>1. CASE t = NoTask
      BY <3>1, NoTaskTyped DEF Good
    <3>2. CASE t.pc = "open"
      <4>1. \A c \in AccountIds : There(c)' <=> There(c)
        BY <1>2, <2>3, RowWritten DEF Written
      <4>2. t.todo # {} /\ t.todo \subseteq b.todo /\ t.todo \subseteq AccountIds
        BY <1>2, <1>4, <3>2, NoTaskTyped DEF Task
      <4>3. Visits(t, "any")'
        BY <2>1, <4>1, <4>2 DEF Visits
      <4> QED BY <3>2, <4>3 DEF Good
    <3> QED BY <1>4, <3>1, <3>2
  <2> QED BY <2>1, <2>4, <2>5, <2>6, <2>7, <2>8 DEF Steady, Tables
<1> QED BY <1>1, <1>2, <1>4, <1>5, <1>6, <1>7, BusyAlone, Moves

-----------------------------------------------------------------------------
(* The synchronisations *)

\* A request reads and goes on.
LEMMA GoesOn ==
  ASSUME IInv, NEW h \in Handlers, ~Idle(h), NEW t \in Task, Set(h, t), Knows(t),
         task[h].pc \notin {"storeWorkspace", "save"}, UNCHANGED <<account, remote, budget, calm>>,
         Steady(task[h]) => Good(t)
  PROVE  IInv'
<1>1. h \in Tasks /\ Typed
  BY TaskTyped DEF Tasks
<1>2. UNCHANGED <<account, remote, now, ops, drift>> /\ fails' \in Nat /\ calm' \in BOOLEAN /\ calm' = calm
  BY <1>1 DEF budget, Typed
<1> QED BY <1>1, <1>2, MovesReading

LEMMA EndsReading ==
  ASSUME IInv, NEW h \in Handlers, ~Idle(h), End(h),
         task[h].pc \notin {"storeWorkspace", "save"}, UNCHANGED <<account, remote, budget, calm>>
  PROVE  IInv'
BY GoesOn, NoTaskTyped, IdleIsGood DEF End

LEMMA ListUsersKeeps == ASSUME IInv, NEW h \in Handlers, ListUsers(h) PROVE IInv'
<1> PICK b, s : b = task[h] /\ s = {u \in Users : google[u] = "active"}
  OBVIOUS
<1> PICK t : t = [b EXCEPT !.pc = "find", !.seen = s]
  OBVIOUS
<1>1. b.pc = "list" /\ Set(h, t) /\ UNCHANGED <<account, remote, budget, calm>>
  BY DEF ListUsers, At
<1>2. b \in Task /\ ~Idle(h)
  BY <1>1, TaskTyped DEF Tasks, Idle
<1>3. t \in Task /\ t.pc = "find" /\ t.seen = s
  <2>1. s \subseteq Users /\ "find" \in Points
    BY DEF Points
  <2>2. t \in Task
    BY <1>2, <2>1 DEF Task
  <2> QED BY <1>2, <2>2 DEF Task
<1>4. Good(t) /\ Knows(t)
  BY <1>3 DEF Good, Knows
<1> QED BY <1>1, <1>2, <1>3, <1>4, GoesOn

\* In calm nobody with a live row is missing from the listing.
LEMMA FindUnseenKeeps == ASSUME IInv, NEW h \in Handlers, FindUnseen(h) PROVE IInv'
<1> PICK b : b = task[h]
  OBVIOUS
<1> PICK s : s = {a \in AccountIds : /\ account[a].type = "workspace" /\ IsLive(a)
                                     /\ account[a].user \notin b.seen}
  OBVIOUS
<1>1. /\ b.pc = "find" /\ UNCHANGED <<account, remote, budget, calm>>
      /\ IF s = {} THEN End(h) ELSE Set(h, [b EXCEPT !.pc = "flag", !.todo = s])
  BY DEF FindUnseen, At
<1>2. b \in Task /\ ~Idle(h)
  BY <1>1, TaskTyped DEF Tasks, Idle
<1>3. CASE s = {}
  BY <1>1, <1>2, <1>3, EndsReading
<1>4. CASE s # {}
  <2> PICK t : t = [b EXCEPT !.pc = "flag", !.todo = s]
    OBVIOUS
  <2>1. t \in Task /\ t.pc = "flag"
    <3>1. s \in SUBSET AccountIds /\ "flag" \in Points
      BY DEF Points
    <3>2. t \in Task
      BY <1>2, <3>1, TodoSet
    <3> QED BY <1>2, <3>2 DEF Task
  <2>2. Set(h, t) /\ Knows(t)
    BY <1>1, <1>4, <2>1 DEF Knows
  <2>3. ASSUME Steady(b) PROVE FALSE
    <3>1. PICK a \in AccountIds : account[a].type = "workspace" /\ IsLive(a) /\ account[a].user \notin b.seen
      BY <1>4
    <3> PICK u : u = account[a].user
      OBVIOUS
    <3>2. There(a) /\ u \in Users
      BY <2>3, <3>1 DEF Steady, Tables, RowsLinked, There, IsLive
    <3>3. a \in Live(u, "workspace")
      BY <3>1, <3>2 DEF Live, Rows, There
    <3>4. google[u] = "active"
      BY <1>1, <2>3, <3>2, <3>3 DEF Steady, Agrees, InHand
    <3> QED BY <1>1, <2>3, <3>1, <3>2, <3>4 DEF Steady, Good
  <2> QED BY <1>1, <1>2, <2>1, <2>2, <2>3, GoesOn
<1> QED BY <1>3, <1>4

LEMMA StatusTyped ==
  ASSUME Typed, NEW a, NEW status \in {"active", "suspended", "removed"}, SetStatus(a, status)
  PROVE  account' \in [AccountIds -> Account]
<1>1. account \in [AccountIds -> Account] /\ now \in Nat
  BY DEF Typed
<1>2. ASSUME NEW c \in AccountIds PROVE [account[c] EXCEPT !.status = status, !.changed = now] \in Account
  BY <1>1 DEF Account
<1>3. CASE a \in AccountIds
  BY <1>1, <1>2, <1>3 DEF SetStatus
<1>4. CASE a \notin AccountIds
  BY <1>1, <1>4 DEF SetStatus
<1> QED BY <1>3, <1>4

LEMMA FlagUnseenKeeps == ASSUME IInv, NEW h \in Handlers, FlagUnseen(h) PROVE IInv'
<1> PICK b : b = task[h]
  OBVIOUS
<1>1. /\ b.pc = "flag" /\ SetStatus(Row(h), "removed") /\ Advance(h, "flag")
      /\ UNCHANGED <<remote, budget, calm>>
  BY DEF FlagUnseen, At
<1>2. h \in Tasks /\ ~Idle(h) /\ b \in Task /\ Typed
  BY <1>1, TaskTyped DEF Tasks, Idle
<1>3. "flag" \in Points
  BY DEF Points
<1>4. PICK t \in Task :
        /\ Set(h, t)
        /\ \/ t = NoTask
           \/ /\ t.pc = "flag" /\ t.todo = b.todo \ {First(b.todo)} /\ (b.todo # {} => t.todo # {})
              /\ t.act = b.act /\ t.seen = b.seen /\ t.people = b.people
  BY <1>1, <1>2, <1>3, AdvanceIs
<1>5. Knows(t)
  BY <1>4, NoTaskTyped DEF Knows
<1>6. Typed'
  BY <1>1, <1>2, StatusTyped DEF Typed, budget, remote
<1>7. ~Steady(b)
  BY <1>1 DEF Steady, Good
<1> QED BY <1>1, <1>2, <1>4, <1>5, <1>6, <1>7, BusyAlone, Moves

LEMMA FetchKeeps == ASSUME IInv, NEW h \in Handlers, Fetch(h) PROVE IInv'
<1> PICK b, m, l : /\ b = task[h] /\ m = {u \in Users : seat[u] # "none"}
                   /\ l = {i \in InviteIds : invite[i].state \in {"open", "accepted"}}
  OBVIOUS
<1> PICK t : t = [b EXCEPT !.pc = "link", !.seen = m, !.people = m, !.listed = l]
  OBVIOUS
<1>1. b.pc = "fetch" /\ Set(h, t) /\ UNCHANGED <<account, remote, budget, calm>>
  BY DEF Fetch, At
<1>2. b \in Task /\ ~Idle(h)
  BY <1>1, TaskTyped DEF Tasks, Idle
<1>3. t \in Task /\ t.pc = "link" /\ t.seen = m
  <2>1. m \subseteq Users /\ l \subseteq InviteIds /\ "link" \in Points
    BY DEF Points
  <2>2. t \in Task
    BY <1>2, <2>1 DEF Task
  <2> QED BY <1>2, <2>2 DEF Task
<1>4. Good(t) /\ Knows(t)
  BY <1>3 DEF Good, Knows
<1> QED BY <1>1, <1>2, <1>3, <1>4, GoesOn

LEMMA LinkMemberKeeps == ASSUME IInv, NEW h \in Handlers, LinkMember(h) PROVE IInv'
<1> PICK b : b = task[h]
  OBVIOUS
<1>1. PICK u \in b.people :
        /\ Insert(u, "claude", "active", Identity) \/ UNCHANGED account
        /\ Set(h, [b EXCEPT !.people = @ \ {u}])
  BY DEF LinkMember
<1>2. b.pc = "link" /\ UNCHANGED <<remote, budget, calm>>
  BY DEF LinkMember, At
<1>3. h \in Tasks /\ ~Idle(h) /\ b \in Task /\ Typed
  BY <1>2, TaskTyped DEF Tasks, Idle
<1>4. u \in Users
  BY <1>3 DEF Task
<1> PICK p : p = b.people \ {u}
  OBVIOUS
<1> PICK t : t = [b EXCEPT !.people = p]
  OBVIOUS
<1>5. t \in Task /\ t.pc = "link" /\ t.seen = b.seen
  <2>1. p \subseteq Users
    BY <1>3 DEF Task
  <2> QED BY <1>2, <1>3, <2>1 DEF Task
<1>6. Set(h, t) /\ Knows(t)
  BY <1>1, <1>5 DEF Knows
<1>7. Good(b) => Good(t)
  BY <1>2, <1>5 DEF Good
<1>8. CASE UNCHANGED account
  BY <1>2, <1>3, <1>5, <1>6, <1>7, <1>8, GoesOn DEF Steady
<1>9. CASE Insert(u, "claude", "active", Identity)
  <2>1. Typed'
    <3>1. account' \in [AccountIds -> Account]
      BY <1>3, <1>4, <1>9, RowTyped
    <3> QED BY <1>2, <1>3, <3>1 DEF Typed, budget, remote
  <2>2. ASSUME calm, Steady(b) PROVE Steady(t)'
    <3>1. /\ Tables /\ (\A w \in Users : Agrees(w)) /\ (\A c \in AccountIds : Invited(c)) /\ Good(b)
      BY <1>2, <2>2 DEF Steady, InHand, Writes
    <3>2. UNCHANGED <<remote, now>>
      BY <1>2 DEF budget
    <3>3. /\ Tables' /\ (\A w \in Users : Agrees(w)' <=> Agrees(w))
          /\ \A c \in AccountIds : Invited(c) => Invited(c)'
      BY <1>3, <1>4, <1>9, <3>1, <3>2, InsertTables
    <3>4. Good(t)'
      BY <1>5, <1>7, <3>1, <3>2 DEF Good, remote
    <3> QED BY <3>1, <3>3, <3>4 DEF Steady
  <2> QED BY <1>2, <1>3, <1>5, <1>6, <2>1, <2>2, BusyAlone, Moves
<1> QED BY <1>1, <1>8, <1>9

LEMMA FindAcceptedKeeps == ASSUME IInv, NEW h \in Handlers, FindAccepted(h) PROVE IInv'
<1> PICK b : b = task[h]
  OBVIOUS
<1> PICK s : s = {a \in AccountIds : /\ account[a].type = "claude" /\ account[a].status = "pending"
                                     /\ account[a].ext \in b.listed
                                     /\ invite[account[a].ext].user \in b.seen}
  OBVIOUS
<1> PICK pc : pc = IF s = {} THEN "findStale" ELSE "accept"
  OBVIOUS
<1> PICK t : t = [b EXCEPT !.pc = pc, !.todo = s]
  OBVIOUS
<1>1. b.pc = "link" /\ Set(h, t) /\ UNCHANGED <<account, remote, budget, calm>>
  BY DEF FindAccepted, At
<1>2. b \in Task /\ ~Idle(h)
  BY <1>1, TaskTyped DEF Tasks, Idle
<1>3. t \in Task /\ t.pc = pc /\ t.todo = s /\ t.seen = b.seen
  <2>1. s \in SUBSET AccountIds /\ pc \in Points
    BY DEF Points
  <2>2. t \in Task
    BY <1>2, <2>1, TodoSet
  <2> QED BY <1>2, <2>2 DEF Task
<1>4. Knows(t)
  BY <1>3 DEF Knows
<1>5. ASSUME Steady(b) PROVE Good(t)
  <2>1. \A w \in Users : seat[w] = "workspace" => w \in t.seen
    BY <1>1, <1>3, <1>5 DEF Steady, Good
  <2>2. \A a \in s : There(a) /\ account[a].type = "claude" /\ account[a].user \in t.seen
    <3> TAKE a \in s
    <3>1. There(a) /\ a \in AccountIds /\ account[a].ext \in InviteIds
      BY <1>2 DEF There, Task
    <3>2. invite[account[a].ext].user = account[a].user
      BY <1>5, <3>1 DEF Steady, Tables, RowsLinked, InviteIds, Identity
    <3> QED BY <1>3, <3>1, <3>2
  <2>3. CASE s = {}
    <3>1. t.pc = "findStale"
      BY <1>3, <2>3
    <3> QED BY <2>1, <3>1 DEF Good
  <2>4. CASE s # {}
    <3>1. t.pc = "accept" /\ Visits(t, "claude")
      BY <1>3, <2>2, <2>4 DEF Visits
    <3> QED BY <1>3, <2>1, <2>2, <3>1 DEF Good
  <2> QED BY <2>3, <2>4
<1> QED BY <1>1, <1>2, <1>3, <1>4, <1>5, GoesOn

LEMMA FindStaleKeeps == ASSUME IInv, NEW h \in Handlers, FindStale(h) PROVE IInv'
<1> PICK b : b = task[h]
  OBVIOUS
<1> PICK s : s = {a \in AccountIds :
                    /\ account[a].type = "claude" /\ account[a].status \notin {"none", "removed"}
                    /\ ~(IF account[a].ext = Identity THEN account[a].user \in b.seen
                                                      ELSE account[a].ext \in b.listed)}
  OBVIOUS
<1>1. /\ b.pc = "findStale" /\ UNCHANGED <<account, remote, budget, calm>>
      /\ IF s = {} THEN End(h) ELSE Set(h, [b EXCEPT !.pc = "stale", !.todo = s])
  BY DEF FindStale, At
<1>2. b \in Task /\ ~Idle(h)
  BY <1>1, TaskTyped DEF Tasks, Idle
<1>3. CASE s = {}
  BY <1>1, <1>2, <1>3, EndsReading
<1>4. CASE s # {}
  <2> PICK t : t = [b EXCEPT !.pc = "stale", !.todo = s]
    OBVIOUS
  <2>1. t \in Task /\ t.pc = "stale" /\ t.todo = s /\ t.seen = b.seen
    <3>1. s \in SUBSET AccountIds /\ "stale" \in Points
      BY DEF Points
    <3>2. t \in Task
      BY <1>2, <3>1, TodoSet
    <3> QED BY <1>2, <3>2 DEF Task
  <2>2. Set(h, t) /\ Knows(t)
    BY <1>1, <1>4, <2>1 DEF Knows
  <2>3. ASSUME Steady(b) PROVE Good(t)
    <3>1. \A w \in Users : seat[w] = "workspace" => w \in t.seen
      BY <1>1, <2>1, <2>3 DEF Steady, Good
    <3>2. \A a \in s : /\ There(a) /\ account[a].type = "claude"
                       /\ account[a].ext = Identity => account[a].user \notin t.seen
      BY <2>1 DEF There
    <3> QED BY <1>4, <2>1, <3>1, <3>2 DEF Good, Visits
  <2> QED BY <1>1, <1>2, <2>1, <2>2, <2>3, GoesOn
<1> QED BY <1>3, <1>4

LEMMA RecordAcceptedKeeps == ASSUME IInv, NEW h \in Handlers, RecordAccepted(h) PROVE IInv'
<1> PICK b, a, u : b = task[h] /\ a = Row(h) /\ u = account[a].user
  OBVIOUS
<1>1. /\ b.pc = "accept" /\ UNCHANGED <<google, invite, now, ops, drift, calm>>
      /\ account' = [account EXCEPT ![a].status = "active", ![a].ext = Identity, ![a].changed = now]
      /\ fails' \in {fails, fails + 1}
      /\ seat' \in {seat, [seat EXCEPT ![u] = IF @ = "org" THEN "workspace" ELSE @]}
      /\ IF b.todo = {a} THEN Set(h, [b EXCEPT !.pc = "findStale", !.todo = {}]) ELSE Advance(h, "accept")
  BY DEF RecordAccepted, At
<1>2. h \in Tasks /\ ~Idle(h) /\ b \in Task /\ Typed
  BY <1>1, TaskTyped DEF Tasks, Idle
<1>3. PICK t \in Task :
        /\ Set(h, t) /\ t.seen = b.seen /\ t.pc \in {"findStale", "accept"}
        /\ t.pc = "accept" => t.todo = b.todo \ {a} /\ (b.todo # {} => t.todo # {})
  <2>1. CASE b.todo = {a}
    <3> PICK t : t = [b EXCEPT !.pc = "findStale", !.todo = {}]
      OBVIOUS
    <3>1. "findStale" \in Points
      BY DEF Points
    <3>2. t \in Task /\ t.pc = "findStale" /\ t.seen = b.seen
      <4>1. {} \in SUBSET AccountIds
        OBVIOUS
      <4>2. t \in Task
        BY <1>2, <3>1, <4>1, TodoSet
      <4> QED BY <1>2, <4>2 DEF Task
    <3> QED BY <1>1, <2>1, <3>2
  <2>2. CASE b.todo # {a}
    <3> PICK s : s = b.todo \ {a}
      OBVIOUS
    <3> PICK t : t = [b EXCEPT !.pc = "accept", !.todo = s]
      OBVIOUS
    <3>1. s \in SUBSET AccountIds /\ (b.todo # {} => s # {}) /\ "accept" \in Points
      BY <1>2, <2>2 DEF Task, Points
    <3>2. t \in Task /\ t.pc = "accept" /\ t.seen = b.seen /\ t.todo = s
      <4>1. t \in Task
        BY <1>2, <3>1, TodoSet
      <4> QED BY <1>2, <4>1 DEF Task
    <3>3. Set(h, t)
      BY <1>1, <2>2 DEF Advance, Row
    <3> QED BY <3>1, <3>2, <3>3
  <2> QED BY <2>1, <2>2
<1>4. Knows(t)
  BY <1>3 DEF Knows
<1>5. Typed'
  <2>1. account \in [AccountIds -> Account] /\ now \in Nat /\ seat \in [Users -> {"none", "org", "workspace"}]
    BY <1>2 DEF Typed
  <2>2. ASSUME NEW c \in AccountIds
        PROVE  [account[c] EXCEPT !.status = "active", !.ext = Identity, !.changed = now] \in Account
    BY <2>1 DEF Account
  <2>3. account' \in [AccountIds -> Account]
    <3>1. CASE a \in AccountIds
      BY <1>1, <2>1, <2>2, <3>1
    <3>2. CASE a \notin AccountIds
      BY <1>1, <2>1, <3>2
    <3> QED BY <3>1, <3>2
  <2>4. seat' \in [Users -> {"none", "org", "workspace"}]
    BY <1>1, <2>1
  <2> QED BY <1>1, <1>2, <2>3, <2>4 DEF Typed
<1>6. ASSUME calm, Steady(b) PROVE Steady(t)'
  <2>1. /\ Tables /\ Visits(b, "claude") /\ a = First(b.todo)
        /\ \A c \in b.todo : account[c].user \in b.seen
        /\ \A w \in Users : seat[w] = "workspace" => w \in b.seen
        /\ (\A w \in Users : Agrees(w)) /\ \A c \in AccountIds : Invited(c)
    BY <1>1, <1>6 DEF Steady, Good, InHand, Writes, Row
  <2>2. a \in b.todo /\ a \in AccountIds
    BY <1>2, <2>1, FirstIsIn DEF Task, Visits
  <2>3. There(a) /\ account[a].type = "claude" /\ u \in b.seen /\ u \in Users /\ account[a] \in Account
    BY <1>2, <2>1, <2>2 DEF Visits, Tables, RowsLinked, Typed
  <2> PICK r : r = [account[a] EXCEPT !.status = "active", !.ext = Identity, !.changed = now]
    OBVIOUS
  <2>4. account' = [account EXCEPT ![a] = r]
    BY <1>1, <1>2, <2>2 DEF Typed
  <2>5. r.user = u /\ r.type = "claude" /\ r.status = "active" /\ r.ext = Identity
    BY <2>3 DEF Account
  <2>6. Written(a, r)
    BY <2>3, <2>4, <2>5 DEF Written
  <2>7. /\ account'[a] = r /\ \A c \in AccountIds : c # a => account'[c] = account[c]
        /\ \A c \in AccountIds : There(c)' <=> There(c)
        /\ \A w, type : Rows(w, type)' = Rows(w, type)
    BY <1>2, <2>2, <2>3, <2>4, <2>5, RowWritten
  <2>8. /\ RowsLinked' /\ OneInvite' /\ OneRow' /\ DueOK'
        /\ \A w \in Users : w # r.user \/ r.type # "workspace" => (Agrees(w)' <=> Agrees(w))
        /\ r.type = "workspace" =>
             (Agrees(r.user)' <=> ((google[r.user] = "active") <=> r.status \in {"pending", "active"}))
        /\ \A c \in AccountIds : c # a => (Invited(c)' <=> Invited(c))
    BY <1>1, <1>2, <2>1, <2>2, <2>6, WriteTables
  <2>9. \A w \in Users : w # u => seat'[w] = seat[w]
    BY <1>1, <1>2 DEF Typed
  <2>10. ASSUME NEW w \in Users PROVE Recorded(w)'
    <3>1. CASE w = u
      <4>1. a \in Rows(u, "claude")'
        BY <2>2, <2>3, <2>7 DEF Rows, There
      <4> QED BY <2>5, <2>7, <3>1, <4>1 DEF Recorded
    <3>2. CASE w # u
      <4>1. Recorded(w) /\ (seat'[w] = "workspace" => seat[w] = "workspace")
        BY <2>1, <2>9, <3>2 DEF Tables
      <4> QED BY <1>2, <2>2, <2>5, <2>6, <4>1, RecordStays
    <3> QED BY <3>1, <3>2
  <2>11. Invited(a)'
    BY <2>5, <2>7 DEF Invited
  <2>12. Good(t)'
    <3>1. \A w \in Users : seat'[w] = "workspace" => w \in t.seen
      BY <1>3, <2>1, <2>3, <2>9
    <3>2. CASE t.pc = "findStale"
      BY <3>1, <3>2 DEF Good
    <3>3. CASE t.pc = "accept"
      <4>1. t.todo # {} /\ t.todo \subseteq AccountIds /\ \A c \in t.todo : c # a /\ c \in b.todo
        BY <1>2, <1>3, <2>2, <3>3 DEF Task
      <4>2. \A c \in t.todo : /\ account'[c] = account[c] /\ There(c)' /\ There(c)
                              /\ account[c].type = "claude" /\ account[c].user \in t.seen
        BY <1>3, <2>1, <2>7, <4>1 DEF Visits
      <4>3. Visits(t, "claude")'
        BY <4>1, <4>2 DEF Visits
      <4> QED BY <3>1, <3>3, <4>2, <4>3 DEF Good
    <3> QED BY <1>3, <3>2, <3>3
  <2> QED BY <2>1, <2>5, <2>8, <2>10, <2>11, <2>12 DEF Steady, Tables
<1> QED BY <1>1, <1>2, <1>3, <1>4, <1>5, <1>6, BusyAlone, Moves

LEMMA FlagStaleKeeps == ASSUME IInv, NEW h \in Handlers, FlagStale(h) PROVE IInv'
<1> PICK b, a : b = task[h] /\ a = Row(h)
  OBVIOUS
<1>1. b.pc = "stale" /\ SetStatus(a, "removed") /\ Advance(h, "stale") /\ UNCHANGED <<remote, budget, calm>>
  BY DEF FlagStale, At
<1>2. h \in Tasks /\ ~Idle(h) /\ b \in Task /\ Typed
  BY <1>1, TaskTyped DEF Tasks, Idle
<1>3. "stale" \in Points
  BY DEF Points
<1>4. PICK t \in Task :
        /\ Set(h, t)
        /\ \/ t = NoTask
           \/ /\ t.pc = "stale" /\ t.todo = b.todo \ {First(b.todo)} /\ (b.todo # {} => t.todo # {})
              /\ t.act = b.act /\ t.seen = b.seen /\ t.people = b.people
  BY <1>1, <1>2, <1>3, AdvanceIs
<1>5. Knows(t)
  BY <1>4, NoTaskTyped DEF Knows
<1>6. Typed'
  BY <1>1, <1>2, StatusTyped DEF Typed, budget, remote
<1>7. ASSUME calm, Steady(b) PROVE Steady(t)'
  <2>1. /\ Tables /\ Visits(b, "claude") /\ a = First(b.todo)
        /\ \A c \in b.todo : account[c].ext = Identity => account[c].user \notin b.seen
        /\ \A w \in Users : seat[w] = "workspace" => w \in b.seen
        /\ (\A w \in Users : Agrees(w)) /\ \A c \in AccountIds : Invited(c)
    BY <1>1, <1>7 DEF Steady, Good, InHand, Writes, Row
  <2>2. a \in b.todo /\ a \in AccountIds
    BY <1>2, <2>1, FirstIsIn DEF Task, Visits
  <2>3. There(a) /\ account[a].type = "claude" /\ account[a].user \in Users /\ account[a] \in Account
    BY <1>2, <2>1, <2>2 DEF Visits, Tables, RowsLinked, Typed
  <2> PICK r : r = [account[a] EXCEPT !.status = "removed", !.changed = now]
    OBVIOUS
  <2>4. account' = [account EXCEPT ![a] = r]
    BY <1>1, <1>2, <2>2 DEF SetStatus, Typed
  <2>5. r.user = account[a].user /\ r.type = "claude" /\ r.status = "removed" /\ r.ext = account[a].ext
    BY <2>3 DEF Account
  <2>6. Written(a, r)
    BY <2>3, <2>4, <2>5 DEF Written
  <2>7. /\ account'[a] = r /\ \A c \in AccountIds : c # a => account'[c] = account[c]
        /\ \A c \in AccountIds : There(c)' <=> There(c)
        /\ \A w, type : Rows(w, type)' = Rows(w, type)
    BY <1>2, <2>2, <2>3, <2>4, <2>5, RowWritten
  <2>8. /\ RowsLinked' /\ OneInvite' /\ OneRow' /\ DueOK'
        /\ \A w \in Users : w # r.user \/ r.type # "workspace" => (Agrees(w)' <=> Agrees(w))
        /\ r.type = "workspace" =>
             (Agrees(r.user)' <=> ((google[r.user] = "active") <=> r.status \in {"pending", "active"}))
        /\ \A c \in AccountIds : c # a => (Invited(c)' <=> Invited(c))
    <3>1. UNCHANGED <<google, invite>> /\ Typed /\ Tables
      BY <1>1, <1>2, <2>1 DEF remote
    <3> QED BY <2>2, <2>6, <3>1, WriteTables
  <2>9. seat' = seat
    BY <1>1 DEF remote
  <2>10. ASSUME NEW w \in Users PROVE Recorded(w)'
    <3>1. account[a].ext # Identity \/ seat[account[a].user] # "workspace"
      BY <2>1, <2>2, <2>3
    <3>2. Recorded(w) /\ (seat'[w] = "workspace" => seat[w] = "workspace")
      BY <2>1, <2>9 DEF Tables
    <3> QED BY <1>2, <2>2, <2>6, <3>1, <3>2, RecordStays
  <2>11. Invited(a)'
    BY <2>5, <2>7 DEF Invited
  <2>12. Good(t)'
    <3>1. CASE t = NoTask
      BY <3>1, NoTaskTyped DEF Good
    <3>2. CASE t.pc = "stale"
      <4>1. /\ t.seen = b.seen /\ t.todo # {} /\ t.todo \subseteq AccountIds
            /\ \A c \in t.todo : c # a /\ c \in b.todo
        BY <1>2, <1>4, <2>1, <2>2, <3>2, NoTaskTyped DEF Task
      <4>2. \A c \in t.todo : account'[c] = account[c] /\ There(c)' /\ There(c) /\ account[c].type = "claude"
        BY <2>1, <2>7, <4>1 DEF Visits
      <4>3. Visits(t, "claude")'
        BY <4>1, <4>2 DEF Visits
      <4>4. \A w \in Users : seat'[w] = "workspace" => w \in t.seen
        BY <2>1, <2>9, <4>1
      <4>5. \A c \in t.todo : account'[c].ext = Identity => account'[c].user \notin t.seen
        BY <2>1, <4>1, <4>2
      <4> QED BY <3>2, <4>3, <4>4, <4>5 DEF Good
    <3> QED BY <1>4, <3>1, <3>2
  <2> QED BY <2>1, <2>5, <2>8, <2>10, <2>11, <2>12 DEF Steady, Tables
<1> QED BY <1>1, <1>2, <1>4, <1>5, <1>6, <1>7, BusyAlone, Moves

-----------------------------------------------------------------------------
(* The job *)

\* The row the job is at: it was removed, and its retention is over.
LEMMA JobTaken ==
  ASSUME IInv, task[Scheduler].pc \in {"delete", "clear"}, Steady(task[Scheduler])
  PROVE  LET a == Row(Scheduler) IN
         /\ a \in task[Scheduler].todo /\ a \in AccountIds /\ There(a) /\ account[a] \in Account
         /\ account[a].type = "workspace" /\ account[a].status = "removed"
         /\ account[a].due # Never /\ account[a].due <= now /\ account[a].user \in Users
         /\ a \in Rows(account[a].user, "workspace") /\ Live(account[a].user, "workspace") = {}
<1> PICK b, a : b = task[Scheduler] /\ a = Row(Scheduler)
  OBVIOUS
<1>1. b \in Task /\ Typed /\ a = First(b.todo)
  BY TaskTyped DEF Tasks, Row
<1>2. /\ Tables /\ Visits(b, "workspace")
      /\ \A c \in b.todo : account[c].status = "removed" /\ account[c].due # Never /\ account[c].due <= now
  BY DEF Steady, Good
<1>3. a \in b.todo /\ a \in AccountIds
  BY <1>1, <1>2, FirstIsIn DEF Task, Visits
<1>4. /\ There(a) /\ account[a] \in Account /\ account[a].type = "workspace" /\ account[a].status = "removed"
      /\ account[a].due # Never /\ account[a].due <= now /\ account[a].user \in Users
  BY <1>1, <1>2, <1>3 DEF Visits, Typed, Tables, RowsLinked
<1> PICK u : u = account[a].user
  OBVIOUS
<1>5. a \in Rows(u, "workspace") /\ u \in Users
  BY <1>3, <1>4 DEF Rows, There
<1>6. Live(u, "workspace") = {}
  BY <1>2, <1>4, <1>5 DEF Tables, OneRow, Live, IsLive
<1> QED BY <1>3, <1>4, <1>5, <1>6

LEMMA DeleteUserKeeps == ASSUME IInv, DeleteUser PROVE IInv'
<1> PICK b, a, u : b = task[Scheduler] /\ a = Row(Scheduler) /\ u = account[a].user
  OBVIOUS
<1>1. b.pc = "delete" /\ UNCHANGED <<account, invite, seat, budget, calm>>
  BY DEF DeleteUser, At
<1>2. Scheduler \in Tasks /\ ~Idle(Scheduler) /\ b \in Task /\ Typed
  BY <1>1, TaskTyped DEF Tasks, Idle
<1>3. CASE google' = [google EXCEPT ![u] = "absent"] /\ Go(Scheduler, "clear")
  <2> PICK t : t = [b EXCEPT !.pc = "clear"]
    OBVIOUS
  <2>1. t \in Task /\ t.pc = "clear" /\ t.todo = b.todo /\ Set(Scheduler, t)
    BY <1>2, <1>3 DEF Task, Points, Go
  <2>2. Knows(t)
    BY <2>1 DEF Knows
  <2>3. Typed'
    BY <1>1, <1>2, <1>3 DEF Typed, budget
  <2>4. ASSUME calm, Steady(b) PROVE Steady(t)'
    <3>1. /\ Visits(b, "workspace") /\ Tables
          /\ \A c \in b.todo : account[c].status = "removed" /\ account[c].due # Never /\ account[c].due <= now
          /\ (\A w \in Users : Agrees(w)) /\ \A c \in AccountIds : Invited(c)
      BY <1>1, <2>4 DEF Steady, Good, InHand, Writes
    <3>2. u \in Users /\ Live(u, "workspace") = {}
      BY <1>1, <2>4, JobTaken
    <3>3. /\ google'[u] = "absent" /\ (\A w \in Users : w # u => google'[w] = google[w])
          /\ \A w, type : Rows(w, type)' = Rows(w, type) /\ Live(w, type)' = Live(w, type)
          /\ Tables => Tables'
          /\ \A w \in Users : w # u => (Agrees(w)' <=> Agrees(w))
          /\ \A c \in AccountIds : Invited(c)' <=> Invited(c)
      <4>1. UNCHANGED <<account, invite, seat, now>>
        BY <1>1 DEF budget
      <4> QED BY <1>2, <1>3, <3>1, <3>2, <4>1, GoogleWritten
    <3>4. Agrees(u)'
      BY <3>2, <3>3 DEF Agrees
    <3>5. Visits(t, "workspace")'
      BY <1>1, <2>1, <3>1 DEF Visits, There
    <3>6. Good(t)'
      BY <1>1, <2>1, <3>1, <3>5 DEF Good, budget
    <3> QED BY <3>1, <3>3, <3>4, <3>6 DEF Steady
  <2> QED BY <1>1, <1>2, <2>1, <2>2, <2>3, <2>4, BusyAlone, Moves
<1>4. CASE UNCHANGED google /\ Advance(Scheduler, "delete")
  <2>1. UNCHANGED <<account, remote, now, ops, drift>> /\ fails' \in Nat /\ calm' \in BOOLEAN /\ calm' = calm
    BY <1>1, <1>2, <1>4 DEF budget, Typed, remote
  <2> QED BY <1>1, <1>2, <1>4, <2>1, AdvanceKeeps
<1> QED BY <1>3, <1>4 DEF DeleteUser

LEMMA ClearDueKeeps == ASSUME IInv, ClearDue PROVE IInv'
<1> PICK b, a, u : b = task[Scheduler] /\ a = Row(Scheduler) /\ u = account[a].user
  OBVIOUS
<1>1. /\ b.pc = "clear" /\ account' = [account EXCEPT ![a].due = Never] /\ Advance(Scheduler, "delete")
      /\ UNCHANGED <<remote, budget, calm>>
  BY DEF ClearDue, At
<1>2. Scheduler \in Tasks /\ ~Idle(Scheduler) /\ b \in Task /\ Typed
  BY <1>1, TaskTyped DEF Tasks, Idle
<1>3. "delete" \in Points
  BY DEF Points
<1>4. PICK t \in Task :
        /\ Set(Scheduler, t)
        /\ \/ t = NoTask
           \/ /\ t.pc = "delete" /\ t.todo = b.todo \ {First(b.todo)} /\ (b.todo # {} => t.todo # {})
              /\ t.act = b.act /\ t.seen = b.seen /\ t.people = b.people
  BY <1>1, <1>2, <1>3, AdvanceIs
<1>5. Knows(t)
  BY <1>4, NoTaskTyped DEF Knows
<1>6. Typed'
  <2>1. account \in [AccountIds -> Account]
    BY <1>2 DEF Typed
  <2>2. ASSUME NEW c \in AccountIds PROVE [account[c] EXCEPT !.due = Never] \in Account
    BY <2>1 DEF Account
  <2>3. account' \in [AccountIds -> Account]
    <3>1. CASE a \in AccountIds
      BY <1>1, <2>1, <2>2, <3>1
    <3>2. CASE a \notin AccountIds
      BY <1>1, <2>1, <3>2
    <3> QED BY <3>1, <3>2
  <2> QED BY <1>1, <1>2, <2>3 DEF Typed, budget, remote
<1>7. ASSUME calm, Steady(b) PROVE Steady(t)'
  <2>1. /\ Visits(b, "workspace") /\ Tables
        /\ \A c \in b.todo : account[c].status = "removed" /\ account[c].due # Never /\ account[c].due <= now
        /\ (\A w \in Users : Agrees(w)) /\ \A c \in AccountIds : Invited(c)
    BY <1>1, <1>7 DEF Steady, Good, InHand, Writes
  <2>2. /\ a \in b.todo /\ a \in AccountIds /\ There(a) /\ account[a] \in Account
        /\ account[a].type = "workspace" /\ account[a].status = "removed"
        /\ u \in Users /\ Live(u, "workspace") = {}
    BY <1>1, <1>7, JobTaken
  <2> PICK r : r = [account[a] EXCEPT !.due = Never]
    OBVIOUS
  <2>3. account' = [account EXCEPT ![a] = r]
    BY <1>1, <1>2, <2>2 DEF Typed
  <2>4. r.user = u /\ r.type = "workspace" /\ r.status = "removed" /\ r.ext = account[a].ext /\ r.due = Never
    BY <2>2 DEF Account
  <2>5. Written(a, r)
    BY <2>2, <2>3, <2>4 DEF Written
  <2>6. /\ account'[a] = r /\ \A c \in AccountIds : c # a => account'[c] = account[c]
        /\ \A c \in AccountIds : There(c)' <=> There(c)
        /\ \A w, type : Rows(w, type)' = Rows(w, type)
    <3>1. Typed /\ There(a) /\ r.user = account[a].user /\ r.type = account[a].type /\ r.status # "none"
      BY <1>2, <2>2, <2>4
    <3> QED BY <2>2, <2>3, <3>1, RowWritten
  <2>7. /\ RowsLinked' /\ OneInvite' /\ OneRow' /\ DueOK'
        /\ \A w \in Users : w # r.user \/ r.type # "workspace" => (Agrees(w)' <=> Agrees(w))
        /\ r.type = "workspace" =>
             (Agrees(r.user)' <=> ((google[r.user] = "active") <=> r.status \in {"pending", "active"}))
        /\ \A c \in AccountIds : c # a => (Invited(c)' <=> Invited(c))
    <3>1. UNCHANGED <<google, invite>>
      BY <1>1 DEF remote
    <3> QED BY <1>2, <2>1, <2>2, <2>5, <3>1, WriteTables
  <2>8. ASSUME NEW w \in Users PROVE Recorded(w)'
    <3>1. Recorded(w) /\ (seat'[w] = "workspace" => seat[w] = "workspace")
      BY <1>1, <2>1 DEF Tables, remote
    <3> QED BY <1>2, <2>2, <2>5, <3>1, RecordStays
  <2>9. Invited(a)'
    BY <2>4, <2>6 DEF Invited
  <2>10. \A w \in Users : Agrees(w)'
    <3>1. google[u] # "active"
      BY <2>1, <2>2 DEF Agrees
    <3> QED BY <2>1, <2>4, <2>7, <3>1
  <2>11. Good(t)'
    <3>1. CASE t = NoTask
      BY <3>1, NoTaskTyped DEF Good
    <3>2. CASE t.pc = "delete"
      <4>1. t.todo # {} /\ t.todo \subseteq AccountIds /\ \A c \in t.todo : c # a /\ c \in b.todo
        BY <1>2, <1>4, <2>2, <3>2, NoTaskTyped DEF Task, Row
      <4>2. \A c \in t.todo : /\ account'[c] = account[c] /\ There(c)' /\ There(c)
                              /\ account[c].type = "workspace"
        BY <2>1, <2>6, <4>1 DEF Visits
      <4>3. Visits(t, "workspace")'
        BY <4>1, <4>2 DEF Visits
      <4>4. now' = now
        BY <1>1 DEF budget
      <4> QED BY <2>1, <3>2, <4>1, <4>2, <4>3, <4>4 DEF Good
    <3> QED BY <1>4, <3>1, <3>2
  <2> QED BY <2>1, <2>7, <2>8, <2>9, <2>10, <2>11 DEF Steady, Tables
<1> QED BY <1>1, <1>2, <1>4, <1>5, <1>6, <1>7, BusyAlone, Moves

-----------------------------------------------------------------------------
(* Failures and the world outside *)

LEMMA RemoteFailsKeeps == ASSUME IInv, NEW h \in Tasks, RemoteFails(h) PROVE IInv'
<1> PICK b, p : /\ b = task[h]
                /\ p = (b.pc = "call" /\ account[Row(h)].type = "claude" /\ b.act # "remove")
  OBVIOUS
<1>1. /\ b.pc \in {"create", "reactivate", "invite", "call", "reinvite", "delete", "list", "fetch"}
      /\ fails' = fails + 1 /\ calm' = (calm /\ ~p) /\ UNCHANGED <<account, remote, now, ops, drift>>
      /\ \/ p /\ Go(h, IF b.act = "unsuspend" THEN "reinvite" ELSE "save")
         \/ ~p /\ b.pc \in {"call", "reinvite"} /\ Advance(h, "open")
         \/ b.pc = "delete" /\ Advance(h, "delete")
         \/ End(h)
  BY DEF RemoteFails, At
<1>2. b \in Task /\ ~Idle(h) /\ Knows(b) /\ Typed
  BY <1>1, TaskTyped DEF Idle
<1>3. fails' \in Nat /\ calm' \in BOOLEAN /\ (calm' => calm)
  BY <1>1, <1>2 DEF Typed
<1>4. CASE p /\ Go(h, IF b.act = "unsuspend" THEN "reinvite" ELSE "save")
  <2> PICK pc : pc = IF b.act = "unsuspend" THEN "reinvite" ELSE "save"
    OBVIOUS
  <2> PICK t : t = [b EXCEPT !.pc = pc]
    OBVIOUS
  <2>1. t \in Task /\ t.pc = pc /\ t.todo = b.todo /\ t.act = b.act /\ Set(h, t)
    BY <1>2, <1>4 DEF Task, Points, Go
  <2>2. Knows(t)
    BY <1>2, <1>4, <2>1 DEF Knows
  <2>3. ~calm'
    BY <1>1, <1>4
  <2> QED BY <1>1, <1>2, <1>3, <2>1, <2>2, <2>3, MovesReading
<1>5. CASE b.pc \in {"call", "reinvite"} /\ Advance(h, "open")
  BY <1>1, <1>3, <1>5, AdvanceKeeps
<1>6. CASE b.pc = "delete" /\ Advance(h, "delete")
  BY <1>1, <1>3, <1>6, AdvanceKeeps
<1>7. CASE End(h)
  BY <1>1, <1>2, <1>3, <1>7, EndKeeps
<1> QED BY <1>1, <1>4, <1>5, <1>6, <1>7

LEMMA TransactionFailsKeeps == ASSUME IInv, NEW h \in Tasks, TransactionFails(h) PROVE IInv'
<1> PICK b : b = task[h]
  OBVIOUS
<1>1. /\ b.pc \in {"storeWorkspace", "storeClaude", "save", "clear", "accept", "stale"}
      /\ fails' = fails + 1 /\ calm' = FALSE /\ UNCHANGED <<account, remote, now, ops, drift>>
      /\ \/ b.pc = "save" /\ Advance(h, "open")
         \/ b.pc = "clear" /\ Advance(h, "delete")
         \/ End(h)
  BY DEF TransactionFails, At
<1>2. ~Idle(h) /\ fails' \in Nat /\ calm' \in BOOLEAN /\ ~calm'
  <2>1. fails \in Nat
    BY TaskTyped DEF Typed
  <2>2. ~Idle(h) /\ fails' = fails + 1 /\ calm' = FALSE
    BY <1>1 DEF Idle
  <2>3. fails' \in Nat
    BY <2>1, <2>2
  <2>4. calm' \in BOOLEAN /\ ~calm'
    BY <2>2
  <2> QED BY <2>2, <2>3, <2>4
<1>3. CASE b.pc = "save" /\ Advance(h, "open")
  BY <1>1, <1>2, <1>3, AdvanceKeeps
<1>4. CASE b.pc = "clear" /\ Advance(h, "delete")
  BY <1>1, <1>2, <1>4, AdvanceKeeps
<1>5. CASE End(h)
  BY <1>1, <1>2, <1>5, EndKeeps
<1> QED BY <1>1, <1>3, <1>4, <1>5

LEMMA CrashKeeps == ASSUME IInv, Crash PROVE IInv'
<1>1. /\ task' = [h \in Tasks |-> NoTask] /\ ~calm' /\ calm' \in BOOLEAN /\ fails' = fails + 1
      /\ UNCHANGED <<account, remote, now, ops, drift>>
  BY DEF Crash
<1>2. Typed'
  BY <1>1 DEF IInv, Types, Typed, remote
<1>3. (\A h \in Tasks : Knows(task[h]))' /\ task' \in [Tasks -> Task]
  BY <1>1, NoTaskTyped DEF Knows
<1> QED BY <1>1, <1>2, <1>3 DEF IInv, Types

LEMMA TasksStay ==
  ASSUME IInv, Typed', UNCHANGED task, calm' => Calmly'
  PROVE  IInv'
BY DEF IInv, Types, Knows

LEMMA DriftKeeps == ASSUME IInv, NEW u \in Users, Drift(u) PROVE IInv'
<1>1. /\ UNCHANGED <<account, invite, seat, now, task, ops, fails>> /\ ~calm' /\ calm' \in BOOLEAN
      /\ drift' = drift + 1 /\ \E s \in {"suspended", "absent"} : google' = [google EXCEPT ![u] = s]
  BY DEF Drift
<1>2. Typed'
  BY <1>1 DEF IInv, Types, Typed
<1> QED BY <1>1, <1>2, TasksStay

\* What task t knows is still so when an invitation is accepted.
LEMMA AcceptedIsGood ==
  ASSUME Typed, Tables, NEW t \in Task, Good(t), NEW i \in InviteIds, NEW v,
         invite' = [invite EXCEPT ![i] = v], v.user = invite[i].user, v.state = "accepted",
         UNCHANGED <<account, google, now>>, \A w \in Users : seat'[w] = "workspace" <=> seat[w] = "workspace"
  PROVE  Good(t)'
<1> PICK a : a = First(t.todo)
  OBVIOUS
<1>1. invite'[i] = v /\ \A j \in InviteIds : j # i => invite'[j] = invite[j]
  BY DEF Typed
<1>2. \A j, u : Fresh(j, u) => Fresh(j, u)'
  BY <1>1 DEF Fresh, There
<1>3. /\ \A type : Visits(t, type) => Visits(t, type)'
      /\ Provisions(t) => Provisions(t)'
      /\ \A act : Admissible(a, act)' <=> Admissible(a, act)
  BY DEF Visits, There, Provisions, Rows, Admissible
<1>4. Visits(t, "any") => account[a].user \in Users
  BY FirstIsIn DEF Task, Visits, Tables, RowsLinked
<1>5. \A w \in Users : seat'[w] = "workspace" => seat[w] = "workspace"
  OBVIOUS
<1>6. CASE t.pc \in {"create", "reactivate", "storeWorkspace", "invite", "storeClaude"}
  BY <1>2, <1>3, <1>6 DEF Good
<1>7. CASE t.pc \in {"open", "call", "reinvite"}
  BY <1>3, <1>7 DEF Good
<1>8. CASE t.pc = "save"
  BY <1>2, <1>3, <1>4, <1>5, <1>8 DEF Good
<1>9. CASE t.pc \in {"delete", "clear", "find"}
  BY <1>3, <1>9 DEF Good
<1>10. CASE t.pc \in {"link", "accept", "findStale", "stale"}
  BY <1>3, <1>5, <1>10 DEF Good
<1>11. CASE t.pc \in {"idle", "list", "flag", "fetch"}
  BY <1>11 DEF Good
<1> QED BY <1>6, <1>7, <1>8, <1>9, <1>10, <1>11 DEF Task, Points

LEMMA AcceptKeeps == ASSUME IInv, NEW i \in InviteIds, Accept(i) PROVE IInv'
<1> PICK v, u : v = [invite[i] EXCEPT !.state = "accepted"] /\ u = invite[i].user
  OBVIOUS
<1>1. /\ invite[i].state = "open" /\ invite' = [invite EXCEPT ![i] = v]
      /\ seat' = [seat EXCEPT ![u] = IF @ = "none" THEN "org" ELSE @]
      /\ UNCHANGED <<account, google, budget, task, calm>>
  BY DEF Accept
<1>2. Typed /\ invite[i] \in Invitation
  BY DEF IInv, Types, Typed
<1>3. v \in Invitation /\ v.user = u /\ v.state = "accepted"
  BY <1>2 DEF Invitation
<1>4. \A w \in Users : seat'[w] = "workspace" <=> seat[w] = "workspace"
  <2> TAKE w \in Users
  <2>1. CASE w = u
    BY <1>1, <1>2, <2>1 DEF Typed
  <2>2. CASE w # u
    BY <1>1, <1>2, <2>2 DEF Typed
  <2> QED BY <2>1, <2>2
<1>5. Typed'
  <2>1. invite' \in [InviteIds -> Invitation]
    BY <1>1, <1>2, <1>3 DEF Typed
  <2>2. seat' \in [Users -> {"none", "org", "workspace"}]
    BY <1>1, <1>2 DEF Typed
  <2> QED BY <1>1, <1>2, <2>1, <2>2 DEF Typed, budget
<1>6. ASSUME calm' PROVE Calmly'
  <2>1. Calmly
    BY <1>1, <1>6 DEF IInv
  <2>2. UNCHANGED <<account, google>> /\ UNCHANGED <<account, google, now>>
    BY <1>1 DEF budget
  <2>3. /\ Tables'
        /\ \A w \in Users : Agrees(w)' <=> Agrees(w)
        /\ \A c \in AccountIds :
             Invited(c) /\ (account[c].ext # i \/ v.state \in {"open", "accepted"}) => Invited(c)'
    <3>1. /\ Typed /\ Tables /\ UNCHANGED <<account, google>> /\ v.state # "none"
          /\ invite[i].state # "none" => v.user = invite[i].user
      BY <1>2, <1>3, <2>1, <2>2 DEF Calmly
    <3> QED BY <1>1, <1>4, <3>1, InviteTables
  <2>4. Alone'
    BY <1>1, <2>1 DEF Calmly, Alone, Idle
  <2>5. ASSUME NEW h \in Tasks PROVE Good(task[h])'
    <3> PICK t : t = task[h]
      OBVIOUS
    <3>1. t \in Task /\ Good(t) /\ task'[h] = t
      BY <1>1, <2>1, TaskTyped DEF Calmly
    <3>2. Good(t)'
      BY <1>1, <1>2, <1>3, <1>4, <2>1, <2>2, <3>1, AcceptedIsGood DEF Calmly
    <3> QED BY <3>1, <3>2
  <2>6. ASSUME NEW w \in Users PROVE Agrees(w)' \/ \E h \in Tasks : InHand(task[h], w)'
    BY <1>1, <2>1, <2>3 DEF Calmly, InHand
  <2>7. ASSUME NEW c \in AccountIds PROVE Invited(c)' \/ \E h \in Tasks : Writes(task[h], c)'
    BY <1>1, <1>3, <2>1, <2>3 DEF Calmly, Writes
  <2> QED BY <2>3, <2>4, <2>5, <2>6, <2>7 DEF Calmly
<1> QED BY <1>1, <1>5, <1>6, TasksStay

LEMMA TickKeeps == ASSUME IInv, Tick PROVE IInv'
<1>1. now' = now + 1 /\ UNCHANGED <<account, remote, task, ops, fails, drift, calm>>
  BY DEF Tick
<1>2. Typed'
  BY <1>1 DEF IInv, Types, Typed, remote
<1>3. ASSUME calm' PROVE Calmly'
  <2>1. Calmly /\ Typed /\ now \in Nat
    BY <1>1, <1>3 DEF IInv, Types, Typed
  <2>2. UNCHANGED account /\ UNCHANGED google /\ UNCHANGED invite /\ UNCHANGED seat /\ UNCHANGED task
    BY <1>1 DEF remote
  <2>3. Tables'
    BY <2>1, <2>2 DEF Calmly, Tables, RowsLinked, OneInvite, OneRow, DueOK, Recorded, Rows, There
  <2>4. Alone'
    BY <2>1, <2>2 DEF Calmly, Alone, Idle
  <2>5. ASSUME NEW h \in Tasks PROVE Good(task[h])'
    <3> PICK t : t = task[h]
      OBVIOUS
    <3>1. t \in Task /\ Good(t) /\ task'[h] = t
      BY <2>1, <2>2, TaskTyped DEF Calmly
    <3>2. CASE t.pc \in {"delete", "clear"}
      <4>1. Visits(t, "workspace")'
        BY <2>2, <3>1, <3>2 DEF Good, Visits, There
      <4>2. ASSUME NEW c \in t.todo PROVE account[c].due <= now'
        <5>1. account[c].due \in Nat \cup {Never} /\ account[c].due <= now
          BY <2>1, <3>1, <3>2, <4>2 DEF Good, Task, Typed, Account
        <5> QED BY <1>1, <2>1, <5>1 DEF Never
      <4> QED BY <2>2, <3>1, <3>2, <4>1, <4>2 DEF Good
    <3>3. CASE t.pc \notin {"delete", "clear"}
      BY <1>1, <3>1, <3>3, GoodStays
    <3> QED BY <3>2, <3>3
  <2>6. ASSUME NEW w \in Users PROVE Agrees(w)' \/ \E h \in Tasks : InHand(task[h], w)'
    BY <2>1, <2>2 DEF Calmly, Agrees, Live, Rows, IsLive, InHand
  <2>7. ASSUME NEW c \in AccountIds PROVE Invited(c)' \/ \E h \in Tasks : Writes(task[h], c)'
    BY <2>1, <2>2 DEF Calmly, Invited, Writes
  <2> QED BY <2>3, <2>4, <2>5, <2>6, <2>7 DEF Calmly
<1> QED BY <1>1, <1>2, <1>3, TasksStay

-----------------------------------------------------------------------------
(* The invariant *)

LEMMA StepKeeps == ASSUME IInv, NEW h \in Handlers, Step(h) PROVE IInv'
<1>1. CASE CreateUser(h) \/ Reactivate(h) \/ StoreWorkspace(h) \/ InviteMember(h) \/ StoreClaude(h)
  BY <1>1, CreateUserKeeps, ReactivateKeeps, StoreWorkspaceKeeps, InviteMemberKeeps, StoreClaudeKeeps
<1>2. CASE Open(h) \/ CallGoogle(h) \/ CallInvitation(h) \/ CallMember(h) \/ Reinvite(h) \/ Save(h)
  BY <1>2, OpenKeeps, CallGoogleKeeps, CallInvitationKeeps, CallMemberKeeps, ReinviteKeeps, SaveKeeps
<1>3. CASE ListUsers(h) \/ FindUnseen(h) \/ FlagUnseen(h)
  BY <1>3, ListUsersKeeps, FindUnseenKeeps, FlagUnseenKeeps
<1>4. CASE \/ Fetch(h) \/ LinkMember(h) \/ FindAccepted(h) \/ RecordAccepted(h)
           \/ FindStale(h) \/ FlagStale(h)
  BY <1>4, FetchKeeps, LinkMemberKeeps, FindAcceptedKeeps, RecordAcceptedKeeps, FindStaleKeeps,
     FlagStaleKeeps
<1> QED BY <1>1, <1>2, <1>3, <1>4 DEF Step

LEMMA StutterKeeps == ASSUME IInv, UNCHANGED vars PROVE IInv'
<1>1. /\ UNCHANGED account /\ UNCHANGED google /\ UNCHANGED invite /\ UNCHANGED seat
      /\ UNCHANGED <<now, task, ops, fails, drift, calm>>
  BY DEF vars
<1>2. Types'
  BY <1>1 DEF IInv, Types, Typed, Knows
<1>3. ASSUME calm' PROVE Calmly'
  <2>1. Calmly /\ \A h \in Tasks : task'[h] = task[h]
    BY <1>1, <1>3 DEF IInv
  <2>2. Tables' /\ Alone'
    BY <1>1, <2>1
       DEF Calmly, Tables, RowsLinked, OneInvite, OneRow, DueOK, Recorded, Rows, There, Alone, Idle
  <2>3. ASSUME NEW h \in Tasks PROVE Good(task[h])'
    <3> PICK t : t = task[h]
      OBVIOUS
    <3>1. Good(t) /\ task'[h] = t /\ UNCHANGED <<account, remote>> /\ now' = now
      BY <1>1, <2>1 DEF Calmly, remote
    <3>2. Good(t)'
      BY <3>1, GoodStays
    <3> QED BY <3>1, <3>2
  <2>4. ASSUME NEW w \in Users PROVE Agrees(w)' \/ \E h \in Tasks : InHand(task[h], w)'
    BY <1>1, <2>1 DEF Calmly, Agrees, Live, Rows, IsLive, InHand
  <2>5. ASSUME NEW c \in AccountIds PROVE Invited(c)' \/ \E h \in Tasks : Writes(task[h], c)'
    BY <1>1, <2>1 DEF Calmly, Invited, Writes
  <2> QED BY <2>2, <2>3, <2>4, <2>5 DEF Calmly
<1> QED BY <1>2, <1>3 DEF IInv

LEMMA NextKeeps == ASSUME IInv, [Next]_vars PROVE IInv'
<1>1. ASSUME NEW h \in Handlers, Start(h) \/ Step(h) PROVE IInv'
  BY <1>1, StartKeeps, StepKeeps
<1>2. CASE DeleteJob
  BY <1>2, StartDeleteJobKeeps, DeleteUserKeeps, ClearDueKeeps DEF DeleteJob
<1>3. ASSUME NEW h \in Tasks, RemoteFails(h) \/ TransactionFails(h) PROVE IInv'
  BY <1>3, RemoteFailsKeeps, TransactionFailsKeeps
<1>4. CASE Crash \/ (\E i \in InviteIds : Accept(i)) \/ (\E u \in Users : Drift(u)) \/ Tick
  BY <1>4, CrashKeeps, AcceptKeeps, DriftKeeps, TickKeeps
<1>5. CASE UNCHANGED vars
  BY <1>5, StutterKeeps
<1> QED BY <1>1, <1>2, <1>3, <1>4, <1>5 DEF Next

LEMMA InitIInv == ASSUME Init PROVE IInv
<1>1. PICK holder \in [AccountIds -> Users \cup {NoUser}] :
        /\ \A a, b \in AccountIds :
             /\ holder[a] = holder[b] /\ holder[a] # NoUser => a = b
             /\ a < b /\ holder[b] # NoUser => holder[a] # NoUser
        /\ account = [a \in AccountIds |->
                        IF holder[a] = NoUser THEN NoAccount
                        ELSE [NoAccount EXCEPT !.user = holder[a], !.status = "active"]]
        /\ google = [u \in Users |->
                       IF \E a \in AccountIds : holder[a] = u THEN "active" ELSE "absent"]
  BY DEF Init
<1>2. /\ invite = [i \in InviteIds |-> [user |-> NoUser, state |-> "none"]]
      /\ seat = [u \in Users |-> "none"] /\ task = [h \in Tasks |-> NoTask]
      /\ now = 0 /\ ops = 0 /\ fails = 0 /\ drift = 0 /\ calm = TRUE
  BY DEF Init
<1>3. ASSUME NEW a \in AccountIds
      PROVE  /\ account[a] \in Account /\ account[a].type = "workspace" /\ account[a].ext = Identity
             /\ account[a].status \in {"none", "active"}
             /\ There(a) <=> holder[a] # NoUser
             /\ There(a) => account[a].user = holder[a] /\ account[a].status = "active"
  <2>1. CASE holder[a] = NoUser
    <3>1. account[a] = NoAccount
      BY <1>1, <2>1
    <3> QED BY <2>1, <3>1 DEF NoAccount, Account, Identity, Never, There
  <2>2. CASE holder[a] # NoUser
    <3>1. account[a] = [NoAccount EXCEPT !.user = holder[a], !.status = "active"]
      BY <1>1, <2>2
    <3>2. holder[a] \in Users
      BY <1>1, <2>2
    <3>3. account[a] = [user |-> holder[a], type |-> "workspace", status |-> "active", ext |-> Identity,
                        changed |-> 0, due |-> Never]
      BY <3>1 DEF NoAccount
    <3> QED BY <2>2, <3>2, <3>3 DEF Account, There
  <2> QED BY <2>1, <2>2
<1>4. Types
  <2>1. account \in [AccountIds -> Account]
    BY <1>1, <1>3
  <2>2. google \in [Users -> {"absent", "active", "suspended"}]
    BY <1>1
  <2>3. invite \in [InviteIds -> Invitation] /\ seat \in [Users -> {"none", "org", "workspace"}]
    BY <1>2 DEF Invitation
  <2>4. task \in [Tasks -> Task] /\ \A h \in Tasks : Knows(task[h])
    BY <1>2, NoTaskTyped
  <2> QED BY <1>2, <2>1, <2>2, <2>3, <2>4 DEF Types, Typed
<1>5. \A u \in Users : \A a \in AccountIds : a \in Rows(u, "workspace") <=> holder[a] = u
  BY <1>3, AccountsAssumption DEF Rows, There
<1>6. Tables
  <2>1. RowsLinked /\ OneInvite /\ DueOK
    BY <1>1, <1>3 DEF RowsLinked, OneInvite, DueOK
  <2>2. OneRow
    <3> SUFFICES ASSUME NEW u \in Users, NEW a \in Rows(u, "workspace"), NEW b \in Rows(u, "workspace")
                 PROVE  a = b
      BY DEF OneRow
    <3>1. a \in AccountIds /\ b \in AccountIds /\ u # NoUser
      BY RowsAre, AccountsAssumption
    <3>2. holder[a] = u /\ holder[b] = u
      BY <1>5, <3>1
    <3> QED BY <1>1, <3>1, <3>2
  <2>3. \A u \in Users : Recorded(u)
    BY <1>2 DEF Recorded
  <2> QED BY <2>1, <2>2, <2>3 DEF Tables
<1>7. Alone /\ \A h \in Tasks : Good(task[h])
  BY <1>2, NoTaskTyped, IdleIsGood DEF Alone, Idle
<1>8. ASSUME NEW u \in Users PROVE Agrees(u)
  <2>1. google[u] = "active" <=> \E a \in AccountIds : holder[a] = u
    BY <1>1
  <2>2. Live(u, "workspace") # {} <=> \E a \in AccountIds : holder[a] = u
    BY <1>3, <1>5, RowsAre DEF Live, IsLive
  <2> QED BY <2>1, <2>2 DEF Agrees
<1>9. \A a \in AccountIds : Invited(a)
  BY <1>3 DEF Invited
<1> QED BY <1>4, <1>6, <1>7, <1>8, <1>9 DEF IInv, Calmly

LEMMA Always == Spec => []IInv
<1>1. Init => IInv
  BY InitIInv
<1>2. IInv /\ [Next]_vars => IInv'
  BY NextKeeps
<1> QED BY <1>1, <1>2, PTL DEF Spec

\* What the invariant says when nothing is under way.
LEMMA QuietIsSteady ==
  ASSUME IInv, calm, Quiet
  PROVE  Tables /\ (\A u \in Users : Agrees(u)) /\ \A a \in AccountIds : Invited(a)
BY DEF IInv, Calmly, Quiet, At, InHand, Writes

\* Only the job, or a hand at Google's console, deletes an account there.
LEMMA GoogleStays ==
  ASSUME IInv, [Next]_vars, NEW u \in Users, google[u] # "absent"
  PROVE  DeleteUser \/ (\E v \in Users : Drift(v)) \/ google'[u] # "absent"
<1>1. Typed
  BY DEF IInv, Types
<1>2. ASSUME NEW h \in Handlers, Start(h) PROVE google' = google
  BY <1>2 DEF Start, StartProvisionWorkspace, StartProvisionClaude, StartLifecycle, StartBulk,
              StartSyncWorkspace, StartSyncClaude, Begin, remote
<1>3. ASSUME NEW h \in Handlers, Step(h) PROVE google'[u] # "absent"
  <2>1. CASE CreateUser(h) \/ Reactivate(h) \/ CallGoogle(h)
    BY <1>1, <2>1 DEF CreateUser, Reactivate, CallGoogle, Typed
  <2>2. CASE StoreWorkspace(h) \/ InviteMember(h) \/ StoreClaude(h) \/ Open(h)
    BY <2>2 DEF StoreWorkspace, InviteMember, StoreClaude, Open, remote
  <2>3. CASE CallInvitation(h) \/ CallMember(h) \/ Reinvite(h) \/ Save(h)
    BY <2>3 DEF CallInvitation, CallMember, Reinvite, Save, remote
  <2>4. CASE ListUsers(h) \/ FindUnseen(h) \/ FlagUnseen(h) \/ Fetch(h) \/ LinkMember(h)
    BY <2>4 DEF ListUsers, FindUnseen, FlagUnseen, Fetch, LinkMember, remote
  <2>5. CASE FindAccepted(h) \/ RecordAccepted(h) \/ FindStale(h) \/ FlagStale(h)
    BY <2>5 DEF FindAccepted, RecordAccepted, FindStale, FlagStale, remote
  <2> QED BY <1>3, <2>1, <2>2, <2>3, <2>4, <2>5 DEF Step
<1>4. CASE StartDeleteJob \/ ClearDue
  BY <1>4 DEF StartDeleteJob, ClearDue, remote
<1>5. ASSUME NEW h \in Tasks, RemoteFails(h) \/ TransactionFails(h) PROVE google' = google
  BY <1>5 DEF RemoteFails, TransactionFails, remote
<1>6. CASE Crash \/ (\E i \in InviteIds : Accept(i)) \/ Tick \/ UNCHANGED vars
  BY <1>6 DEF Crash, Accept, Tick, vars, remote
<1> QED BY <1>2, <1>3, <1>4, <1>5, <1>6 DEF Next, DeleteJob

-----------------------------------------------------------------------------
(* Theorems *)

\* A task is alone until another begins, or something crashes or drifts.
LEMMA SoloTyped == ASSUME solo \subseteq Tasks, [Next]_vars PROVE solo' \subseteq Tasks
<1>1. ASSUME NEW h \in Handlers, Start(h) PROVE solo' \in {{h}, {}}
  BY <1>1 DEF Start, StartProvisionWorkspace, StartProvisionClaude, StartLifecycle, StartBulk,
              StartSyncWorkspace, StartSyncClaude, Begin
<1>2. ASSUME NEW h \in Handlers, Step(h) PROVE solo' = solo
  BY <1>2 DEF Step, CreateUser, Reactivate, StoreWorkspace, InviteMember, StoreClaude, Open, CallGoogle,
              CallInvitation, CallMember, Reinvite, Save, ListUsers, FindUnseen,
              FlagUnseen, Fetch, LinkMember, FindAccepted, RecordAccepted, FindStale, FlagStale
<1>3. CASE DeleteJob
  BY <1>3 DEF DeleteJob, StartDeleteJob, DeleteUser, ClearDue, Tasks
<1>4. ASSUME NEW h \in Tasks, RemoteFails(h) \/ TransactionFails(h) PROVE solo' = solo
  BY <1>4 DEF RemoteFails, TransactionFails
<1>5. CASE Crash \/ (\E i \in InviteIds : Accept(i)) \/ (\E u \in Users : Drift(u)) \/ Tick
  BY <1>5 DEF Crash, Accept, Drift, Tick
<1>6. CASE UNCHANGED vars
  BY <1>6 DEF vars
<1> QED BY <1>1, <1>2, <1>3, <1>4, <1>5, <1>6 DEF Next, Tasks

\* Types are correct, whatever overlaps, fails or drifts.
THEOREM TypeCorrect == Spec => []TypeOK
<1>1. IInv /\ solo \subseteq Tasks => TypeOK
  BY TypesAre DEF IInv, Types
<1>2. Init => solo \subseteq Tasks
  BY DEF Init
<1>3. solo \subseteq Tasks /\ [Next]_vars => (solo \subseteq Tasks)'
  BY SoloTyped
<1> QED BY <1>1, <1>2, <1>3, Always, PTL DEF Spec

\* A student's Google account can be used exactly when a row of theirs says so,
\* and nobody has two rows: whatever the requests, the job and the
\* synchronisations did one after another, and whichever remote calls failed
\* cleanly.
THEOREM RowsAndGoogleAgree == Spec => []WorkspaceAgrees
<1>1. ASSUME IInv PROVE WorkspaceAgrees
  <2> SUFFICES ASSUME calm, Quiet, NEW u \in Users
               PROVE  /\ (google[u] = "active") <=> (Live(u, "workspace") # {})
                      /\ Cardinality(Rows(u, "workspace")) <= 1
    BY DEF WorkspaceAgrees
  <2>1. Tables /\ Agrees(u)
    BY <1>1, QuietIsSteady
  <2>2. Cardinality(Rows(u, "workspace")) <= 1
    <3>1. CASE Rows(u, "workspace") = {}
      BY <3>1, FS_EmptySet
    <3>2. CASE Rows(u, "workspace") # {}
      <4>1. PICK a \in Rows(u, "workspace") : TRUE
        BY <3>2
      <4>2. Rows(u, "workspace") = {a}
        BY <2>1, <4>1 DEF Tables, OneRow
      <4>3. Cardinality({a}) = 1
        BY FS_Singleton
      <4> QED BY <4>2, <4>3
    <3> QED BY <3>1, <3>2
  <2> QED BY <2>1, <2>2 DEF Agrees
<1>2. IInv => WorkspaceAgrees
  BY <1>1
<1> QED BY <1>2, Always, PTL

\* A member of the Students workspace is one of whom an active row says so: the
\* suspension or removal of a seat, and what a synchronisation flags as stale,
\* is never on record only.
THEOREM SeatsAreOnRecord == Spec => []SeatOnRecord
<1>1. IInv => SeatOnRecord
  BY QuietIsSteady DEF SeatOnRecord, Tables, Recorded
<1> QED BY <1>1, Always, PTL

\* A pending row names an invitation that can still be, or has been, accepted,
\* and no other row names it: what is cancelled is replaced before the row is
\* written.
THEOREM PendingAreInvited == Spec => []PendingIsInvited
<1>1. ASSUME IInv PROVE PendingIsInvited
  <2> SUFFICES ASSUME calm, Quiet, NEW a \in AccountIds, account[a].status = "pending"
               PROVE  /\ account[a].ext # Identity /\ invite[account[a].ext].state \in {"open", "accepted"}
                      /\ \A b \in AccountIds \ {a} :
                           account[b].status # "none" => account[b].ext # account[a].ext
    BY DEF PendingIsInvited
  <2>1. OneInvite /\ Invited(a)
    BY <1>1, QuietIsSteady DEF Tables
  <2> QED BY <2>1 DEF Invited, OneInvite, There
<1>2. IInv => PendingIsInvited
  BY <1>1
<1> QED BY <1>2, Always, PTL

\* While no two tasks overlapped and nothing was lost or changed by hand, nobody's
\* Google account is deleted before the retention period after its removal is over:
\* what the job read when it began is still so when it comes to the row.
THEOREM NobodyDeletedEarly == Spec => DeletedAfterGrace
<1> DEFINE Grace == \A u \in Users :
      calm /\ google[u] # "absent" /\ google'[u] = "absent" /\ drift' = drift =>
        \A a \in Rows(u, "workspace") :
          account[a].status = "removed" /\ account[a].changed + Delay <= now
<1>1. ASSUME IInv, [Next]_vars PROVE Grace
  <2> SUFFICES ASSUME NEW u \in Users, calm, google[u] # "absent", google'[u] = "absent", drift' = drift,
                      NEW a \in Rows(u, "workspace")
               PROVE  account[a].status = "removed" /\ account[a].changed + Delay <= now
    OBVIOUS
  <2>1. Typed /\ a \in AccountIds /\ account[a].type = "workspace"
    BY <1>1, RowsAre DEF IInv, Types
  <2>2. CASE DeleteUser
    <3> PICK b, c : b = task[Scheduler] /\ c = Row(Scheduler)
      OBVIOUS
    <3>1. /\ b.pc = "delete" /\ Scheduler \in Tasks
          /\ google' = google \/ google' = [google EXCEPT ![account[c].user] = "absent"]
      BY <2>2 DEF DeleteUser, At, Tasks
    <3>2. account[c].user = u
      BY <2>1, <3>1 DEF Typed
    <3>3. Steady(b)
      BY <1>1, <3>1, BusyAlone, IsSteady DEF Idle
    <3>4. /\ account[c].status = "removed" /\ account[c].due # Never /\ account[c].due <= now
          /\ c \in Rows(u, "workspace")
      BY <1>1, <3>1, <3>2, <3>3, JobTaken
    <3>5. c = a
      BY <3>3, <3>4 DEF Steady, Tables, OneRow
    <3>6. account[a].due = account[a].changed + Delay
      BY <2>1, <3>3, <3>4, <3>5 DEF Steady, Tables, DueOK
    <3> QED BY <3>4, <3>5, <3>6
  <2>3. CASE \E v \in Users : Drift(v)
    BY <2>1, <2>3 DEF Drift, Typed
  <2>4. CASE google'[u] # "absent"
    BY <2>4
  <2>5. DeleteUser \/ (\E v \in Users : Drift(v)) \/ google'[u] # "absent"
    BY <1>1, GoogleStays
  <2> QED BY <2>2, <2>3, <2>4, <2>5
<1>2. IInv /\ [Next]_vars => [Grace]_vars
  BY <1>1
<1> QED BY <1>2, Always, PTL DEF Spec, DeletedAfterGrace

-----------------------------------------------------------------------------
(* What a sync repairs that is alone *)

\* What the Anthropic listing of task t showed of row a.
Shown(t, a) == IF account[a].ext = Identity THEN account[a].user \in t.seen
                                            ELSE account[a].ext \in t.listed

\* A live Workspace row; a Claude row that pass 3 looks at.
Claims(a) == account[a].type = "workspace" /\ IsLive(a)
Seated(a) == account[a].type = "claude" /\ account[a].status \notin {"none", "removed"}

\* What task t, alone since it began, has listed is still there, and it has still to
\* visit every row that claims what it did not list.
Heard(t) ==
  /\ t.pc = "find" => \A u \in t.seen : google[u] = "active"
  /\ t.pc = "flag" =>
       \A a \in AccountIds : Claims(a) => google[account[a].user] = "active" \/ a \in t.todo
  /\ t.pc \in {"link", "accept", "findStale", "stale"} =>
       /\ \A u \in t.seen : seat[u] # "none"
       /\ \A i \in t.listed : invite[i].state \in {"open", "accepted"}
  /\ t.pc = "stale" => \A a \in AccountIds : Seated(a) => Shown(t, a) \/ a \in t.todo

SoloInv ==
  \A h \in Handlers : solo = {h} => (\A g \in Tasks : g # h => Idle(g)) /\ Heard(task[h])

Listening == {"find", "flag", "link", "accept", "findStale", "stale"}

\* The other tasks stay as they are.
LEMMA OthersIdle ==
  ASSUME Types, NEW h \in Tasks, NEW t, Set(h, t), \A g \in Tasks : g # h => Idle(g)
  PROVE  task'[h] = t /\ \A g \in Tasks : g # h => Idle(g)'
BY DEF Types, Set, Idle

\* How a loop goes on, or is over.
LEMMA AdvanceStep ==
  ASSUME Types, NEW h \in Tasks, NEW next, Advance(h, next)
  PROVE  /\ Set(h, task'[h])
         /\ \/ task'[h] = NoTask /\ task[h].todo = {Row(h)}
            \/ task'[h] = [task[h] EXCEPT !.pc = next, !.todo = task[h].todo \ {Row(h)}]
BY DEF Types, Advance, Set, End

\* A statement that is not one of a sync's ends outside the loops of one.
LEMMA DeafStep ==
  ASSUME Types, NEW h \in Handlers,
         \/ CreateUser(h) \/ Reactivate(h) \/ StoreWorkspace(h) \/ InviteMember(h) \/ StoreClaude(h)
         \/ Open(h) \/ CallGoogle(h) \/ CallInvitation(h) \/ CallMember(h) \/ Reinvite(h) \/ Save(h)
         \/ RemoteFails(h) \/ TransactionFails(h)
  PROVE  Set(h, task'[h]) /\ task'[h].pc \notin Listening
<1>1. task \in [Tasks -> Task] /\ h \in Tasks /\ NoTask.pc = "idle"
  BY NoTaskTyped DEF Types, Tasks
<1> DEFINE Leaves(t) == Set(h, t) /\ t.pc \notin Listening
<1>2. ASSUME NEW t, Leaves(t) PROVE Set(h, task'[h]) /\ task'[h].pc \notin Listening
  BY <1>1, <1>2 DEF Set
<1>3. ASSUME End(h) PROVE \E t : Leaves(t)
  BY <1>1, <1>3 DEF End, Listening
<1>4. ASSUME NEW pc \in {"storeWorkspace", "call", "save", "reinvite"}, Go(h, pc) PROVE \E t : Leaves(t)
  <2>1. [task[h] EXCEPT !.pc = pc].pc = pc
    BY <1>1 DEF Task
  <2> QED BY <1>4, <2>1 DEF Go, Listening
<1>5. ASSUME NEW pc \in {"open", "delete"}, Advance(h, pc) PROVE \E t : Leaves(t)
  <2>1. [task[h] EXCEPT !.pc = pc, !.todo = task[h].todo \ {Row(h)}].pc = pc
    BY <1>1 DEF Task
  <2> QED BY <1>1, <1>5, <2>1 DEF Advance, End, Listening
<1>6. ASSUME NEW u, NEW pc \in {"storeClaude", "save"}, Send(h, u, pc) PROVE \E t : Leaves(t)
  <2>1. \A i \in InviteIds : [task[h] EXCEPT !.pc = pc, !.ext = i].pc = pc
    BY <1>1 DEF Task
  <2> QED BY <1>6, <2>1 DEF Send, Listening
<1>7. \E t : Leaves(t)
  <2>1. CASE CreateUser(h) \/ Reactivate(h) \/ StoreWorkspace(h) \/ InviteMember(h) \/ StoreClaude(h)
    BY <1>3, <1>4, <1>6, <2>1 DEF CreateUser, Reactivate, StoreWorkspace, InviteMember, StoreClaude
  <2>2. CASE Open(h) \/ CallGoogle(h) \/ CallInvitation(h) \/ CallMember(h) \/ Reinvite(h) \/ Save(h)
    BY <1>4, <1>5, <1>6, <2>2 DEF Open, CallGoogle, CallInvitation, CallMember, Reinvite, Save
  <2>3. CASE RemoteFails(h)
    BY <1>3, <1>4, <1>5, <2>3 DEF RemoteFails
  <2>4. CASE TransactionFails(h)
    BY <1>3, <1>5, <2>4 DEF TransactionFails
  <2> QED BY <2>1, <2>2, <2>3, <2>4
<1> QED BY <1>2, <1>7

\* A request begins with a read of its own, or before the sync's listing.
LEMMA StartIsDeaf ==
  ASSUME Types, NEW h \in Handlers, Start(h)
  PROVE  At(h, "idle") /\ Set(h, task'[h]) /\ task'[h].pc \notin Listening
         /\ solo' = IF Quiet THEN {h} ELSE {}
<1>1. task \in [Tasks -> Task] /\ h \in Tasks
  BY DEF Types, Tasks
<1>2. ASSUME NEW op, NEW t, t.pc \notin Listening, Begin(h, op, t)
      PROVE  /\ At(h, "idle") /\ Set(h, task'[h]) /\ task'[h].pc \notin Listening
             /\ solo' = IF Quiet THEN {h} ELSE {}
  BY <1>1, <1>2 DEF Begin, Set
<1>3. /\ \A u : [NoTask EXCEPT !.pc = "create", !.user = u].pc = "create"
      /\ \A u, a : [NoTask EXCEPT !.pc = "reactivate", !.user = u, !.row = a].pc = "reactivate"
      /\ \A u : [NoTask EXCEPT !.pc = "invite", !.user = u].pc = "invite"
      /\ \A act, s : [NoTask EXCEPT !.pc = "open", !.act = act, !.todo = s].pc = "open"
      /\ [NoTask EXCEPT !.pc = "list"].pc = "list" /\ [NoTask EXCEPT !.pc = "fetch"].pc = "fetch"
  BY DEF NoTask
<1>4. ASSUME NEW u \in Users, StartProvisionWorkspace(h, u) \/ StartProvisionClaude(h, u)
      PROVE  \E op, t : t.pc \notin Listening /\ Begin(h, op, t)
  <2>1. CASE StartProvisionWorkspace(h, u)
    <3>1. CASE Rows(u, "workspace") = {}
      BY <1>3, <2>1, <3>1 DEF StartProvisionWorkspace, Listening
    <3>2. CASE Rows(u, "workspace") # {}
      <4>1. PICK a : Begin(h, "provisionWorkspace", [NoTask EXCEPT !.pc = "reactivate", !.user = u, !.row = a])
        BY <2>1, <3>2 DEF StartProvisionWorkspace
      <4> QED BY <1>3, <4>1 DEF Listening
    <3> QED BY <3>1, <3>2
  <2>2. CASE StartProvisionClaude(h, u)
    BY <1>3, <2>2 DEF StartProvisionClaude, Listening
  <2> QED BY <1>4, <2>1, <2>2
<1>5. ASSUME NEW act, NEW s,
             (\E a : s = {a} /\ StartLifecycle(h, a, act)) \/ (\E us : s = Eligible(us, act) /\ StartBulk(h, us, act))
      PROVE  \E op, t : t.pc \notin Listening /\ Begin(h, op, t)
  <2> DEFINE t == [NoTask EXCEPT !.pc = "open", !.act = act, !.todo = s]
  <2>1. Begin(h, act, t) \/ Begin(h, "bulk", t)
    BY <1>5 DEF StartLifecycle, StartBulk
  <2>2. t.pc = "open"
    BY <1>3
  <2> HIDE DEF t
  <2> QED BY <2>1, <2>2 DEF Listening
<1>6. CASE StartSyncWorkspace(h) \/ StartSyncClaude(h)
  BY <1>2, <1>3, <1>6 DEF StartSyncWorkspace, StartSyncClaude, Listening
<1>7. CASE \/ \E a \in AccountIds, act \in {"suspend", "unsuspend", "remove"} : StartLifecycle(h, a, act)
           \/ \E us \in SUBSET Users, act \in {"suspend", "remove"} : StartBulk(h, us, act)
  BY <1>2, <1>5, <1>7
<1> QED BY <1>2, <1>4, <1>6, <1>7 DEF Start

\* Only the job is at a step of the job.
LEMMA JobIsBusy == ASSUME DeleteUser \/ ClearDue PROVE ~Idle(Scheduler)
BY DEF DeleteUser, ClearDue, At, Idle

\* Only who is under way takes a step, or fails; and whoever was alone still is.
LEMMA StepIsBusy == ASSUME NEW h, Step(h) \/ RemoteFails(h) \/ TransactionFails(h) PROVE ~Idle(h)
BY DEF Step, CreateUser, Reactivate, StoreWorkspace, InviteMember, StoreClaude, Open, CallGoogle,
       CallInvitation, CallMember, Reinvite, Save, ListUsers, FindUnseen, FlagUnseen, Fetch, LinkMember,
       FindAccepted, RecordAccepted, FindStale, FlagStale, RemoteFails, TransactionFails, At, Idle

LEMMA StepKeepsSolo ==
  ASSUME NEW h, Step(h) \/ RemoteFails(h) \/ TransactionFails(h) PROVE solo' = solo
BY DEF Step, CreateUser, Reactivate, StoreWorkspace, InviteMember, StoreClaude, Open, CallGoogle,
       CallInvitation, CallMember, Reinvite, Save, ListUsers, FindUnseen, FlagUnseen, Fetch, LinkMember,
       FindAccepted, RecordAccepted, FindStale, FlagStale, RemoteFails, TransactionFails

Syncs(h) == \/ ListUsers(h) \/ FindUnseen(h) \/ FlagUnseen(h) \/ Fetch(h) \/ LinkMember(h)
            \/ FindAccepted(h) \/ RecordAccepted(h) \/ FindStale(h) \/ FlagStale(h)

\* A sync's statement writes its task only.
LEMMA SyncSets == ASSUME Types, NEW h \in Handlers, Syncs(h) PROVE Set(h, task'[h])
<1>1. task \in [Tasks -> Task] /\ h \in Tasks
  BY DEF Types, Tasks
<1>2. ASSUME NEW t, Set(h, t) PROVE Set(h, task'[h])
  BY <1>1, <1>2 DEF Set
<1>3. ASSUME NEW next, Advance(h, next) PROVE Set(h, task'[h])
  BY <1>1, <1>3, AdvanceStep
<1>4. CASE ListUsers(h) \/ FindUnseen(h) \/ Fetch(h) \/ FindAccepted(h) \/ FindStale(h)
  BY <1>2, <1>4 DEF ListUsers, FindUnseen, Fetch, FindAccepted, FindStale, End
<1>5. CASE FlagUnseen(h) \/ LinkMember(h) \/ RecordAccepted(h) \/ FlagStale(h)
  BY <1>2, <1>3, <1>5 DEF FlagUnseen, LinkMember, RecordAccepted, FlagStale
<1> QED BY <1>4, <1>5 DEF Syncs

\* The listing and the first look at the rows.
LEMMA ListingHears ==
  ASSUME Types, NEW h \in Handlers, Heard(task[h]),
         ListUsers(h) \/ FindUnseen(h) \/ Fetch(h) \/ FindAccepted(h) \/ FindStale(h)
  PROVE  Heard(task[h])'
<1> PICK b : b = task[h]
  OBVIOUS
<1>1. task \in [Tasks -> Task] /\ h \in Tasks /\ b \in Task /\ NoTask.pc = "idle"
  BY NoTaskTyped DEF Types, Tasks
<1>2. UNCHANGED <<account, google, invite, seat>>
  BY DEF ListUsers, FindUnseen, Fetch, FindAccepted, FindStale, remote
<1>3. CASE ListUsers(h)
  <2>1. task'[h] = [b EXCEPT !.pc = "find", !.seen = {u \in Users : google[u] = "active"}]
    BY <1>1, <1>3 DEF ListUsers, Set
  <2>2. task'[h].pc = "find" /\ task'[h].seen = {u \in Users : google[u] = "active"}
    BY <1>1, <2>1 DEF Task
  <2> QED BY <1>2, <2>2 DEF Heard
<1>4. CASE FindUnseen(h)
  <2> DEFINE T == {a \in AccountIds : /\ account[a].type = "workspace" /\ IsLive(a)
                                      /\ account[a].user \notin b.seen}
  <2>1. \A u \in b.seen : google[u] = "active"
    BY <1>4 DEF FindUnseen, At, Heard
  <2>2. CASE task'[h] = NoTask
    BY <1>1, <2>2 DEF Listening, Heard
  <2>3. CASE task'[h] = [b EXCEPT !.pc = "flag", !.todo = T]
    <3>1. task'[h].pc = "flag" /\ task'[h].todo = T
      BY <1>1, <2>3 DEF Task
    <3>2. \A a \in AccountIds : Claims(a) => google[account[a].user] = "active" \/ a \in T
      BY <2>1 DEF Claims
    <3> QED BY <1>2, <3>1, <3>2 DEF Heard, Claims, IsLive
  <2> QED BY <1>1, <1>4, <2>2, <2>3 DEF FindUnseen, Set, End
<1>5. CASE Fetch(h)
  <2>1. /\ task'[h].pc = "link" /\ task'[h].seen = {u \in Users : seat[u] # "none"}
        /\ task'[h].listed = {i \in InviteIds : invite[i].state \in {"open", "accepted"}}
    BY <1>1, <1>5 DEF Fetch, Set, Task
  <2> QED BY <1>2, <2>1 DEF Heard
<1>6. CASE FindAccepted(h)
  <2>1. /\ task'[h].pc \in {"findStale", "accept"}
        /\ task'[h].seen = b.seen /\ task'[h].listed = b.listed
    BY <1>1, <1>6 DEF FindAccepted, Set, Task
  <2>2. b.pc = "link"
    BY <1>6 DEF FindAccepted, At
  <2> QED BY <1>2, <2>1, <2>2 DEF Heard
<1>7. CASE FindStale(h)
  <2> DEFINE shown(a) == IF account[a].ext = Identity THEN account[a].user \in b.seen
                                                     ELSE account[a].ext \in b.listed
             T == {a \in AccountIds : /\ account[a].type = "claude"
                                      /\ account[a].status \notin {"none", "removed"}
                                      /\ ~shown(a)}
  <2>1. CASE task'[h] = NoTask
    BY <1>1, <2>1 DEF Listening, Heard
  <2>2. CASE task'[h] = [b EXCEPT !.pc = "stale", !.todo = T]
    <3>1. /\ task'[h].pc = "stale" /\ task'[h].todo = T
          /\ task'[h].seen = b.seen /\ task'[h].listed = b.listed
      BY <1>1, <2>2 DEF Task
    <3>2. \A a \in AccountIds : Seated(a) => Shown(b, a) \/ a \in T
      BY DEF Seated, Shown
    <3>3. b.pc = "findStale"
      BY <1>7 DEF FindStale, At
    <3> HIDE DEF T
    <3> QED BY <1>2, <3>1, <3>2, <3>3 DEF Heard, Shown, Seated
  <2> QED BY <1>1, <1>7, <2>1, <2>2 DEF FindStale, Set, End
<1> QED BY <1>3, <1>4, <1>5, <1>6, <1>7

\* A row that a loop flags claims nothing any more; it has still to visit the others.
LEMMA FlagHears ==
  ASSUME Types, NEW h \in Handlers, Heard(task[h]), FlagUnseen(h) \/ FlagStale(h)
  PROVE  Heard(task[h])'
<1> PICK b, a : b = task[h] /\ a = Row(h)
  OBVIOUS
<1>1. /\ task \in [Tasks -> Task] /\ h \in Tasks /\ b \in Task /\ NoTask.pc = "idle"
      /\ account \in [AccountIds -> Account]
  BY NoTaskTyped DEF Types, Tasks, Typed
<1>2. UNCHANGED <<google, invite, seat>> /\ SetStatus(a, "removed")
  BY DEF FlagUnseen, FlagStale, remote
<1>3. ASSUME NEW c \in AccountIds
      PROVE  /\ account'[c].type = account[c].type /\ account'[c].user = account[c].user
             /\ account'[c].ext = account[c].ext
             /\ account'[c].status = IF c = a THEN "removed" ELSE account[c].status
  BY <1>1, <1>2 DEF SetStatus, Account
<1>4. CASE FlagUnseen(h)
  <2>1. b.pc = "flag" /\ Advance(h, "flag")
    BY <1>4 DEF FlagUnseen, At
  <2>2. ASSUME NEW c \in AccountIds, Claims(c)' PROVE google'[account'[c].user] = "active" \/ c \in b.todo \ {a}
    <3>1. c # a /\ Claims(c)
      BY <1>3, <2>2 DEF Claims, IsLive
    <3> QED BY <1>2, <1>3, <2>1, <3>1 DEF Heard
  <2>3. CASE task'[h] = NoTask
    BY <1>1, <2>3 DEF Heard
  <2>4. CASE task'[h] = [b EXCEPT !.pc = "flag", !.todo = b.todo \ {a}]
    <3>1. task'[h].pc = "flag" /\ task'[h].todo = b.todo \ {a}
      BY <1>1, <2>4 DEF Task
    <3> QED BY <2>2, <3>1 DEF Heard
  <2> QED BY <1>1, <2>1, <2>3, <2>4, AdvanceStep
<1>5. CASE FlagStale(h)
  <2>1. b.pc = "stale" /\ Advance(h, "stale")
    BY <1>5 DEF FlagStale, At
  <2>2. ASSUME NEW c \in AccountIds, Seated(c)'
        PROVE  \/ IF account'[c].ext = Identity THEN account'[c].user \in b.seen
                                                 ELSE account'[c].ext \in b.listed
               \/ c \in b.todo \ {a}
    <3>1. c # a /\ Seated(c)
      BY <1>3, <2>2 DEF Seated
    <3> QED BY <1>3, <2>1, <3>1 DEF Heard, Shown
  <2>3. CASE task'[h] = NoTask
    BY <1>1, <2>3 DEF Heard
  <2>4. CASE task'[h] = [b EXCEPT !.pc = "stale", !.todo = b.todo \ {a}]
    <3>1. /\ task'[h].pc = "stale" /\ task'[h].todo = b.todo \ {a}
          /\ task'[h].seen = b.seen /\ task'[h].listed = b.listed
      BY <1>1, <2>4 DEF Task
    <3> QED BY <1>2, <2>1, <2>2, <3>1 DEF Heard, Shown
  <2> QED BY <1>1, <2>1, <2>3, <2>4, AdvanceStep
<1> QED BY <1>4, <1>5

\* Linking and recording keep what was listed.
LEMMA RecordHears ==
  ASSUME Types, NEW h \in Handlers, Heard(task[h]), LinkMember(h) \/ RecordAccepted(h)
  PROVE  Heard(task[h])'
<1> PICK b : b = task[h]
  OBVIOUS
<1>1. /\ task \in [Tasks -> Task] /\ h \in Tasks /\ b \in Task /\ NoTask.pc = "idle"
      /\ seat \in [Users -> {"none", "org", "workspace"}]
  BY NoTaskTyped DEF Types, Tasks, Typed
<1>2. UNCHANGED <<google, invite>> /\ b.pc \in {"link", "accept"}
  BY DEF LinkMember, RecordAccepted, remote, At
<1>3. \A u \in b.seen : seat'[u] # "none"
  <2>1. \A u \in b.seen : u \in Users /\ seat[u] # "none"
    BY <1>1, <1>2 DEF Heard, Task
  <2>2. CASE UNCHANGED seat
    BY <2>1, <2>2
  <2>3. CASE \E u : seat' = [seat EXCEPT ![u] = IF @ = "org" THEN "workspace" ELSE @]
    BY <1>1, <2>1, <2>3
  <2> QED BY <2>2, <2>3 DEF LinkMember, RecordAccepted, remote
<1>4. \/ task'[h] = NoTask
      \/ /\ task'[h].pc \in {"link", "accept", "findStale"}
         /\ task'[h].seen = b.seen /\ task'[h].listed = b.listed
  <2>1. CASE LinkMember(h)
    <3>1. PICK u : task'[h] = [b EXCEPT !.people = @ \ {u}]
      BY <1>1, <2>1 DEF LinkMember, Set
    <3> QED BY <1>1, <1>2, <3>1 DEF Task
  <2>2. CASE RecordAccepted(h)
    <3>1. CASE task'[h] = [b EXCEPT !.pc = "findStale", !.todo = {}]
      BY <1>1, <3>1 DEF Task
    <3>2. CASE task'[h] = [b EXCEPT !.pc = "accept", !.todo = b.todo \ {Row(h)}]
      BY <1>1, <3>2 DEF Task
    <3> QED BY <1>1, <2>2, <3>1, <3>2, AdvanceStep DEF RecordAccepted, Set
  <2> QED BY <2>1, <2>2
<1>5. CASE task'[h] = NoTask
  BY <1>1, <1>5 DEF Heard
<1>6. CASE /\ task'[h].pc \in {"link", "accept", "findStale"}
           /\ task'[h].seen = b.seen /\ task'[h].listed = b.listed
  BY <1>2, <1>3, <1>6 DEF Heard
<1> QED BY <1>4, <1>5, <1>6

LEMMA SoloKeeps == ASSUME Types, SoloInv, [Next]_vars PROVE SoloInv'
<1> SUFFICES ASSUME NEW h \in Handlers, solo' = {h}
             PROVE  (\A g \in Tasks : g # h => Idle(g))' /\ Heard(task[h])'
  BY DEF SoloInv
<1>1. /\ h \in Tasks /\ h # Scheduler /\ Scheduler \in Tasks /\ Handlers \subseteq Tasks
      /\ task \in [Tasks -> Task]
  BY AccountsAssumption DEF Tasks, Types
<1> DEFINE Alone1 == solo = {h} /\ (\A g \in Tasks : g # h => Idle(g)) /\ Heard(task[h])
<1>2. solo = {h} => Alone1
  BY DEF SoloInv
<1>3. ASSUME NEW g \in Handlers, Start(g) PROVE (\A k \in Tasks : k # h => Idle(k))' /\ Heard(task[h])'
  <2>1. g = h /\ Quiet
    BY <1>3, StartIsDeaf
  <2>2. Set(h, task'[h]) /\ task'[h].pc \notin Listening
    BY <1>3, <2>1, StartIsDeaf
  <2>3. \A k \in Tasks : Idle(k)
    BY <2>1 DEF Quiet, At, Idle
  <2> QED BY <1>1, <2>2, <2>3, OthersIdle DEF Heard, Listening
<1>4. ASSUME NEW g \in Tasks, Step(g) \/ RemoteFails(g) \/ TransactionFails(g)
      PROVE  (\A k \in Tasks : k # h => Idle(k))' /\ Heard(task[h])'
  <2>1. Alone1 /\ g = h
    BY <1>2, <1>4, StepIsBusy, StepKeepsSolo
  <2>2. CASE Syncs(h)
    <3>1. Heard(task[h])'
      BY <2>1, <2>2, ListingHears, FlagHears, RecordHears DEF Syncs
    <3>2. Set(h, task'[h])
      BY <2>2, SyncSets
    <3> QED BY <1>1, <2>1, <3>1, <3>2, OthersIdle
  <2>3. CASE ~Syncs(h)
    <3>1. Set(h, task'[h]) /\ task'[h].pc \notin Listening
      BY <1>4, <2>1, <2>3, DeafStep DEF Step, Syncs
    <3> QED BY <1>1, <2>1, <3>1, OthersIdle DEF Heard, Listening
  <2> QED BY <2>2, <2>3
<1>5. CASE DeleteJob
  <2>1. CASE StartDeleteJob
    BY <1>1, <2>1 DEF StartDeleteJob
  <2>2. CASE DeleteUser \/ ClearDue
    BY <1>1, <1>2, <2>2, JobIsBusy DEF DeleteUser, ClearDue
  <2> QED BY <1>5, <2>1, <2>2 DEF DeleteJob
<1>6. CASE Crash \/ \E u \in Users : Drift(u)
  BY <1>6 DEF Crash, Drift
<1>7. ASSUME NEW i \in InviteIds, Accept(i) PROVE (\A k \in Tasks : k # h => Idle(k))' /\ Heard(task[h])'
  <2>1. Alone1 /\ UNCHANGED <<account, google, task>>
    BY <1>2, <1>7 DEF Accept
  <2>2. invite \in [InviteIds -> Invitation] /\ seat \in [Users -> {"none", "org", "workspace"}]
    BY DEF Types, Typed
  <2>3. \A k \in InviteIds : invite[k].state \in {"open", "accepted"} => invite'[k].state \in {"open", "accepted"}
    BY <1>7, <2>2 DEF Accept, Invitation
  <2>4. \A u \in Users : seat[u] # "none" => seat'[u] # "none"
    BY <1>7, <2>2 DEF Accept
  <2>5. task[h].seen \subseteq Users /\ task[h].listed \subseteq InviteIds
    BY <1>1 DEF Task
  <2>6. Heard(task[h])'
    BY <2>1, <2>3, <2>4, <2>5 DEF Heard, Claims, IsLive, Seated, Shown
  <2> QED BY <2>1, <2>6 DEF Idle
<1>8. CASE Tick \/ UNCHANGED vars
  <2>1. Alone1 /\ UNCHANGED <<account, google, invite, seat, task>>
    BY <1>2, <1>8 DEF Tick, vars, remote
  <2> QED BY <2>1 DEF Heard, Claims, IsLive, Seated, Shown, Idle
<1> QED BY <1>1, <1>3, <1>4, <1>5, <1>6, <1>7, <1>8 DEF Next

\* How a sync that is in its last loop comes to its end.
LEMMA SyncEnds ==
  ASSUME Types, [Next]_vars, NEW h \in Handlers, task[h].pc \in {"find", "flag", "findStale", "stale"},
         task'[h].pc = "idle", fails' = fails
  PROVE  FindUnseen(h) \/ FlagUnseen(h) \/ FindStale(h) \/ FlagStale(h)
<1>1. /\ h \in Tasks /\ h # Scheduler /\ task \in [Tasks -> Task] /\ fails \in Nat
      /\ Handlers \subseteq Tasks /\ Scheduler \in Tasks
  BY AccountsAssumption DEF Tasks, Types, Typed
<1>2. ASSUME NEW g \in Tasks, g # h, Set(g, task'[g]) PROVE FALSE
  BY <1>1, <1>2 DEF Set
<1>3. ASSUME NEW g \in Handlers, Start(g) PROVE FALSE
  BY <1>1, <1>2, <1>3, StartIsDeaf DEF At
<1>4. ASSUME NEW g \in Handlers, Step(g)
      PROVE  FindUnseen(h) \/ FlagUnseen(h) \/ FindStale(h) \/ FlagStale(h)
  <2>1. g = h
    <3>1. Set(g, task'[g])
      BY <1>4, SyncSets, DeafStep DEF Step, Syncs
    <3> QED BY <1>1, <1>2, <3>1
  <2> QED BY <1>4, <2>1 DEF Step, CreateUser, Reactivate, StoreWorkspace, InviteMember, StoreClaude, Open,
          CallGoogle, CallInvitation, CallMember, Reinvite, Save, ListUsers, Fetch, LinkMember,
          FindAccepted, RecordAccepted, At
<1>5. CASE DeleteJob
  <2>1. PICK t : Set(Scheduler, t)
    BY <1>5 DEF DeleteJob, StartDeleteJob, DeleteUser, ClearDue, Go, Advance, End
  <2> QED BY <1>1, <2>1 DEF Set
<1>6. ASSUME NEW g \in Tasks, RemoteFails(g) \/ TransactionFails(g) PROVE FALSE
  BY <1>1, <1>6 DEF RemoteFails, TransactionFails
<1>7. CASE Crash
  BY <1>1, <1>7 DEF Crash
<1>8. CASE (\E i \in InviteIds : Accept(i)) \/ (\E u \in Users : Drift(u)) \/ Tick \/ UNCHANGED vars
  BY <1>8 DEF Accept, Drift, Tick, vars
<1> QED BY <1>3, <1>4, <1>5, <1>6, <1>7, <1>8 DEF Next

\* In every interleaving, after any crash, failure or change by hand: a sync that runs
\* to its end alone leaves no live row without a Google account that can be used, and
\* no Claude row without a seat or an invitation that can be, or has been, accepted.
THEOREM SyncsRepair == Spec => SyncRepairs
<1> DEFINE Repaired == \A h \in Handlers : solo = {h} /\ task'[h].pc = "idle" /\ fails' = fails =>
       /\ At(h, "find") \/ At(h, "flag") =>
            \A u \in Users : (Live(u, "workspace") # {})' => google'[u] = "active"
       /\ At(h, "findStale") \/ At(h, "stale") =>
            \A a \in AccountIds :
              account'[a].type = "claude" /\ account'[a].status \notin {"none", "removed"} =>
                IF account'[a].ext = Identity
                  THEN seat'[account'[a].user] # "none"
                  ELSE invite'[account'[a].ext].state \in {"open", "accepted"}
<1>1. ASSUME IInv, SoloInv, [Next]_vars PROVE Repaired
  <2> SUFFICES ASSUME NEW h \in Handlers, solo = {h}, task'[h].pc = "idle", fails' = fails,
                      task[h].pc \in {"find", "flag", "findStale", "stale"}
               PROVE  /\ At(h, "find") \/ At(h, "flag") =>
                            \A a \in AccountIds : Claims(a)' => google'[account'[a].user] = "active"
                      /\ At(h, "findStale") \/ At(h, "stale") =>
                            \A a \in AccountIds : Seated(a)' =>
                              IF account'[a].ext = Identity
                                THEN seat'[account'[a].user] # "none"
                                ELSE invite'[account'[a].ext].state \in {"open", "accepted"}
    BY DEF At, Live, Rows, Claims, IsLive, Seated
  <2> PICK b, r : b = task[h] /\ r = Row(h)
    OBVIOUS
  <2>1. /\ Types /\ Heard(b) /\ h \in Tasks /\ task \in [Tasks -> Task] /\ b \in Task
        /\ account \in [AccountIds -> Account]
    BY <1>1 DEF IInv, SoloInv, Tasks, Types, Typed
  <2>2. FindUnseen(h) \/ FlagUnseen(h) \/ FindStale(h) \/ FlagStale(h)
    BY <1>1, <2>1, SyncEnds
  <2>3. UNCHANGED <<google, invite, seat>>
    BY <2>2 DEF FindUnseen, FlagUnseen, FindStale, FlagStale, remote
  <2>4. CASE FindUnseen(h)
    <3> DEFINE T == {a \in AccountIds : /\ account[a].type = "workspace" /\ IsLive(a)
                                        /\ account[a].user \notin b.seen}
    <3>1. T = {}
      <4>1. [b EXCEPT !.pc = "flag", !.todo = T].pc # "idle"
        BY <2>1 DEF Task
      <4> QED BY <2>1, <2>4, <4>1 DEF FindUnseen, Set
    <3>2. b.pc = "find" /\ UNCHANGED account
      BY <2>4 DEF FindUnseen, At
    <3>3. \A a \in AccountIds : Claims(a) => account[a].user \in b.seen
      BY <3>1 DEF Claims
    <3> QED BY <2>1, <2>3, <3>2, <3>3 DEF Heard, Claims, IsLive, At
  <2>5. CASE FindStale(h)
    <3> DEFINE shown(a) == IF account[a].ext = Identity THEN account[a].user \in b.seen
                                                       ELSE account[a].ext \in b.listed
               T == {a \in AccountIds : /\ account[a].type = "claude"
                                        /\ account[a].status \notin {"none", "removed"}
                                        /\ ~shown(a)}
    <3>1. T = {}
      <4>1. [b EXCEPT !.pc = "stale", !.todo = T].pc # "idle"
        BY <2>1 DEF Task
      <4> QED BY <2>1, <2>5, <4>1 DEF FindStale, Set
    <3>2. b.pc = "findStale" /\ UNCHANGED account
      BY <2>5 DEF FindStale, At
    <3>3. \A a \in AccountIds : Seated(a) => shown(a)
      BY <3>1 DEF Seated
    <3> QED BY <2>1, <2>3, <3>2, <3>3 DEF Heard, Seated, At
  <2>6. CASE FlagUnseen(h) \/ FlagStale(h)
    <3>1. /\ SetStatus(r, "removed") /\ b.pc \in {"flag", "stale"} /\ (FlagUnseen(h) <=> b.pc = "flag")
          /\ Advance(h, b.pc)
      BY <2>6 DEF FlagUnseen, FlagStale, At
    <3>2. b.todo = {r}
      <4>1. [b EXCEPT !.pc = b.pc, !.todo = b.todo \ {r}].pc # "idle"
        BY <2>1, <3>1 DEF Task
      <4> QED BY <2>1, <3>1, <4>1, AdvanceStep
    <3>3. ASSUME NEW a \in AccountIds
          PROVE  /\ account'[a].type = account[a].type /\ account'[a].user = account[a].user
                 /\ account'[a].ext = account[a].ext
                 /\ account'[a].status = IF a = r THEN "removed" ELSE account[a].status
      BY <2>1, <3>1 DEF SetStatus, Account
    <3>4. CASE b.pc = "flag"
      <4> SUFFICES ASSUME NEW a \in AccountIds, Claims(a)' PROVE google'[account'[a].user] = "active"
        BY <3>4 DEF At
      <4>1. Claims(a) /\ a \notin b.todo
        BY <3>2, <3>3 DEF Claims, IsLive
      <4> QED BY <2>1, <2>3, <3>3, <3>4, <4>1 DEF Heard
    <3>5. CASE b.pc = "stale"
      <4> SUFFICES ASSUME NEW a \in AccountIds, Seated(a)'
                   PROVE  IF account'[a].ext = Identity
                            THEN seat'[account'[a].user] # "none"
                            ELSE invite'[account'[a].ext].state \in {"open", "accepted"}
        BY <3>5 DEF At
      <4>1. Shown(b, a)
        BY <2>1, <3>2, <3>3, <3>5 DEF Seated, Heard
      <4> QED BY <2>1, <2>3, <3>3, <3>5, <4>1 DEF Heard, Shown
    <3> QED BY <3>1, <3>4, <3>5
  <2> QED BY <2>2, <2>4, <2>5, <2>6
<1>2. IInv /\ SoloInv /\ [Next]_vars => [Repaired]_vars
  BY <1>1
<1>3. Init => SoloInv
  BY DEF Init, SoloInv
<1>4. IInv /\ SoloInv /\ [Next]_vars => SoloInv'
  BY SoloKeeps DEF IInv
<1> QED BY <1>2, <1>3, <1>4, Always, PTL DEF Spec, SyncRepairs
=============================================================================
