-------------------------- MODULE LlmProxyAccess --------------------------
(***************************************************************************)
(* Who may use the LLM proxy: the life of the tokens and of the flag       *)
(* User.allows_llm_proxy, which the code means to keep in lockstep.        *)
(* LlmProxyTokenService.grant / revoke / ensureActive and the startup's    *)
(* reconcileAccessFlags, with the handlers that call them: the admin's     *)
(* grant, revoke, bulk and permission routes, the laptops' fleet endpoint, *)
(* account merges and deactivation.                                        *)
(*                                                                         *)
(* A handler is a record in job: pc names the statement it executes next.  *)
(* Handlers interleave at every await; a $transaction is one step          *)
(* (production is one process on SQLite, whose writers are serialised).    *)
(***************************************************************************)
EXTENDS LlmProxyTokens

CONSTANTS
  Handlers,      \* handlers that can be under way at the same time
  Ops,           \* the operations they execute
  EligibleUsers, \* users the fleet endpoint serves without the flag: laptop
                 \* accounts and admins
  Ttls,          \* validity an admin may choose for a grant
  AutoTtl,       \* LLM_PROXY_AUTO_GRANT_TTL_MS
  DefaultBudget, \* LLM_PROXY_DEFAULT_BUDGET_USD
  TokenLimit,    \* LLM_PROXY_DEFAULT_TOKEN_LIMIT
  LegacyTokens,  \* rows from before plaintexts were stored
  MaxOps,        \* bound: operations begun
  MaxCrashes,    \* bound: crashes
  MaxFails       \* bound: statements that fail

AllOps == {"grant", "revoke", "bulkGrant", "bulkRevoke", "issue", "rotate",
           "permit", "deactivate", "merge"}

ASSUME AccessAssumption ==
  /\ Ops \subseteq AllOps
  /\ EligibleUsers \subseteq Users
  /\ Ttls \subseteq Nat \ {0}
  /\ AutoTtl \in Nat \ {0}
  /\ DefaultBudget \in Budgets
  /\ TokenLimit \in Nat
  /\ LegacyTokens \subseteq TokenIds
  /\ MaxOps \in Nat /\ MaxCrashes \in Nat /\ MaxFails \in Nat

VARIABLES
  flag,    \* flag[u]: User.allows_llm_proxy
  active,  \* active[u]: User.is_active
  decided, \* pairs whose MergeSuggestion is approved
  up,      \* the server: "down", "starting" or "serving"
  job,     \* the handlers
  ops,     \* operations begun
  crashes, \* crashes so far
  fails    \* statements that failed so far

vars == <<tok, now, flag, active, decided, up, job, ops, crashes, fails>>

\* What the statements of a handler leave alone, and what its beginning does.
world  == <<now, active, decided, up, ops, crashes, fails>>
tables == <<tok, now, flag, active, decided, up, crashes, fails>>

Points == {"idle", "grant", "mint", "revoke", "drop", "rotate", "ensure", "setFlag",
           "permit", "bulkGrant", "bulkRevoke", "allowed", "live"}

\* user:  whom the current grant or revoke is for
\* ttl:   validity of the token to mint
\* token: the row the last find returned
\* then:  where to go on after a grant or a revoke
\* todo:  the users a loop has still to visit
\* was:   the flag as it was read, and to: what it is to be
\* Auxiliary: old, the tokens that were active when a rotation began, and
\* since, when the reconciliation began.
NoJob == [pc |-> "idle", user |-> NoUser, ttl |-> 0, token |-> NoToken, then |-> "idle",
          todo |-> {}, was |-> FALSE, to |-> FALSE, old |-> {}, since |-> 0]

----------------------------------------------------------------------------
(* Steps of a handler *)

At(h, pc) == job[h].pc = pc

Set(h, j) == job' = [job EXCEPT ![h] = j]

End(h) == Set(h, NoJob)

\* A grant or a revoke is over: the handler goes on with what comes next.
Return(h) ==
  IF job[h].then = "idle"
    THEN End(h)
    ELSE Set(h, [job[h] EXCEPT !.pc = job[h].then, !.then = "idle"])

\* A grant or a revoke throws: the bulk loops catch it, elsewhere it ends the
\* handler.
Throw(h) ==
  IF job[h].then \in {"bulkGrant", "bulkRevoke"} THEN Return(h) ELSE End(h)

----------------------------------------------------------------------------
(* LlmProxyTokenService *)

\* Mutant: the check is left out.
GrantUnchecked(h) ==
  /\ At(h, "grant")
  /\ Set(h, [job[h] EXCEPT !.pc = "mint"])
  /\ UNCHANGED <<tok, flag, world>>

\* grant: the check for an active token, outside the transaction.
GrantCheck(h) ==
  /\ At(h, "grant")
  /\ IF FindActiveForUser(job[h].user) # NoToken
       THEN Throw(h)
       ELSE Set(h, [job[h] EXCEPT !.pc = "mint"])
  /\ UNCHANGED <<tok, flag, world>>

NewRow(u, ttl) ==
  [user |-> u, expires |-> now + ttl, revoked |-> FALSE, plain |-> TRUE,
   budget |-> DefaultBudget, spent |-> 0, total |-> 0, used |-> 0,
   limit |-> TokenLimit, period |-> UtcMonthStart(now)]

\* Mutant: the transaction forgets the flag.
GrantMintOnly(h) ==
  /\ At(h, "mint")
  /\ FreeIds # {}
  /\ Create(NewRow(job[h].user, job[h].ttl))
  /\ Return(h)
  /\ UNCHANGED <<flag, world>>

\* grant: the transaction.
GrantMint(h) ==
  /\ At(h, "mint")
  /\ FreeIds # {}
  /\ Create(NewRow(job[h].user, job[h].ttl))
  /\ flag' = [flag EXCEPT ![job[h].user] = TRUE]
  /\ Return(h)
  /\ UNCHANGED world

\* Mutant: the lookup's result is not checked.
RevokeUnchecked(h) ==
  /\ At(h, "revoke")
  /\ Set(h, [job[h] EXCEPT !.pc = "drop", !.token = FindActiveForUser(job[h].user)])
  /\ UNCHANGED <<tok, flag, world>>

\* revoke: the lookup, outside the transaction.
RevokeFind(h) ==
  LET t == FindActiveForUser(job[h].user)
  IN  /\ At(h, "revoke")
      /\ IF t = NoToken
           THEN Throw(h)
           ELSE Set(h, [job[h] EXCEPT !.pc = "drop", !.token = t])
      /\ UNCHANGED <<tok, flag, world>>

\* revoke: the transaction.
RevokeDrop(h) ==
  /\ At(h, "drop")
  /\ SetRevokedAt(job[h].token)
  /\ flag' = [flag EXCEPT ![job[h].user] = FALSE]
  /\ Return(h)
  /\ UNCHANGED world

\* ensureActive: a token without a stored plaintext is replaced.
EnsureFind(h) ==
  LET t == FindActiveForUser(job[h].user)
  IN  /\ At(h, "ensure")
      /\ \/ /\ t # NoToken /\ tok[t].plain
            /\ Set(h, [job[h] EXCEPT !.pc = "setFlag", !.token = t])
         \/ /\ t # NoToken /\ ~tok[t].plain
            /\ Set(h, [job[h] EXCEPT !.pc = "revoke", !.then = "grant"])
         \/ /\ t = NoToken
            /\ Set(h, [job[h] EXCEPT !.pc = "grant"])
      /\ UNCHANGED <<tok, flag, world>>

\* ensureActive: the flag follows the token that was found.
EnsureFlag(h) ==
  /\ At(h, "setFlag")
  /\ flag' = [flag EXCEPT ![job[h].user] = TRUE]
  /\ End(h)
  /\ UNCHANGED <<tok, world>>

----------------------------------------------------------------------------
(* The routes *)

\* A request of h for operation op begins as j.
Begin(h, op, j) ==
  /\ op \in Ops
  /\ up = "serving"
  /\ At(h, "idle")
  /\ ops < MaxOps
  /\ ops' = ops + 1
  /\ Set(h, j)

\* POST /admin/users/:id/llm-proxy-token, and an approval that grants.
BeginGrant(h, u, ttl) ==
  /\ Begin(h, "grant", [NoJob EXCEPT !.pc = "grant", !.user = u, !.ttl = ttl])
  /\ UNCHANGED tables

\* DELETE /admin/users/:id/llm-proxy-token.
BeginRevoke(h, u) ==
  /\ Begin(h, "revoke", [NoJob EXCEPT !.pc = "revoke", !.user = u])
  /\ UNCHANGED tables

\* POST /fleet/llm-token: authenticate and mayHoldToken, on the user as read.
MayHoldToken(u) == active[u] /\ (flag[u] \/ u \in EligibleUsers)

BeginIssue(h, u) ==
  /\ MayHoldToken(u)
  /\ Begin(h, "issue", [NoJob EXCEPT !.pc = "ensure", !.user = u, !.ttl = AutoTtl])
  /\ UNCHANGED tables

\* POST /fleet/llm-token/rotate.
BeginRotate(h, u) ==
  /\ MayHoldToken(u)
  /\ Begin(h, "rotate", [NoJob EXCEPT !.pc = "rotate", !.user = u, !.ttl = AutoTtl,
                                      !.old = ActiveTokens(u)])
  /\ UNCHANGED tables

\* Mutant: the current token stays.
RotateKeeps(h) ==
  /\ At(h, "rotate")
  /\ Set(h, [job[h] EXCEPT !.pc = "ensure"])
  /\ UNCHANGED <<tok, flag, world>>

\* rotate: the current token, if there is one, is revoked first.
RotateFind(h) ==
  /\ At(h, "rotate")
  /\ IF FindActiveForUser(job[h].user) # NoToken
       THEN Set(h, [job[h] EXCEPT !.pc = "revoke", !.then = "ensure"])
       ELSE Set(h, [job[h] EXCEPT !.pc = "ensure"])
  /\ UNCHANGED <<tok, flag, world>>

\* PATCH /admin/users/:id/permissions: setPermissions reads the user.
BeginPermit(h, u, v) ==
  /\ Begin(h, "permit", [NoJob EXCEPT !.pc = "permit", !.user = u, !.ttl = AutoTtl,
                                      !.was = flag[u], !.to = v])
  /\ UNCHANGED tables

\* setPermissions' transaction; a flip grants or revokes, which nobody waits
\* for.
Permit(h) ==
  /\ At(h, "permit")
  /\ flag' = [flag EXCEPT ![job[h].user] = job[h].to]
  /\ CASE ~job[h].was /\ job[h].to -> Set(h, [job[h] EXCEPT !.pc = "grant"])
       [] job[h].was /\ ~job[h].to -> Set(h, [job[h] EXCEPT !.pc = "revoke"])
       [] OTHER -> End(h)
  /\ UNCHANGED <<tok, world>>

\* POST /admin/groups/:id/llm-proxy/bulk-grant and bulk-revoke: the members.
BeginBulk(h, op, members, ttl) ==
  /\ op \in {"bulkGrant", "bulkRevoke"}
  /\ \A u \in members : active[u]
  /\ Begin(h, op, [NoJob EXCEPT !.pc = op, !.ttl = ttl, !.todo = members])
  /\ UNCHANGED tables

\* The loop's check of member u: one who has a token is not granted another,
\* one who has none is not revoked.
BulkNext(h, u) ==
  LET holds == FindActiveForUser(u) # NoToken
      next(call) == IF holds <=> (call = "revoke")
                      THEN Set(h, [job[h] EXCEPT !.pc = call, !.user = u, !.then = job[h].pc,
                                                 !.todo = @ \ {u}])
                      ELSE Set(h, [job[h] EXCEPT !.todo = @ \ {u}])
  IN  /\ u \in job[h].todo
      /\ \/ At(h, "bulkGrant") /\ next("grant")
         \/ At(h, "bulkRevoke") /\ next("revoke")
      /\ UNCHANGED <<tok, flag, world>>

BulkDone(h) ==
  /\ At(h, "bulkGrant") \/ At(h, "bulkRevoke")
  /\ job[h].todo = {}
  /\ End(h)
  /\ UNCHANGED <<tok, flag, world>>

----------------------------------------------------------------------------
(* Accounts *)

\* DELETE /admin/users/:id, deny-approval, and the Workspace sync for an
\* account Google no longer has: the token and the flag stay as they are.
Deactivate(h, u) ==
  /\ active[u]
  /\ Begin(h, "deactivate", NoJob)
  /\ active' = [active EXCEPT ![u] = FALSE]
  /\ UNCHANGED <<tok, now, flag, decided, up, crashes, fails>>

\* Mutant: the rows change hands and nothing is revoked.
MergeTokensAsTheyAre(s, n) ==
  tok' = [t \in TokenIds |-> [tok[t] EXCEPT !.user = IF @ = n THEN s ELSE @]]

\* The merge's tokens: the survivor's active token absorbs n's, which is
\* revoked; without one it takes n's.  All rows of n are the survivor's then.
MergeTokens(s, n) ==
  LET st == FindActiveForUser(s)
      nt == FindActiveForUser(n)
      both == st # NoToken /\ nt # NoToken
  IN  tok' = [t \in TokenIds |->
        [tok[t] EXCEPT !.user = IF @ = n THEN s ELSE @,
                       !.revoked = @ \/ (both /\ t = nt),
                       !.used = IF both /\ t = st THEN @ + tok[nt].used ELSE @]]

\* MergeSuggestionService.approve, one transaction (its other tables are not
\* of this module).
Merge(h, s, n) ==
  /\ s # n
  /\ {s, n} \notin decided
  /\ Begin(h, "merge", NoJob)
  /\ MergeTokens(s, n)
  /\ flag' = [flag EXCEPT ![s] = @ \/ flag[n]]
  /\ active' = [active EXCEPT ![n] = FALSE]
  /\ decided' = decided \cup {{s, n}}
  /\ UNCHANGED <<now, up, crashes, fails>>

----------------------------------------------------------------------------
(* Startup: reconcileAccessFlags, before the server listens *)

Boot(h) ==
  /\ up = "down"
  /\ up' = "starting"
  /\ Set(h, [NoJob EXCEPT !.pc = "allowed", !.todo = {u \in Users : flag[u]}, !.ttl = AutoTtl,
                          !.since = now])
  /\ UNCHANGED <<tok, now, flag, active, decided, ops, crashes, fails>>

\* Mutant: a token that has expired counts.
AllowedNextAnyToken(h, u) ==
  /\ At(h, "allowed")
  /\ u \in job[h].todo
  /\ IF \A t \in TokenIds : tok[t].user = u => tok[t].revoked
       THEN Set(h, [job[h] EXCEPT !.pc = "grant", !.user = u, !.then = "allowed", !.todo = @ \ {u}])
       ELSE Set(h, [job[h] EXCEPT !.todo = @ \ {u}])
  /\ UNCHANGED <<tok, flag, world>>

\* An allowed user without an active token is granted one.
AllowedNext(h, u) ==
  /\ At(h, "allowed")
  /\ u \in job[h].todo
  /\ IF FindActiveForUser(u) = NoToken
       THEN Set(h, [job[h] EXCEPT !.pc = "grant", !.user = u, !.then = "allowed", !.todo = @ \ {u}])
       ELSE Set(h, [job[h] EXCEPT !.todo = @ \ {u}])
  /\ UNCHANGED <<tok, flag, world>>

\* The users with an active token, as one query finds them.
AllowedDone(h) ==
  /\ At(h, "allowed")
  /\ job[h].todo = {}
  /\ Set(h, [job[h] EXCEPT !.pc = "live", !.todo = {u \in Users : ActiveTokens(u) # {}}])
  /\ UNCHANGED <<tok, flag, world>>

LiveNext(h, u) ==
  /\ At(h, "live")
  /\ u \in job[h].todo
  /\ flag' = [flag EXCEPT ![u] = TRUE]
  /\ Set(h, [job[h] EXCEPT !.todo = @ \ {u}])
  /\ UNCHANGED <<tok, world>>

\* The server listens.
LiveDone(h) ==
  /\ At(h, "live")
  /\ job[h].todo = {}
  /\ up' = "serving"
  /\ End(h)
  /\ UNCHANGED <<tok, flag, now, active, decided, ops, crashes, fails>>

\* The database rejects h's next statement: a transaction does nothing, and the
\* exception ends the handler, or what a bulk loop did for one member.  The
\* startup goes on without having reconciled: the server listens.
Fails(h) ==
  /\ ~At(h, "idle")
  /\ fails < MaxFails
  /\ fails' = fails + 1
  /\ Throw(h)
  /\ up' = IF up = "starting" THEN "serving" ELSE up
  /\ UNCHANGED <<tok, flag, now, active, decided, ops, crashes>>

\* The process dies, and with it everything that was under way.
Crash ==
  /\ up # "down"
  /\ crashes < MaxCrashes
  /\ up' = "down"
  /\ job' = [h \in Handlers |-> NoJob]
  /\ crashes' = crashes + 1
  /\ UNCHANGED <<tok, now, flag, active, decided, ops, fails>>

Tick ==
  /\ now < MaxNow
  /\ now' = now + 1
  /\ UNCHANGED <<tok, flag, active, decided, up, job, ops, crashes, fails>>

----------------------------------------------------------------------------

LegacyRow(u, e) ==
  [user |-> u, expires |-> e, revoked |-> FALSE, plain |-> FALSE, budget |-> DefaultBudget,
   spent |-> 0, total |-> 0, used |-> 0, limit |-> TokenLimit, period |-> 0]

\* Before the first start the flags may say anything: the roster import sets
\* them without a token, and older tokens were granted without the flag.
Init ==
  /\ tok \in [TokenIds -> {EmptyRow} \cup {LegacyRow(u, e) : u \in Users, e \in Ttls}]
  /\ \A t \in TokenIds : Exists(t) <=> t \in LegacyTokens
  /\ \A s, t \in LegacyTokens : s # t => tok[s].user # tok[t].user
  /\ now = 0
  /\ flag \in [Users -> BOOLEAN]
  /\ active = [u \in Users |-> TRUE]
  /\ decided = {}
  /\ up = "down"
  /\ job = [h \in Handlers |-> NoJob]
  /\ ops = 0
  /\ crashes = 0
  /\ fails = 0

\* The steps of a handler that has begun.
JobStep(h) ==
  \/ GrantCheck(h)
  \/ GrantMint(h)
  \/ RevokeFind(h)
  \/ RevokeDrop(h)
  \/ EnsureFind(h)
  \/ EnsureFlag(h)
  \/ RotateFind(h)
  \/ Permit(h)
  \/ \E u \in Users : BulkNext(h, u)
  \/ BulkDone(h)
  \/ \E u \in Users : AllowedNext(h, u)
  \/ AllowedDone(h)
  \/ \E u \in Users : LiveNext(h, u)
  \/ LiveDone(h)

Request(h) ==
  \/ \E u \in Users, ttl \in Ttls : BeginGrant(h, u, ttl)
  \/ \E u \in Users : BeginRevoke(h, u)
  \/ \E u \in Users : BeginIssue(h, u)
  \/ \E u \in Users : BeginRotate(h, u)
  \/ \E u \in Users, v \in BOOLEAN : BeginPermit(h, u, v)
  \/ \E op \in {"bulkGrant", "bulkRevoke"}, m \in SUBSET Users, ttl \in Ttls : BeginBulk(h, op, m, ttl)
  \/ \E u \in Users : Deactivate(h, u)
  \/ \E s, n \in Users : Merge(h, s, n)

Next ==
  \/ \E h \in Handlers : Boot(h)
  \/ \E h \in Handlers : Request(h)
  \/ \E h \in Handlers : JobStep(h)
  \/ \E h \in Handlers : Fails(h)
  \/ Crash
  \/ Tick

Spec == Init /\ [][Next]_vars

----------------------------------------------------------------------------
(* Properties *)

Job == [pc : Points, user : Users \cup {NoUser}, ttl : Nat, token : TokenIds \cup {NoToken},
        then : {"idle", "grant", "ensure", "bulkGrant", "bulkRevoke", "allowed"},
        todo : SUBSET Users, was : BOOLEAN, to : BOOLEAN,
        old : SUBSET TokenIds, since : Nat]

\* Points at which the handler has a user to act on.
Acting == {"grant", "mint", "revoke", "drop", "rotate", "ensure", "setFlag", "permit"}

JobOK(j) ==
  /\ j \in Job
  /\ j.pc \in Acting => j.user \in Users
  /\ j.pc = "drop" => j.token \in TokenIds

TypeOK ==
  /\ TokOK
  /\ now \in Instants
  /\ flag \in [Users -> BOOLEAN]
  /\ active \in [Users -> BOOLEAN]
  /\ decided \subseteq SUBSET Users
  /\ up \in {"down", "starting", "serving"}
  /\ job \in [Handlers -> Job]
  /\ \A h \in Handlers : JobOK(job[h])
  /\ ops \in Nat /\ crashes \in Nat /\ fails \in Nat

\* The repository's comment on findActiveForUser: by construction there is at
\* most one active token per user.
AtMostOneActive ==
  \A u \in Users : \A s, t \in ActiveTokens(u) : s = t

\* What makes it inductive when handlers do not overlap: a grant about to mint
\* is for a user without an active token.
MintsForTokenless ==
  \A h \in Handlers : At(h, "mint") => ActiveTokens(job[h].user) = {}

\* What is left of it when handlers overlap: a user never has more active
\* tokens than handlers can be under way at once (accounts are not merged).
ActiveTokensBounded ==
  \A u \in Users : Cardinality(ActiveTokens(u)) <= Cardinality(Handlers)

\* The flag is kept in lockstep with the tokens: once the server listens and
\* nothing is under way, no user has a token that the group view denies.
FlagFollowsToken ==
  (up = "serving" /\ \A h \in Handlers : At(h, "idle")) =>
    \A u \in Users : ActiveTokens(u) # {} => flag[u]

\* Startup converges the flags with the tokens so that the two can never
\* disagree: when the server begins to listen, every allowed user has a token
\* that was good when the startup began, and every user with a token is allowed.
ReconcileConverges ==
  [][\A h \in Handlers : LiveDone(h) =>
       \A u \in Users :
         /\ flag[u] => \E t \in TokenIds : tok[t].user = u /\ Active(tok[t], job[h].since)
         /\ ActiveTokens(u) # {} => flag[u]]_vars

\* A laptop that rotates its token gets one that no machine had before, and
\* what the user had is no longer accepted.
RotateReplaces ==
  [][\A h \in Handlers :
       EnsureFlag(h) \/ (GrantMint(h) /\ job[h].then = "idle") =>
         \A t \in job[h].old : ~Active(tok'[t], now')]_vars
=============================================================================
