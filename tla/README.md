# Specifications of student-accounts

TLA+ models of the student-accounts server, the TLC runs that check them and the
TLAPS proofs about them. `PROJECT.json` lists the components, the runs, the
definition-to-source map, the hazards and the theorems; this file says how they
fit together.

The server (`src/server/src`) is one Node process with one SQLite database
(`src/server/prisma/schema.prisma:6`, `src/docs/deploy.md:55`). Everything
concurrent in it is handlers of that process (HTTP requests, jobs, work nobody
waits for) that interleave at every `await`, and the remote systems they call.
That decides the grain of every model here:

- one Prisma statement is one step; a `$transaction` is one step too, because
  SQLite serialises its writers and the process is alone;
- what a handler read before an `await` may be stale after it, so it is kept in
  the handler's record and used from there;
- a crash loses every handler and keeps every row.

## 1. Inventory

| Component | State | Operations | Interacts with | Hard behaviour | What makes it correct |
|---|---|---|---|---|---|
| LLM proxy tokens, budgets, metering (`llm-proxy-token.service`, its repository, `llmProxyTokenAuth`) | `LlmProxyToken` rows: expiry, revocation, budget, spend of the period, totals | validate, assertUsable with the lazy monthly roll, recordUsage, setBudget, backfill, summaries | forwarder reports usage; admin routes; access | checks and charges of concurrent calls; a month that begins meanwhile; recording that fails | spend is erased by a new month only; the budget is overshot by a known amount at most; nobody pays for last month |
| LLM proxy forwarder (`llm-proxy-forwarder.service`, `routes/llm-proxy`) | none | one upstream call, JSON or streamed | calls `onUsage` | success, upstream error, broken stream, hang-up, unreadable body | every call ends and reports at most once |
| Request log and its prune job | `LlmProxyRequest` rows | append, delete the old ones | metering, scheduler | deleting what a report still needs | the spend on display is backed by the log |
| LLM proxy access (`grant`, `revoke`, `ensureActive`, `reconcileAccessFlags`; bulk service; fleet endpoint; permissions) | active tokens, `User.allows_llm_proxy` | grant, revoke, issue, rotate, bulk, permission flip, startup reconciliation | merge, deactivation, approval | checks outside the transaction; handlers nobody waits for; crash in between | one active token per user; flag and token agree; a rotation replaces |
| OAuth provider (`services/oauth`, `routes/oauth*`) | clients, codes, consents, access tokens, chains of refresh tokens | mint and consume a code, consent, issue, rotate, revoke the chain, disable and delete clients | merge re-points the rows | validation outside the transaction that acts; replay detection racing rotation; burnt codes | a code yields at most one set of tokens; a replay leaves no live token in the chain |
| External accounts (`workspace-provisioning`, `claude-provisioning`, `external-account-lifecycle`, bulk and deprovision routes, `workspace-delete` job) | `ExternalAccount` rows; users at Google; invitations and seats at Anthropic | provision, suspend, unsuspend, remove, hard-delete after a delay; the syncs that flag, link and drop | merge moves the rows, scheduler | a remote call that succeeds before a transaction that fails; lists read once and used for long; changes at the other end | row and remote account agree unless something got lost; nobody is deleted before the date; what is due is deleted |
| Sign-in, linking, unlinking, sign-up, user syncs, merge scan, merge suggestions, approval (`services/auth`, `login.service`, `merge-suggestion.service`, `workspace-sync`, `pike13-sync`) | `User`, `Login`, `MergeSuggestion`, `approval_status` | find or create, re-enter, promote, link, scan after the response, approve, deny, delete, merge, import, deactivate | tokens, OAuth, external accounts, laptops | two first sign-ins of one person; a user denied or merged between read and write; scan against merge; syncs that stop half way | who was removed stays out; a user merged away holds nothing; a sign-in repairs what a crash left; a merge is decided once |
| Laptop accounts and roster (`services/laptop`, push job) | `User.username`, the laptop hash, the dirty flag; objects in a bucket | change credentials, reconcile, lock, push, import | sign-up, removal, merge, scheduler | read, compare and write of a remote object; two reconciles of one user; a mark that is not set | an entry follows its row or the user is marked; names are not taken over; a push repairs |
| Scheduler | `ScheduledJob` rows | tick, run now | all jobs | a handler longer than the interval | overlapping runs of a job do no harm |
| Attempt limiter | counts per key and window | check, record, clear | fleet endpoint, password login | check before an awaited verification, count after it | attempts are capped |
| Groups, cohorts, passphrases (`group.service`, `cohort.service`, `passphrase.service`, `passphrase-login`, `passphrase-signup`) | `Group`, `Cohort` with their passphrases, `UserGroup`, `User.cohort_id`; OUs at Google | create, rename, delete, add and remove members, issue and revoke a passphrase, sync cohorts and students, sign up and log in with a passphrase | sync, merge and deletion move members; sign-in, external accounts | look-ups by text in two tables before the write; members and rows that change between the statements of a login; an OU made before its row | a valid passphrase opens one scope; a member is let in |
| Sessions and impersonation | rows of the session store | log in, log out, impersonate | every request reads the user's row again | - | who was deactivated is refused |
| Audit, change bus, mail, logging, configuration, backups, MCP server, web client | - | record, announce, show | - | - | they decide nothing in the other components |

The hazards that follow from the fifth column are listed line by line in
`PROJECT.json`, with the properties that cover them; the ones no property covers
carry a note that says why.

## 2. Plan

Ordered by what the service can least afford to get wrong: money and access first,
then who gets in, then what exists elsewhere.

1. **LLM proxy core**: `SpendMeter`, `LlmProxyTokens`, `LlmProxyMetering`,
   `LlmProxyAccess`.
2. **OAuthGrants**: the OAuth provider, but for the clients themselves.
3. **SignIn**: who is a user, with which logins; approval; merges as decisions.
4. **ExternalAccounts**: the rows against Google and Anthropic.
5. **LaptopRoster**: the rows against the bucket, and the hourly job.
6. **Enrolment**: who belongs to which group and cohort, and the passphrases.

All six are written, checked and proved about. Left, in this order:

- *Composition.* `LlmProxyAccess` with `LlmProxyMetering` over one token table (both
  extend `LlmProxyTokens` for that reason), for what a rotation or a merge does to
  the month's spend of a user; `SignIn` with `LaptopRoster`, so that the users who
  are (de)activated without a reconcile (`untold`) come from their real causes.
- *OAuth clients*: their creation with its cap per user
  (`oauth-client.service.ts:155`), and the validation of access tokens.
- *Attempt limiter*: a bound on the attempts that pass while verifications are
  under way.

Recursion stays out of the modules; chains are functions, so that everything can be
proved about.

## 3. Modules

    SpendMeter  <--implements--  LlmProxyMetering --extends--> LlmProxyTokens
                                 LlmProxyAccess   --extends--> LlmProxyTokens
    OAuthGrants      SignIn      ExternalAccounts      LaptopRoster      Enrolment

| Module | Models |
|---|---|
| `LlmProxyTokens` | The `LlmProxyToken` table and the clock; one operator per repository statement, one per query. Not a specification of its own. |
| `SpendMeter` | What a budget promises: a call takes hold of a meter below its cap and is charged or dropped; a new period; a raised cap. |
| `LlmProxyMetering` | A call from bearer token to accounting, statement by statement; budget changes, revocation, backfill, prune job. |
| `LlmProxyAccess` | Every handler that grants or takes away access, statement by statement; merges, deactivation, startup, failing statements, crashes. |
| `OAuthGrants` | A request to the OAuth provider from consent to code, tokens and rotation, statement by statement; replay and the walk along the chain; clients that change meanwhile. |
| `SignIn` | Users, logins and merge suggestions under every request that creates, admits, joins or removes a user, statement by statement; the scan in the background. |
| `ExternalAccounts` | A student's Google account and Claude seat against their rows: provisioning, lifecycle, bulk operations, delete job, syncs; failing calls and transactions, changes by hand. |
| `LaptopRoster` | Roster entries against the users they are written from: credential changes, removal, merge, pushes, hourly job, import; failing calls, crashes. |
| `Enrolment` | Groups, cohorts, memberships and passphrases under every request that changes or reads them, statement by statement; failing statements, crashes. |
| `MC...` | The symmetry sets of the TLC instances. |
| `..._proofs` | Theorems. |

**LlmProxyMetering.** `req[r]` is a call: `pc` names the statement it executes
next, `snap` is the row as the handler last read it. `Lookup` is `validate`'s
`findByHash`; `CheckUsable` is `assertUsable` up to its first `await`; `Roll` and
`Reread` are the two statements of `rollPeriod`; `CheckBudget` is the rest.
`UpstreamAnswers`, `FetchFails`, `FetchAborted`, `BodyReadFails` are the ways
out of `forward`; `RecordUsage` and `RecordFails` the transaction nobody waits
for. `adm[a]` is a `setBudget`, which reads before its transaction. `log[t][d]`
is the cost of the `LlmProxyRequest` rows stamped `d`. `cap` is history: the
largest budget a token has had in its period. `BodyReadFails` ends the process:
`pipeJson` awaits `text()` without a catch, Express 4 does not handle a rejected
handler and the repository installs no `unhandledRejection` listener.

**LlmProxyAccess.** `job[h]` is a handler: `pc` its next statement, `then` where
a grant or a revoke returns to (bulk loop, reconciliation, rotation), `todo` the
users a loop has still to visit. A request begins with `Begin...`, which is the
route and its reads; the steps are `GrantCheck` and `GrantMint` (check outside
the transaction, then the transaction), `RevokeFind` and `RevokeDrop`,
`EnsureFind` and `EnsureFlag`, `RotateFind`, `Permit`, `BulkNext`. `Boot`,
`AllowedNext`, `AllowedDone`, `LiveNext`, `LiveDone` are the startup, up to the
moment the server listens. `Fails` is a statement the database rejects: it ends
the handler, or one member of a bulk loop, and lets the server listen without a
reconciliation. `Crash` loses all handlers, the ones nobody waits for included.
`old` and `since` are history for two properties.

**OAuthGrants.** `job[h]` is a request: `pc` its next statement, the rest what it
has read. `BeginAuthorize` and `BeginConsent` are the routes up to their first
write, with the scopes narrowed to those the client is allowed; `Find`, `Record`
and `MintCode` are `OAuthConsentService.find`, `.record` and
`OAuthCodeService.mint`. `Consume` is one transaction and ends with the route's
cross-check of the client, which comes after the code is spent. `Issue` and
`MintRefresh` follow. `Rotate` reads and judges a refresh token; `Replace` is
the transaction that inserts its successor, without looking again; `IssueNext`
is the access token and the answer. `Walk` is one turn of `revokeChain`'s loop,
`RevokeChain` its transaction. A token's `code` and `root` (the code its chain
began with, and whether it was minted for the code itself), and `granted`, are
history; the code keeps neither. `given` are the tokens some client has received:
only those can be presented. Deleting a client takes its rows along, and an
insert for it fails from then on (foreign keys), which ends the request. Ids are
never used again (`autoincrement`).

**SignIn.** `user[u]`, `login[i]` (whose identity `i` is) and `merge[p]` (the
suggestion of a pair) are the tables; `scan[u]` is the scan a new user's first
sign-in leaves behind. `job[h]` is a request: `pc` its next statement, the rest what
it has read, which it goes on using. A sign-in is `StartSignIn` (is the identity
known?), `Load` or `Match` (by address), `Reenter` (`applyDeniedReentry`),
`CreateUser`, `Attach`, then for a League address at Google the look-up of the OU
with `PromoteStaff`, `DemoteStaff` or `OULookupFails`, `Elevate` (`ADMIN_EMAILS`) and
`Respond`, the session. `SyncFind`, `SyncInsert`, `SyncPatch`, `FindUnseen` and
`Drop` are the Workspace syncs, user by user. `Move` is `moveEverything`, as far as
users and logins go; `parked` is the prefix a merge puts before the address of the
user merged away, which keeps the address free and makes a second merge of the same
address into the same survivor fail (`CanPark`). Single transactions (approve,
deny, delete, link, import, the decisions on suggestions) are single steps.
`ScanCandidates` reads the candidates once, `Suggest` and `Pass` go through them.
`out` and `late` are history: how somebody was put out (`back`: denied permanently, and
listed by a Workspace sync since), and what was attached to a user already merged away.

**ExternalAccounts.** `account[a]` are the rows, `google[u]`, `invite[i]` and
`seat[u]` what exists elsewhere. `task[h]` is a request or the delete job. A
provisioning reads (`StartProvision...`), calls (`CreateUser`, `Reactivate`,
`InviteMember`) and stores; a lifecycle operation opens its transaction (`Open`),
calls inside it (`CallGoogle`, `CallInvitation`, `CallMember`, `Reinvite`) and saves;
meanwhile no other transaction runs, but plain statements do. `Advance` is the bulk
loop with its per-account catch. `ListUsers`, `FindUnseen`, `FlagUnseen` and
`Fetch`, `LinkMember`, `FindAccepted`, `RecordAccepted`, `FindStale`, `FlagStale`
are the syncs, on the listing they fetched. `RemoteFails`, `TransactionFails` and
`Crash` come at any call or commit; `Accept` (a student accepts an invitation) and
`Drift` (an administrator changes an account in Google's console) are the world
outside. `calm` and `solo` are history: nothing overlapped, got lost or drifted so far;
and the task under way, if it was alone since it began.

**LaptopRoster.** `roster[n]` is what the entry of name `n` holds as
`password_hash`: nothing, locked, or a hash; `user[u]` the columns an entry is
written from. A request checks the name (`Check`, `Owner`: `rosterIdTakenByOther`),
commits, and reconciles: `ReadRow`, `ReadEntry`, `WriteEntry`, `Tidy`, on what it has
read. `MarkDirty` follows a failure (`RosterFails`); `MarkFails` is the failure that
leaves no mark. `LockRead` and `LockWrite` are `lockRosterId` after a rename. `Tick`
is the hourly job, which may start while an earlier run goes on. `Flip` is what
re-entry at sign-in and the Workspace sync do: they change `is_active` and tell the
roster nothing. `foreign`, `blind`, `untold`, `left` and `lost` are history, one for
each way the code lets an entry and its row come apart.

**Enrolment.** `scope[s]` is the row of a group or cohort, its passphrase included,
`user[u]` what a user's row says of it, `member` the table `UserGroup`, `ou` the OUs at
Google. `job[h]` is a request. Issuing a passphrase takes the time once (`StartIssue`),
compares with cohorts and with groups (`CheckCohorts`, `CheckGroups`: `_hasCollision`,
a `findFirst` for each table) and writes (`Store`); a generated one that collides is
replaced and compared again (`Collide`). A login or sign-up looks for the passphrase in
cohorts, then in groups (`SeekCohort`, `SeekGroup`: `findBySignupValue`), with the time
it took and the cohort it read when it began; `InGroup` is the look-up of the
membership, `CreateUser` the insert of a new student, who joins the group found in two
more statements (`FindMember`, `AddMember`). `CreateOU` and `InsertCohort` are
`createWithOU`; `FindGroup` and `InsertGroup` also the loop of `syncCohorts`.
`PatchUser` is what `syncStudents` writes over a user it listed. Single transactions
(`SyncToGroup`, `Unseen`, `Delete`, `Merge`, `Reenter`) are single steps. `crossed` and
`owed` are history: have two requests for a passphrase overlapped; and through which
scopes has the user of a login been entitled since it began.

Abstracted everywhere: hashes, plaintexts (stored or not is kept), audit events,
logging, wording of errors, the dollar value of token counts (any cost between 0
and `MaxCost`), the calendar (`MonthLength` ticks are a month).

## 4. What is checked

| Run | Instance | Shows |
|---|---|---|
| `metering` | 1 token, 2 calls at a time, 3 calls, 1 budget change, two whole months of 2 ticks, shortest retention | `BudgetOvershootBounded`, `MeterSpec`, `SpendErasedOnlyByNewPeriod`, `RefusedInCurrentPeriod`, `ReportedSpendIsLogged`, `TotalsCoverLog` |
| `metering_recompute` | 1 token, 1 call at a time | finding: `SpendRecomputable` is violated |
| `access_serial` | 2 users, 1 handler, 3 operations, 1 crash, expiry, a merge | `AtMostOneActive`, `FlagFollowsToken`, `RotateReplaces` |
| `access_overlap` | 1 user, 2 handlers, 3 operations, 1 crash, 1 failing statement | `ActiveTokensBounded`, `ReconcileConverges` |
| `access_at_most_one` | 1 user, 2 grants | finding: `AtMostOneActive` is violated |
| `oauth` | 1 user, 2 clients, 2 scopes, 2 requests at a time, 4 requests, 1 tick, 1 overlap, failing statement or crash | `ScopesConsented`, `CodeYieldsOneSet`, `TokensFollowCode`, `UsableBounded`, `RequestsEnd` |
| `oauth_replay` | 1 client, 2 requests at a time, 5 requests | finding: `ReplayEndsChain` is violated |
| `sign_in` | 2 addresses, 4 identities, 4 users, 2 requests at a time, 3 requests, 2 overlaps, failures or crashes | `RemovedStaysOut`, `MergedHoldsNothing`, `KeepsALogin`, `SignInHeals`, `DecisionFinal` |
| `sign_in_denied` | 2 addresses, 2 users, 1 request at a time, 3 requests | finding: `DeniedGetsNoSession` is violated |
| `external_accounts` | 1 student, 2 requests at a time and the delete job, 3 requests, 2 instants, 1 failure, 1 change by hand | `WorkspaceAgrees`, `SeatOnRecord`, `PendingIsInvited`, `DeletedAfterGrace`, `SyncRepairs`, `RemovedIsErased` |
| `laptop_roster` | 2 names, 3 users, 2 requests at a time and the hourly job, 2 requests, 2 overlaps, failures or crashes | `RosterAgrees`, `NoTakeover`, `PushAllRepairs`, `DirtyIsRetried` |
| `enrolment` | 2 groups, 1 cohort, 2 users, 2 phrases, 2 names, 2 requests of which the second may fall between any two statements of the first, or 1 failure or crash, 1 tick | `OneScopePerPhrase`, `MemberAdmitted` |

What they say, in words:

- *Budget.* The check reads a spend that calls under way are not yet charged to.
  The overshoot is still bounded, by one call per concurrent request, through
  budget changes, a month's start and a process exit; and the handlers refine
  `SpendMeter`, so a call is admitted on a row that was within its budget at some
  moment since it arrived.
- *Month.* The concurrent first calls of a month erase the old spend once;
  nobody is refused with 429 for what an earlier month spent.
- *Log.* The spend shown to students and admins never exceeds what the log of
  the month adds up to, whenever the prune job runs; the totals keep the dollars
  after the rows are gone. The converse fails (first finding).
- *Access, one handler at a time.* One active token per user, the flag follows
  the token, and a rotation leaves none of the old tokens accepted.
- *Access, overlapping handlers.* Two grants can both mint (second finding).
  What is left: never more active tokens than handlers; a startup that finishes
  leaves every allowed user with a token and every token's user allowed,
  whatever a crash, a failure or a race left behind.
- *OAuth, overlapping requests.* Whatever is narrowed, disabled or deleted
  between two statements of a request, a client gets no scope its user did not
  consent to for it, a code becomes one set of tokens, and a chain stays with the
  user, client and scopes of its code. A walk along a chain ends, although the
  chain grows.
- *OAuth, the usable tokens of a chain.* One request after another, a chain has one
  token that can be rotated, and none once a replaced one was presented again. With
  overlapping requests neither holds (third finding); what is left is that every
  request that begins while another is under way costs a chain at most one more usable
  token, a chain that was revoked included.
- *Sign-in.* As long as requests do not overlap, whoever was removed or denied is out,
  by whatever identity or address they return and whatever was merged, linked or
  imported since, until an administrator, the staff OU or, unless the denial was
  permanent, a Workspace listing lets them in. Whoever was denied permanently is
  inactive but for such a listing, which does reactivate them and so leads to a session
  (fourth finding), though not to approval. A user merged away holds no login that was
  not attached afterwards. Requests that overlap break both: a sign-in that read the row
  before a denial reactivates or promotes it afterwards (`sign-in.handler.ts:709`,
  `:486`). Whatever crashes, failures and races left behind, a sign-in on its own gets
  over it: a user without a login is found by address, and the login attached (though
  without the scan a new user gets).
- *Logins.* Unlinking and merging leave a user one login, again one at a time: two
  unlinks that overlap both count before either deletes (`login.service.ts:96`).
- *External accounts.* As long as nothing overlaps, fails or is changed by hand, the
  row of a student and the account at the other end agree, and a pending row has an
  invitation. When something did overlap, fail or change (a job deletes an account that
  was reactivated meanwhile, a transaction rolls back what it called for), the next sync
  that runs alone takes back what rows claim in vain: a live row has a Google account
  that can be used, a Claude row a seat or an invitation that is not cancelled. The other
  direction is not repaired by anything: an account or seat that no live row claims stays
  as it is. And an account whose deletion is due is deleted, although the job may then
  try it again for ever (`workspace-delete.job.ts:74`).
- *Roster.* As long as requests do not overlap, an entry follows its row or the user
  is marked, whatever call fails, unless it was the read of the row or the mark
  itself that failed (`laptop-account.service.ts:241`, `:418`) or the user was
  (de)activated by sign-in or sync. In every interleaving, nobody gets the name of an
  entry a laptop made, a mark is worked off, and an undisturbed push-all repairs
  everything but entries nobody holds.
- *Enrolment.* As long as no two requests for a passphrase overlap, a valid passphrase
  belongs to one group or cohort, although it is compared in two statements and written
  in a third, with the time of the first, while rows are renamed, revoked and deleted;
  and whoever is an active member of its scope from the first statement of a login to
  the last is let in, although the login asks cohorts before groups, stops at the first
  row it finds and compares with the cohort it read before. The second needs the first:
  a phrase in two scopes sends a member of one to the other. Two requests that overlap
  can store one phrase in two scopes, which is why both properties exclude them.

**Bounds.** The interesting cases need two handlers between whose statements a
third event falls (a month, a budget change, a crash), and these bounds are the
smallest that contain all of them. `MaxCalls = 3` with two slots lets a call begin
after another has been charged while a third is in flight; `MaxNow = 3` with
months of two ticks has a tick within a month, a tick into the next and two whole
months for the retention. `MaxOps = 3` gives one
operation to set up, one to interfere and one to observe. Token ids outnumber the
grants those operations and two startups can make, so `FreeIds # {}` never stops a
grant. In `access_overlap` merges and deactivations are left out, as they are
single steps that touch one user's handlers only by moving tokens: they are in
`access_serial`, where `MaxFails = 0` because the permission route stores the flag
first and gives up its grant or revoke quietly when it fails, so
`FlagFollowsToken` is a promise about handlers that run to their end or die with
the process, which the startup then repairs. `CHECK_DEADLOCK FALSE` in every run:
bounded calls, ticks and crashes are used up and the instance then really stops.
Symmetry is used in safety runs only.

In the OAuth runs the first token of a chain takes two requests, a consent and an
exchange. `oauth` adds two that overlap (two rotations of one token, two exchanges of
one code, a rotation and the deletion of its client) or follow each other (a rotation
and the replay of the first token, a walk over two tokens), with a tick that expires
codes and tokens; `MaxMishaps = 1` is one overlap, failing statement or crash. Both
clients and both scopes are there so that a code can be presented by the wrong client
and a consent can cover a part: a request asks for one scope or for all the client has
(`ScopeSets`). `oauth_replay` needs five: consent, exchange, rotation, replay, rotation;
what such longer histories do to `UsableBounded` is proved for all of them. Ids
outnumber what the requests can insert, so the guards `codes < MaxCodes` and
`refreshes < MaxRefresh` stop nobody.

In `sign_in` three requests are one to create, one to remove, merge or link, and one
to return, and the table may begin filled by an import, so that a merge and a return
fit behind each other. The identities are two providers of one address, one that is
a staff address (and in `ADMIN_EMAILS`) and a password login; four users are two
imported and two more. Both mishaps may be overlaps: two requests that run into each
other and a third that finds what they left. The
only guards on ids are those of inserts, and three requests make at most two more
users than an import. `sign_in_denied` needs no overlap: a denial, a sync and a sign-in.
In `external_accounts` one student suffices, since addresses
and rows of two students never meet (the syncs go through them one by one); three
requests are provision, remove and provision again, or sync; with `Delay = 1` and two
instants a deletion falls due within the run, and an operation that goes wrong leaves two
for the sync that repairs it. `MaxAccount` and `MaxInvite` exceed
what three requests insert. In `laptop_roster` every entry may exist
before, in any state, and a user may own one, so two requests suffice for a change and
a push, a rename and a merge, or an import and a sign-up.

In `enrolment` the tables start in any state that earlier requests may leave, members
and passphrases included, so two requests are one to observe and one to interfere, or
one that fails; the table of scopes has room for what one request inserts. Two groups
and a cohort are two scopes of one kind and two of different kinds, two phrases are the
one and the other, and `Ttl = 1` with one tick lets a passphrase expire while it is
compared or presented. `Fresh(K) # {}` stops an insert when the instance starts with all rows in
use; those that start with a free one are there too, and the theorems hold for any
number of rows.

**Fairness.** Three modules have a `FairSpec`. It asks that a request that can take a
step takes one: the event loop runs every continuation, and a call to a remote system
ends, by an answer or by the client library's timeout. Nothing is assumed about which
outcome, nor about requests, crashes or failures happening. In `OAuthGrants` that is
`Step(h)`, the statements of a request, and `RequestsEnd` needs no more, a request being
a fixed sequence but for the walk along a chain. In `ExternalAccounts` every task takes
its steps, time goes on, and the hourly job is started; that calls succeed is not
assumed, only that failures are finite (`MaxFails`), without which nothing is ever
deleted. In `LaptopRoster` what has begun goes on, and the scheduler ticks as long as
somebody is marked; again only finitely many calls fail. The other modules have no
fairness: none of their properties needs any.

## 5. What is proved

`tlapm` checks every leaf. The theorems hold for all values of the constants
under `TokensAssumption`, `MeteringAssumption`, `AccessAssumption`, `OAuthAssumption`,
`SignInAssumption`, `AccountsAssumption`, `LaptopAssumption` and `EnrolmentAssumption`
(bounds are natural numbers, budgets are positive, as `isValidBudgetUsd` demands, the
retention is at least a month, the request slots are finite, `LaptopRoster` starts
with one user, so it has room for one).

| Theorem | Says | Argument |
|---|---|---|
| `SpendMeter_proofs!MeterOvershootBounded` | spend below cap plus one call per slot | `OvershootReserved`: past the cap, every call still under way keeps its share of the overshoot; `OvershootBounded` alone is not inductive, as a charge could come from a call nobody counted |
| `LlmProxyMetering_proofs!TypeCorrect` | types | inductive as it stands |
| `LlmProxyMetering_proofs!SpendErasure` | `SpendErasedOnlyByNewPeriod` | the guard of the roll is in its statement, not in the handler, so a stale handler cannot undo a later period |
| `LlmProxyMetering_proofs!RefusalsAreCurrent` | `RefusedInCurrentPeriod` | `Rolled`: after its roll a call's row is in the month it was checked in, whoever rolled it, because periods never go back |
| `LlmProxyMetering_proofs!ImplementsMeter` | the handlers implement `SpendMeter` | `IInv = TypeOK /\ BudgetWithinCap`: the budget a row was read with is at most the cap; a call holds the meter from the read that finds it within its budget |
| `LlmProxyMetering_proofs!OvershootIsBounded` | `BudgetOvershootBounded` | the refinement and the meter's theorem |
| `LlmProxyMetering_proofs!ReportedIsLogged`, `TotalsCover` | `ReportedSpendIsLogged`, `TotalsCoverLog` | `LogInv`: see below |
| `LlmProxyAccess_proofs!AccessTypeCorrect` | types, and that a handler has the user and token its next statement needs | inductive as it stands, for overlapping handlers |
| `LlmProxyAccess_proofs!SerialAtMostOneActive` | `AtMostOneActive` when handlers do not overlap | `MintsForTokenless`: a grant about to mint is for a user without an active token. Without it a mint could follow a stale check; with overlapping handlers exactly this fails |
| `LlmProxyAccess_proofs!FlagFollows` | `FlagFollowsToken` when handlers do not overlap and no statement has failed | `FlagInv`: see below |
| `LlmProxyAccess_proofs!RotationReplaces` | `RotateReplaces` when handlers do not overlap | `RotationInv = FlagInv /\ OldGoes`: what of a rotation's old tokens is still good is what its next statement revokes or finds gone |
| `LlmProxyAccess_proofs!OverlapBounded` | `ActiveTokensBounded` for any finite number of overlapping handlers, without merges | `BoundInv`: a user's active tokens and the handlers about to mint one for it are together at most as many as the handlers |
| `LlmProxyAccess_proofs!StartupConverges` | `ReconcileConverges`, for any number of handlers | `StartupInv`: every user the loop has passed is settled, and no request moves a token or a flag before the server listens |
| `OAuthGrants_proofs!GrantsInvariant` | `IInv`, from which the four below | see after the table |
| `OAuthGrants_proofs!TypesOK`, `Consented`, `OneSet`, `Followed` | `TypeOK`, `ScopesConsented`, `CodeYieldsOneSet`, `TokensFollowCode`, in every interleaving | conjuncts of `IInv` |
| `OAuthGrants_proofs!Bound` | `UsableBounded`, in every interleaving | `ChainInv`: see below |
| `OAuthGrants_proofs!ReplayRevokes` | `ReplayEndsChain` as long as no two requests overlapped | `UsableBounded` at `races = 0` |
| `SignIn_proofs!TypeCorrect` | types, and that no login, request or scan refers to a user who is not there | conjuncts of `IInv` |
| `SignIn_proofs!RemovedOnesStayOut`, `MergedOnesHoldNothing` | `RemovedStaysOut`, `MergedHoldsNothing`, both as long as no two requests overlapped | see below |
| `SignIn_proofs!SignInsHeal` | `SignInHeals`, past any crashes, failures and races | see below |
| `SignIn_proofs!LoginsAreKept` | `KeepsALogin` when requests neither overlap nor fail | `LoginInv`: see below |
| `SignIn_proofs!DecisionsAreFinal` | `DecisionFinal`, in every interleaving | every step that writes a suggestion looks at it in the same transaction |
| `ExternalAccounts_proofs!TypeCorrect` | `TypeOK`, whatever overlaps, fails or drifts | a lifecycle request under way has a row to go on with and an operation (`Knows`) |
| `ExternalAccounts_proofs!RowsAndGoogleAgree`, `SeatsAreOnRecord`, `PendingAreInvited` | `WorkspaceAgrees`, `SeatOnRecord`, `PendingIsInvited`, while `calm` | `Calmly`: see below |
| `ExternalAccounts_proofs!NobodyDeletedEarly` | `DeletedAfterGrace`, while `calm` | `Calmly`: a row of the job's list is still removed and due when the job comes to it |
| `ExternalAccounts_proofs!SyncsRepair` | `SyncRepairs`, past any overlaps, failures, crashes and changes by hand | `SoloInv`: while a task is alone, what it listed is still there, and every row that claims what it did not list is on its list (`Heard`) |
| `LaptopRoster_proofs!TypeCorrect`, `NobodyTakesOver` | `TypeOK`, `NoTakeover`, in every interleaving | a request about to commit a name was told that the entry is nobody's or its own; entries a laptop made are only ever locked |
| `LaptopRoster_proofs!QuietRosterAgrees`, `AfterPushAllEntriesAgree` | `RosterAgrees` when requests do not overlap and none ends unmarked; `PushAllRepairs` after any overlaps, failures and crashes | `RInv`: see below |
| `Enrolment_proofs!TypeCorrect` | types, and what the schema promises: memberships and `cohort_id` refer to rows that are there, a deleted scope has no passphrase | a request that goes on to write has been told that the user is there (`JobOK`), and nothing takes users or cohorts away |
| `Enrolment_proofs!OneScope`, `MembersAdmitted` | `OneScopePerPhrase`, `MemberAdmitted` | see below |

`LogInv` is the two properties, and that neither a row's period nor a roll under way is
later than the current month. Its steps need what a sum over a finite set of entries
does when an entry grows or goes. That is an induction on the number of entries, carried
out as the search for a least counterexample (`NatLessThanWellFounded`, `WFMin`), because
the induction theorems themselves take an operator as a parameter. A prune cannot take an
entry of the current month: `MeteringAssumption` has the retention be at least a month.

`FlagInv` is about the users in doubt: those who have a token and whose flag denies it.
While the server listens and nothing has failed, such a user is one whose token a handler
is about to revoke (`DoubtIsRevoked`), and that revoke drops the only token the user has
(`DropsTheOnly`), which needs `AtMostOneActive`. The handler of `setPermissions` revokes
on a flip only, which is right because the flag it read is still the flag
(`PermitIsFresh`). During a startup the second loop has yet to come to everybody in doubt
(`LiveCovers`). `StartupInv` assumes nothing about overlaps or failures before: nobody but
the startup's handler acts before the server listens, and `Converging` is what its two
loops have done so far.

`RInv` of the roster is about the entries that do not agree with their rows. `Awaits`
are the users a request has still to reconcile, `Leaves` the name it has still to lock.
A request that has the roster to itself covers everything else (`Covering`): whatever
disagrees is marked, forgotten by a path that does not reconcile, or on its way. What it
has read is still so (`Good`): the row and the entry of a reconcile; before a commit, that
the name to lock after it is the one the user has; after it, that nobody holds that name,
which needs names to be unique (`UniqueNames`). A push-all that nothing came across has
more: what it has passed agrees (`Repairing`), with no mark for an excuse. An overlap takes
`Good` away, a crash `Covering`; a push-all begun afterwards brings its own.

The properties of `ExternalAccounts` speak of the moments at which nothing is under way;
`Calmly` says what holds in between. As long as nothing overlapped, got lost or drifted,
one task is under way at most (`Alone`). A student whose row and Google account do not
agree is the one whose row this task is to write next (`InHand`), and a pending row
without a good invitation is that row (`Writes`): in every task at most one remote call
lies between two writes, and a call that fails leaves things as they were, but for the
calls for Claude that are best effort, which end the calm. That the write then mends it
needs what the task has read to be so still (`Good`): a provisioning's row is its
student's only one; the invitation about to be stored is named by no other row; a listing
of Google or Anthropic still shows everybody who is in; the rows on the job's list are
removed, and due. Nothing but the task itself could change that, except a student who
accepts an invitation and the clock, and neither does. The rest (`Tables`) ties the rows
together: one Workspace row for each student, no invitation in two rows, a removed row due
its retention after its removal. That one is false of a row that a sync of students
flagged, which keeps the date it had, if it had one; but in calm that sync finds nobody to
flag, which is part of the proof.

`Enrolment` is about what was true when a request looked and must still be good enough
when it writes or answers. A request for a passphrase that has compared it with a table
knows that no other row of the table has it beyond the time it took (`Free`). The
look-up returns any one row that fits, so when it returns the scope's own, the rest
follows from `Distinct`: no two scopes share a phrase that is valid at that time. Other
requests can only shorten the list of rows with the phrase (`Shrinks`), unless a second
one is issuing. A login knows, when it has come to groups, that none of what it is owed
is a cohort and that no other scope has its phrase beyond the time it took; when it has
found a group, that it is owed nothing else (`LoginOK`). `Store` is the step that could
break this for the login of somebody else, and does not, because it never writes a
phrase that another scope holds: `OneScopePerPhrase` is what makes `MemberAdmitted`
true, and both are proved as one invariant.

`SignIn` needs an invariant of what a request has read. `IInv` consists of the
tables (`Tables`: addresses are unique but for parked ones, scans and suggestions
refer to users who exist, ids are given in order), the users (`People`: what `out`
and `late` say of them) and the requests (`JobsOK`). The last has a part for every
request, and a stronger one for a request that nothing has come across (`alone`):
what it has read is still so. The first part makes types and decisions safe, the
second carries `SignInHeals` and, while `races = 0`, the other two; it is exactly what
an overlap takes away. `LoginInv`, on top of it, is `KeepsALogin` in the middle of a
request as well: whoever is owed a login has one or is the user of the sign-in that is
about to write it, and a login about to be deleted is not the last of its user. That the
write goes through needs the identity to be free still, and that the deletion leaves
one needs the count to be good still: both are what `alone` says.

None of the OAuth properties is inductive: what a request inserts next depends on
what it has read. `IInv` therefore says of the requests what the properties say of
the rows: one that is about to hand out scopes has the consent (`ConsentedOK`),
one that issues tokens follows its code (`FollowsOK`), one about to replace a
token has one of its own client and chain (`OwnOK`), at most one is exchanging a
code and its chain is still empty (`OneExchange`), the latter three as long as the
client was not deleted. Ids that were not given yet have no row (`IdsInOrder`).

`ChainInv` counts. A chain's usable tokens alone are not bounded by an invariant: two
rotations that have judged one token add a second usable one much later. So the requests
that can still do harm are counted in advance (`Threats`): those that present a token of
the chain, are about to replace one, or walk along or are about to revoke a chain of which
nothing is revoked yet. One of them may be right (`Sound`): the token it is to replace is
still usable, or what it is to revoke still contains a usable token. The usable tokens,
one for a revocation, and the threats but for a sound one are together at most
`races + 1` (`Bounded`), and every step keeps that: a request that begins alone is the one
that may be sound, one that begins beside another adds one to both sides; a replacement
of a usable token leaves the sum as it is, one of a token that is not usable turns a
threat into a token; a revocation takes usable tokens away or ends a threat. A walk's end
needs `LinkInv`: a token is replaced by a later one of its chain, and a walk has left
behind what is before it.

Only model-checked: `RequestsEnd`, `RemovedIsErased` and `DirtyIsRetried`, as liveness
under fairness is out of the prover's reach. Every invariant and every action property
of a passing run is proved, some under the restriction to requests
that do not overlap that the property itself states or the run's instance makes.

## 6. Findings

1. **The spend of a period cannot always be recomputed from the log.** A call
   that is admitted in one month and ends in the next, before the token's first
   check of that month, is logged in the new month and charged to the old one;
   the roll then erases the charge. `llm-proxy-request-prune.job.ts:7-8` says the
   rows make the spend recomputable. Run `metering_recompute`.
2. **At most one active token per user does not hold by construction.** `grant`
   checks before its transaction, and the transaction does not check again; two
   overlapping grants both mint. `llm-proxy-token.repository.ts:83-87` says the
   service's transaction is authoritative. Run `access_at_most_one`.
3. **A replay does not always end the chain.** `rotate` judges the token before
   its transaction, which does not look again, and the walk is several
   statements. A rotation that read its token before a replay revoked the chain
   commits after it and hands out a token that can be used; two rotations of one
   token leave a successor that no walk reaches. `docs/oauth-provider.md:201-204`
   and `oauth-refresh.service.ts:9-10` promise that the entire chain is revoked.
   Run `oauth_replay`.
4. **A Workspace listing lets in who was denied permanently.** A sync reactivates
   every inactive user whose address it lists, whatever was decided about them
   (`workspace-sync.service.ts:443`, `:195`), and a sign-in looks at the denial of
   inactive users only (`sign-in.handler.ts:710`); with a staff address it even approves
   them (`:484-490`). `routes/admin/users.ts:441-446`, `sign-in.handler.ts:691-693` and
   `routes/auth.ts:336-337` say that they never get a session and that only an
   administrator undoes it. Run `sign_in_denied`.

Beside the findings, which runs show, the models have behaviour that the code has and
a maintainer should know; no run is spent on it.

- *A merge into a user merged away* is possible, as `approve`
  (`merge-suggestion.service.ts:316`) looks at the suggestion and not at the users;
  so is linking a login to one. The login's next sign-in reactivates that user
  (`late`). Two users with one address cannot be merged into the same survivor, ever:
  the parked address is taken (`:613`).
- *A scan starts from the user as first inserted*: one promoted to staff during the
  same sign-in is scanned as a student (`sign-in.handler.ts:377`).
- *A soft denial after a permanent one* replaces it (`routes/admin/users.ts:455`).
- *Two live Claude rows for one student* are reachable without overlap: the partial
  unique index that `external-account.service.ts:45-47`,
  `external-account.repository.ts:10-12` and `schema.prisma:272` name was dropped by
  `prisma/migrations/20260507224148_sync_schema_drift/migration.sql:2`.
- *A reactivated account keeps its `scheduled_delete_at`*: when a later sync flags
  it, it is due at once.
- *An account the job has deleted cannot be provisioned again*
  (`workspace-provisioning.service.ts:106-123` tries to unsuspend it), *and one
  created before a transaction that failed cannot either* (`:174`, conflict).
- *Removing a Claude row whose invitation was accepted* but not yet synced leaves the
  student in the organisation (`external-account-lifecycle.service.ts:485-502`), and
  deprovisioning leaves pending rows alone (`routes/admin/deprovision.ts:65`).
- *A database error while loading the user marks nobody dirty*
  (`laptop-account.service.ts:241-243`), though the comment above says that any
  database error does (`:235`); *a lock after a rename that fails is not retried*
  (`:343`); and `lockRosterId` locks whatever entry has the name by then.
- *A sync of students takes everybody it lists out of their cohort*
  (`workspace-sync.service.ts:445-455`), though the comment says that the cohort of
  others is left untouched (`:239-240`).
- *A cohort whose insert failed cannot be created again*: the retry that
  `cohort.service.ts:55-57` counts on is refused by Google, where the OU now exists
  (`google-workspace-admin.client.ts:806-817`).
- *A revocation clears whatever passphrase the row has by then*, one issued after it
  looked included (`passphrase.service.ts:178-192`).

## 7. Not modelled

See the components with status `not_modelled` in `PROJECT.json`, and the notes of the
others for the operations left out. The attempt limiter is a count in memory that no
other component reads. Sessions and impersonation decide nothing that is not decided
again on the user row at each request. The translation between the OpenAI and Anthropic protocols and the
usage sniffers are data. Audit, mail, logging, backups, introspection and the MCP
server decide nothing in the components above, and neither does the web client, which
is two fifths of the code: its state is what the server last answered.

Of the parts that are modelled, these are left out: the audit rows written with each
transaction (so the `from` of two concurrent budget changes is not observed), the
usage reports, the roles changed by hand and the two permissions that have no token
behind them; of OAuth the creation of clients, their secrets, redirect URIs and PKCE
(a wrong one is refused before anything is written), the validation of access tokens,
which only reads, and the rows that a merge or the deletion of a user takes along or
moves; of sign-in the password login, directory metadata and provenance, and an
instance without `GOOGLE_STAFF_OU_PATH`; of external accounts the mails, Pike13 rows
and the cached id of the Students workspace; of the roster the display name, the
provenance fields of an entry and ids that are not valid; of enrolment the password part
of a login, the LLM access a passphrase can grant, roles changed by hand, how a phrase
is normalised and generated, and the writers of cohorts and `cohort_id` that no route
calls (`users.updateCohort`, `upsertByOUPath`, `cohort.create`).
