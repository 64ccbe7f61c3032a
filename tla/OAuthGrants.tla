---------------------------- MODULE OAuthGrants ----------------------------
(***************************************************************************)
(* The OAuth provider: from a user's consent to an authorization code, from *)
(* the code to an access token and a refresh token, and from one refresh    *)
(* token to the next, with the revocation of a chain when a token that was  *)
(* replaced is presented again.  OAuthConsentService, OAuthCodeService,     *)
(* OAuthTokenService.issue / issueForUser, OAuthRefreshService and the      *)
(* routes /oauth/authorize, /oauth/authorize/consent and /oauth/token, with *)
(* OAuthClientService.disable, delete and update.                           *)
(*                                                                          *)
(* A request is a record in job: pc names the statement it executes next.   *)
(* Requests interleave at every await; a $transaction is one step.  The     *)
(* secrets, redirect URIs and PKCE verifiers of the requests are right: a   *)
(* wrong one is refused before anything is written.                         *)
(***************************************************************************)
EXTENDS Integers, FiniteSets

CONSTANTS
  MaxConcurrent, \* requests that can be under way at the same time
  Users,      \* users with a session
  Clients,    \* rows of OAuthClient
  Scopes,
  ScopeSets,  \* sets of them that a request can name
  NoUser,     \* user_id of a token that is the client's own
  NoClient,   \* client of an id that no row has
  CodeTtl,    \* CODE_EXPIRY_SECONDS
  RefreshTtl, \* REFRESH_EXPIRY_DAYS
  Ops,        \* the requests they are
  MaxCodes,   \* bounds: rows that can be inserted,
  MaxRefresh,
  MaxNow,     \* the last instant,
  MaxOps,     \* requests begun,
  MaxMishaps  \* requests begun while another is under way, failing statements and crashes

AllOps == {"authorize", "consent", "exchange", "client", "refresh", "disable", "delete", "update"}

ASSUME OAuthAssumption ==
  /\ NoUser \notin Users
  /\ NoClient \notin Clients
  /\ ScopeSets \subseteq SUBSET Scopes
  /\ CodeTtl \in Nat /\ RefreshTtl \in Nat
  /\ Ops \subseteq AllOps
  /\ MaxCodes \in Nat /\ MaxRefresh \in Nat /\ MaxNow \in Nat
  /\ MaxConcurrent \in Nat
  /\ MaxOps \in Nat /\ MaxMishaps \in Nat

Handlers   == 1..MaxConcurrent
CodeIds    == 1..MaxCodes
RefreshIds == 1..MaxRefresh

\* SQL NULL in replaced_by_id, and the code of a token that came from none.
None == 0

VARIABLES
  client,    \* client[c]: "enabled", "disabled" (disabled_at is set) or "deleted"
  allowed,   \* allowed[c]: allowed_scopes
  consent,   \* consent[u][c]: scopes of the OAuthConsent row, {} without one
  code,      \* code[k]: the OAuthAuthorizationCode with id k
  codes,     \* ids given to codes
  refresh,   \* refresh[r]: the OAuthRefreshToken with id r
  refreshes, \* ids given to refresh tokens
  access,    \* the OAuthAccessTokens
  now,
  job,       \* the requests
  given,     \* refresh tokens that some client has received
  ops,       \* requests begun
  fails,     \* statements that failed, and crashes
  \* Auxiliary: history that the code does not keep.
  races,     \* requests begun while another was under way
  granted    \* granted[u][c]: every scope that u has ever consented to for c

vars == <<client, allowed, consent, code, codes, refresh, refreshes, access, now, job, given,
          ops, fails, races, granted>>

clients == <<client, allowed>>
grants  == <<consent, granted>>
tokens  == <<refresh, refreshes, given>>
bounds  == <<now, ops, fails, races>>

\* root: the token was minted for the code itself, not by a rotation; code: the
\* code that its chain began with (both auxiliary).
NoCode    == [client |-> NoClient, user |-> NoUser, scopes |-> {}, expires |-> 0,
              consumed |-> FALSE]
NoRefresh == [client |-> NoClient, user |-> NoUser, scopes |-> {}, expires |-> 0,
              revoked |-> FALSE, next |-> None, code |-> None, root |-> FALSE]
Idle      == [pc |-> "idle", user |-> NoUser, client |-> NoClient, scopes |-> {},
              code |-> None, token |-> None, next |-> None, at |-> None, chain |-> {}]

Init ==
  /\ client = [c \in Clients |-> "enabled"]
  /\ allowed = [c \in Clients |-> Scopes]
  /\ consent = [u \in Users |-> [c \in Clients |-> {}]]
  /\ granted = consent
  /\ code = [k \in CodeIds |-> NoCode] /\ codes = 0
  /\ refresh = [r \in RefreshIds |-> NoRefresh] /\ refreshes = 0
  /\ access = {}
  /\ given = {}
  /\ job = [h \in Handlers |-> Idle]
  /\ now = 0 /\ ops = 0 /\ fails = 0 /\ races = 0

----------------------------------------------------------------------------
At(h, pc) == job[h].pc = pc
Go(h, j)  == job' = [job EXCEPT ![h] = j]
End(h)    == Go(h, Idle)
Quiet     == \A h \in Handlers : At(h, "idle")

\* A row exists; the client of the request was deleted meanwhile, and inserting a
\* row for it is refused (a foreign key).
Exists(row) == row.client # NoClient
Deleted(h)  == client[job[h].client] = "deleted"

\* The tokens of the chain that began with code k; r can be rotated.
Chain(k)  == {r \in RefreshIds : Exists(refresh[r]) /\ refresh[r].code = k}
Usable(r) == Exists(refresh[r]) /\ refresh[r].next = None /\ ~refresh[r].revoked

UsableIn(k) == {r \in Chain(k) : Usable(r)}

\* A token of the chain was revoked.
Revoked(k) == \E r \in Chain(k) : refresh[r].revoked

\* A new request. One that is refused before it has changed anything is left out.
Begin(h, op, j) ==
  /\ At(h, "idle") /\ \A g \in Handlers : g < h => ~At(g, "idle")
  /\ op \in Ops /\ ops < MaxOps
  /\ Quiet \/ races + fails < MaxMishaps
  /\ ops' = ops + 1
  /\ races' = IF Quiet THEN races ELSE races + 1
  /\ Go(h, j)
  /\ UNCHANGED <<clients, grants, code, codes, tokens, access, now, fails>>

----------------------------------------------------------------------------
\* GET /oauth/authorize up to the consent: of the scopes asked for (all that are
\* allowed, when none is), those the client is allowed.
BeginAuthorize(h, u, c, asked) ==
  LET scopes == IF asked = {} THEN allowed[c] ELSE asked \cap allowed[c]
  IN  /\ client[c] = "enabled" /\ scopes # {}
      /\ Begin(h, "authorize", [Idle EXCEPT !.pc = "find", !.user = u, !.client = c, !.scopes = scopes])

\* The consent that is on file covers one of the scopes.
FindSome(h) ==
  LET j == job[h]
  IN  /\ At(h, "find")
      /\ IF consent[j.user][j.client] \cap j.scopes # {}
           THEN Go(h, [j EXCEPT !.pc = "mintCode"])
           ELSE End(h)
      /\ UNCHANGED <<clients, grants, code, codes, tokens, access, bounds>>

\* OAuthConsentService.find; without a hit the consent page is shown.
Find(h) ==
  LET j == job[h]
  IN  /\ At(h, "find")
      /\ IF j.scopes \subseteq consent[j.user][j.client]
           THEN Go(h, [j EXCEPT !.pc = "mintCode"])
           ELSE End(h)
      /\ UNCHANGED <<clients, grants, code, codes, tokens, access, bounds>>

\* POST /oauth/authorize/consent, the user allowing.
BeginConsent(h, u, c, asked) ==
  LET scopes == asked \cap allowed[c]
  IN  /\ client[c] = "enabled" /\ scopes # {}
      /\ Begin(h, "consent", [Idle EXCEPT !.pc = "record", !.user = u, !.client = c, !.scopes = scopes])

\* OAuthConsentService.record: the scopes replace those of the row.
Record(h) ==
  LET j == job[h]
  IN  /\ At(h, "record")
      /\ IF Deleted(h)
           THEN End(h) /\ UNCHANGED grants
           ELSE /\ Go(h, [j EXCEPT !.pc = "mintCode"])
                /\ consent' = [consent EXCEPT ![j.user][j.client] = j.scopes]
                /\ granted' = [granted EXCEPT ![j.user][j.client] = @ \cup j.scopes]
      /\ UNCHANGED <<clients, code, codes, tokens, access, bounds>>

\* OAuthCodeService.mint.
MintCode(h) ==
  LET j == job[h]
  IN  /\ At(h, "mintCode")
      /\ End(h)
      /\ IF Deleted(h)
           THEN UNCHANGED <<code, codes>>
           ELSE /\ codes < MaxCodes
                /\ codes' = codes + 1
                /\ code' = [code EXCEPT ![codes + 1] =
                     [client |-> j.client, user |-> j.user, scopes |-> j.scopes,
                      expires |-> now + CodeTtl, consumed |-> FALSE]]
      /\ UNCHANGED <<clients, grants, tokens, access, bounds>>

----------------------------------------------------------------------------
\* POST /oauth/token, authorization_code, for client c, whose secret is right.
BeginExchange(h, c, k) ==
  /\ client[c] = "enabled" /\ k <= codes
  /\ Begin(h, "exchange", [Idle EXCEPT !.pc = "consume", !.client = c, !.code = k])

\* The request goes on with the tokens for code k, or without.
Exchange(h, go) ==
  LET j == job[h]  k == code[j.code]
  IN  IF go THEN Go(h, [j EXCEPT !.pc = "issue", !.user = k.user, !.scopes = k.scopes])
            ELSE End(h)

\* Without the check that the code was not consumed.
ConsumeAgain(h) ==
  LET k == code[job[h].code]
  IN  /\ At(h, "consume")
      /\ IF Exists(k) /\ k.expires > now
           THEN /\ code' = [code EXCEPT ![job[h].code].consumed = TRUE]
                /\ Exchange(h, k.client = job[h].client)
           ELSE End(h) /\ UNCHANGED code
      /\ UNCHANGED <<clients, grants, codes, tokens, access, bounds>>

\* Without the check that the code is the client's.
ConsumeForAny(h) ==
  LET k == code[job[h].code]
  IN  /\ At(h, "consume")
      /\ IF Exists(k) /\ k.expires > now /\ ~k.consumed
           THEN /\ code' = [code EXCEPT ![job[h].code].consumed = TRUE]
                /\ Exchange(h, TRUE)
           ELSE End(h) /\ UNCHANGED code
      /\ UNCHANGED <<clients, grants, codes, tokens, access, bounds>>

\* OAuthCodeService.consume; then the route compares the clients, the code being
\* spent even if they differ.
Consume(h) ==
  LET k == code[job[h].code]
  IN  /\ At(h, "consume")
      /\ IF Exists(k) /\ k.expires > now /\ ~k.consumed
           THEN /\ code' = [code EXCEPT ![job[h].code].consumed = TRUE]
                /\ Exchange(h, k.client = job[h].client)
           ELSE End(h) /\ UNCHANGED code
      /\ UNCHANGED <<clients, grants, codes, tokens, access, bounds>>

\* POST /oauth/token, client_credentials.
BeginClient(h, c, asked) ==
  LET scopes == IF asked = {} THEN allowed[c] ELSE asked \cap allowed[c]
  IN  /\ client[c] = "enabled" /\ (asked = {} \/ scopes # {})
      /\ Begin(h, "client", [Idle EXCEPT !.pc = "issue", !.client = c, !.scopes = scopes])

\* The OAuthAccessToken that a request inserts.
AccessOf(j) == [user |-> j.user, client |-> j.client, scopes |-> j.scopes, code |-> j.code]

\* OAuthTokenService.issue and issueForUser. A code's exchange goes on to the
\* refresh token.
Issue(h) ==
  LET j == job[h]
  IN  /\ At(h, "issue")
      /\ access' = IF Deleted(h) THEN access ELSE access \cup {AccessOf(j)}
      /\ IF ~Deleted(h) /\ j.code # None THEN Go(h, [j EXCEPT !.pc = "mintRefresh"]) ELSE End(h)
      /\ UNCHANGED <<clients, grants, code, codes, tokens, bounds>>

\* The OAuthRefreshToken that a request inserts.
RefreshOf(j, root) ==
  [client |-> j.client, user |-> j.user, scopes |-> j.scopes, expires |-> now + RefreshTtl,
   revoked |-> FALSE, next |-> None, code |-> j.code, root |-> root]

\* OAuthRefreshService.mint.
MintRefresh(h) ==
  /\ At(h, "mintRefresh")
  /\ End(h)
  /\ IF Deleted(h)
       THEN UNCHANGED tokens
       ELSE /\ refreshes < MaxRefresh
            /\ refreshes' = refreshes + 1
            /\ refresh' = [refresh EXCEPT ![refreshes + 1] = RefreshOf(job[h], TRUE)]
            /\ given' = given \cup {refreshes + 1}
  /\ UNCHANGED <<clients, grants, code, codes, access, bounds>>

----------------------------------------------------------------------------
\* POST /oauth/token, refresh_token, for a client whose secret is right. It need
\* not be the token's.
BeginRefresh(h, c, r) ==
  /\ client[c] = "enabled"
  /\ r \in given
  /\ Begin(h, "refresh", [Idle EXCEPT !.pc = "rotate", !.token = r])

\* OAuthRefreshService.rotate reads the row and judges it, outside the transaction.
Rotate(h) ==
  LET j == job[h]  row == refresh[j.token]
  IN  /\ At(h, "rotate")
      /\ IF ~Exists(row) \/ client[row.client] # "enabled"
           THEN End(h)
         ELSE IF row.next # None
           THEN Go(h, [j EXCEPT !.pc = "walk", !.at = j.token])
         ELSE IF row.revoked \/ row.expires <= now
           THEN End(h)
         ELSE Go(h, [j EXCEPT !.pc = "replace", !.user = row.user, !.client = row.client,
                              !.scopes = row.scopes, !.code = row.code])
      /\ UNCHANGED <<clients, grants, code, codes, tokens, access, bounds>>

\* The old token is not marked.
ReplaceKeeping(h) ==
  LET j == job[h]
  IN  /\ At(h, "replace")
      /\ IF Deleted(h)
           THEN End(h) /\ UNCHANGED tokens
           ELSE /\ refreshes < MaxRefresh
                /\ refreshes' = refreshes + 1
                /\ refresh' = [refresh EXCEPT ![refreshes + 1] = RefreshOf(j, FALSE)]
                /\ Go(h, [j EXCEPT !.pc = "issueNext", !.next = refreshes + 1])
                /\ UNCHANGED given
      /\ UNCHANGED <<clients, grants, code, codes, access, bounds>>

\* The transaction of rotate: the new token is inserted and the old one marked as
\* replaced by it, whatever became of the old one since it was read.
Replace(h) ==
  LET j == job[h]
  IN  /\ At(h, "replace")
      /\ IF Deleted(h)
           THEN End(h) /\ UNCHANGED tokens
           ELSE /\ refreshes < MaxRefresh
                /\ refreshes' = refreshes + 1
                /\ refresh' = [refresh EXCEPT ![refreshes + 1] = RefreshOf(j, FALSE),
                                              ![j.token].next = refreshes + 1]
                /\ Go(h, [j EXCEPT !.pc = "issueNext", !.next = refreshes + 1])
                /\ UNCHANGED given
      /\ UNCHANGED <<clients, grants, code, codes, access, bounds>>

\* The rest of rotate: the access token, and the answer with both.
IssueNext(h) ==
  LET j == job[h]
  IN  /\ At(h, "issueNext")
      /\ End(h)
      /\ IF Deleted(h)
           THEN UNCHANGED <<access, given>>
           ELSE access' = access \cup {AccessOf(j)} /\ given' = given \cup {j.next}
      /\ UNCHANGED <<clients, grants, code, codes, refresh, refreshes, bounds>>

\* The walk goes past the last token of the chain.
WalkPast(h) ==
  LET j == job[h]
  IN  /\ At(h, "walk")
      /\ Go(h, [j EXCEPT !.chain = @ \cup {j.at}, !.at = refresh[j.at].next])
      /\ UNCHANGED <<clients, grants, code, codes, tokens, access, bounds>>

\* The walk does not leave the token that was presented.
WalkNowhere(h) ==
  LET j == job[h]
  IN  /\ At(h, "walk")
      /\ Go(h, [j EXCEPT !.pc = "revoke", !.chain = @ \cup {j.at}, !.at = None])
      /\ UNCHANGED <<clients, grants, code, codes, tokens, access, bounds>>

\* The walk reads the same token again and again.
WalkInPlace(h) ==
  LET j == job[h]
  IN  /\ At(h, "walk")
      /\ Go(h, [j EXCEPT !.chain = @ \cup {j.at}])
      /\ UNCHANGED <<clients, grants, code, codes, tokens, access, bounds>>

\* One turn of revokeChain's loop: a token is read and the walk goes on with the
\* one that replaced it, until there is none, or it was visited.
Walk(h) ==
  LET j    == job[h]
      seen == j.chain \cup {j.at}
      next == refresh[j.at].next
  IN  /\ At(h, "walk")
      /\ IF next # None /\ next \notin seen
           THEN Go(h, [j EXCEPT !.chain = seen, !.at = next])
           ELSE Go(h, [j EXCEPT !.pc = "revoke", !.chain = seen, !.at = None])
      /\ UNCHANGED <<clients, grants, code, codes, tokens, access, bounds>>

\* revokeChain's transaction: those that were visited are revoked, if they are
\* still there.
RevokeChain(h) ==
  /\ At(h, "revoke")
  /\ End(h)
  /\ refresh' = [r \in RefreshIds |->
       IF r \in job[h].chain /\ Exists(refresh[r]) THEN [refresh[r] EXCEPT !.revoked = TRUE]
                                                   ELSE refresh[r]]
  /\ UNCHANGED <<clients, grants, code, codes, refreshes, given, access, bounds>>

----------------------------------------------------------------------------
\* An administrator's request is one transaction.
Administer(op) ==
  /\ op \in Ops /\ ops < MaxOps
  /\ ops' = ops + 1
  /\ UNCHANGED <<job, given, codes, refreshes, granted, now, fails, races>>

\* OAuthClientService.disable.
Disable(c) ==
  /\ client[c] # "deleted"
  /\ Administer("disable")
  /\ client' = [client EXCEPT ![c] = "disabled"]
  /\ UNCHANGED <<allowed, consent, code, refresh, access>>

\* OAuthClientService.delete: the client's codes, tokens and consents go with it.
Delete(c) ==
  /\ client[c] # "deleted"
  /\ Administer("delete")
  /\ client' = [client EXCEPT ![c] = "deleted"]
  /\ consent' = [u \in Users |-> [consent[u] EXCEPT ![c] = {}]]
  /\ code' = [k \in CodeIds |-> IF code[k].client = c THEN NoCode ELSE code[k]]
  /\ refresh' = [r \in RefreshIds |-> IF refresh[r].client = c THEN NoRefresh ELSE refresh[r]]
  /\ access' = {a \in access : a.client # c}
  /\ UNCHANGED allowed

\* OAuthClientService.update of allowed_scopes.
Update(c, scopes) ==
  /\ client[c] # "deleted"
  /\ Administer("update")
  /\ allowed' = [allowed EXCEPT ![c] = scopes]
  /\ UNCHANGED <<client, consent, code, refresh, access>>

----------------------------------------------------------------------------
\* A statement of a request fails: what is behind it is not done, what is before
\* it stays.
Fails(h) ==
  /\ ~At(h, "idle") /\ races + fails < MaxMishaps
  /\ fails' = fails + 1
  /\ End(h)
  /\ UNCHANGED <<clients, grants, code, codes, tokens, access, now, ops, races>>

\* The process crashes and starts again: the requests are gone.
Crash ==
  /\ races + fails < MaxMishaps
  /\ fails' = fails + 1
  /\ job' = [h \in Handlers |-> Idle]
  /\ UNCHANGED <<clients, grants, code, codes, tokens, access, now, ops, races>>

Tick ==
  /\ now < MaxNow
  /\ now' = now + 1
  /\ UNCHANGED <<clients, grants, code, codes, tokens, access, job, ops, fails, races>>

----------------------------------------------------------------------------
\* The next statement of a request.
Step(h) ==
  \/ Find(h) \/ Record(h) \/ MintCode(h)
  \/ Consume(h) \/ Issue(h) \/ MintRefresh(h)
  \/ Rotate(h) \/ Replace(h) \/ IssueNext(h)
  \/ Walk(h) \/ RevokeChain(h)

Start(h) ==
  \E c \in Clients :
    \/ \E asked \in ScopeSets :
         \/ \E u \in Users : BeginAuthorize(h, u, c, asked) \/ BeginConsent(h, u, c, asked)
         \/ BeginClient(h, c, asked)
    \/ \E k \in CodeIds : BeginExchange(h, c, k)
    \/ \E r \in RefreshIds : BeginRefresh(h, c, r)

Next ==
  \/ \E h \in Handlers : Start(h) \/ Step(h) \/ Fails(h)
  \/ \E c \in Clients :
       Disable(c) \/ Delete(c) \/ \E scopes \in ScopeSets : Update(c, scopes)
  \/ Crash
  \/ Tick

Spec == Init /\ [][Next]_vars

\* A statement that was sent is answered and the request goes on.
FairSpec == Spec /\ \A h \in Handlers : WF_vars(Step(h))

----------------------------------------------------------------------------
Points == {"idle", "find", "record", "mintCode", "consume", "issue", "mintRefresh",
           "rotate", "replace", "issueNext", "walk", "revoke"}

Code    == [client : Clients, user : Users, scopes : SUBSET Scopes, expires : Nat,
            consumed : BOOLEAN]
Refresh == [client : Clients, user : Users, scopes : SUBSET Scopes, expires : Nat,
            revoked : BOOLEAN, next : RefreshIds \cup {None}, code : CodeIds, root : BOOLEAN]
Access  == [user : Users \cup {NoUser}, client : Clients, scopes : SUBSET Scopes,
            code : CodeIds \cup {None}]
Job     == [pc : Points, user : Users \cup {NoUser}, client : Clients \cup {NoClient},
            scopes : SUBSET Scopes, code : CodeIds \cup {None}, token : RefreshIds \cup {None},
            next : RefreshIds \cup {None}, at : RefreshIds \cup {None}, chain : SUBSET RefreshIds]

\* Points at which a request is for a client, and for a user; at which it has a
\* code, and a refresh token.
ForClient == {"find", "record", "mintCode", "consume", "issue", "mintRefresh", "replace", "issueNext"}
ForUser   == {"find", "record", "mintCode", "mintRefresh", "replace", "issueNext"}
OnCode    == {"consume", "mintRefresh", "replace", "issueNext"}
OnToken   == {"rotate", "replace", "issueNext"}

\* What the next statement of a request needs.
JobOK(j) ==
  /\ j \in Job
  /\ j.pc \in ForClient => j.client \in Clients
  /\ j.pc \in ForUser => j.user \in Users
  /\ j.pc \in OnCode => j.code \in CodeIds
  /\ j.pc \in OnToken => j.token \in RefreshIds
  /\ j.pc = "issue" => (j.user = NoUser <=> j.code = None)
  /\ j.pc = "issueNext" => j.next \in RefreshIds
  /\ j.pc = "walk" => j.at \in RefreshIds

TypeOK ==
  /\ client \in [Clients -> {"enabled", "disabled", "deleted"}]
  /\ allowed \in [Clients -> SUBSET Scopes]
  /\ consent \in [Users -> [Clients -> SUBSET Scopes]]
  /\ granted \in [Users -> [Clients -> SUBSET Scopes]]
  /\ code \in [CodeIds -> Code \cup {NoCode}]
  /\ codes \in 0..MaxCodes
  /\ refresh \in [RefreshIds -> Refresh \cup {NoRefresh}]
  /\ refreshes \in 0..MaxRefresh
  /\ access \subseteq Access
  /\ now \in Nat
  /\ job \in [Handlers -> Job]
  /\ \A h \in Handlers : JobOK(job[h])
  /\ given \subseteq RefreshIds
  /\ ops \in Nat /\ fails \in Nat /\ races \in Nat

\* A code, an access token and a refresh token give a client no scope for a user
\* that this user has not consented to for this client, however consents are
\* replaced, clients changed and tokens rotated meanwhile.
ScopesConsented ==
  \A row \in {code[k] : k \in CodeIds} \cup {refresh[r] : r \in RefreshIds} \cup access :
    row.user # NoUser => row.scopes \subseteq granted[row.user][row.client]

\* A code is turned into one set of tokens, by one exchange.
CodeYieldsOneSet ==
  \A r, s \in RefreshIds :
    Exists(refresh[r]) /\ Exists(refresh[s]) /\ refresh[r].root /\ refresh[s].root
      /\ refresh[r].code = refresh[s].code => r = s

\* Every token of a code's chain, down to the last rotation, is for the client,
\* the user and the scopes of that code.
TokensFollowCode ==
  \A row \in {refresh[r] : r \in RefreshIds} \cup access :
    row.code # None =>
      LET k == code[row.code]
      IN  k.consumed /\ row.client = k.client /\ row.user = k.user /\ row.scopes = k.scopes

\* A chain has one token that can be rotated, and none once a token of it was
\* revoked, but for one more at most for every request that began while another was
\* under way: rotate judges its token before the transaction that replaces it, and
\* revokeChain walks before the transaction that revokes.
UsableBounded ==
  \A k \in CodeIds :
    Cardinality(UsableIn(k)) <= races + IF Revoked(k) THEN 0 ELSE 1

\* Replaying an old refresh token revokes the entire chain: the user must
\* authorize again.  A chain of which a token was revoked has none left that
\* is usable.
ReplayEndsChain ==
  \A k \in CodeIds : \A r \in Chain(k) : Revoked(k) => ~Usable(r)

\* Every request comes to an end, the walk along a chain included.
RequestsEnd == \A h \in Handlers : job[h].pc # "idle" ~> job[h].pc = "idle"
============================================================================
