------------------------- MODULE OAuthGrants_proofs -------------------------
(***************************************************************************)
(* However requests interleave, fail and crash: codes and tokens carry only *)
(* scopes that their user consented to, a code becomes one set of tokens,   *)
(* every token of a chain follows the code it began with, and a chain has   *)
(* no more usable tokens than requests have overlapped, and one.  As long as *)
(* none has overlapped, a replay therefore leaves none.                     *)
(***************************************************************************)
EXTENDS OAuthGrants, TLAPS, FiniteSetTheorems

-----------------------------------------------------------------------------
(* The inductive invariant, of every interleaving *)

\* Points at which a request issues tokens, and at which it hands out scopes.
Issuing == {"issue", "mintRefresh", "replace", "issueNext"}
Handing == Issuing \cup {"mintCode"}

\* The client of a request is there: otherwise nothing more is inserted.
Present(j) == client[j.client] # "deleted"

\* A request about to replace a token has one of its own client and chain.
OwnOK(j) ==
  j.pc = "replace" /\ Present(j) =>
    /\ Exists(refresh[j.token])
    /\ refresh[j.token].client = j.client
    /\ refresh[j.token].code = j.code

\* A request about to hand out scopes has the user's consent.
ConsentedOK(j) ==
  j.pc \in Handing /\ j.user # NoUser => j.scopes \subseteq granted[j.user][j.client]

\* A row, or a request that issues tokens, is for the client, the user and the
\* scopes of the code it has, which is consumed.
Follows(row) ==
  row.code # None =>
    LET k == code[row.code]
    IN  k.consumed /\ row.client = k.client /\ row.user = k.user /\ row.scopes = k.scopes
FollowsOK(j) == j.pc \in Issuing /\ Present(j) => Follows(j)

\* j exchanges code k, which has no refresh token yet.
Exchanges(j, k) == j.pc \in {"issue", "mintRefresh"} /\ j.code = k /\ Present(j)

OneExchange ==
  \A k \in CodeIds, h \in Handlers : Exchanges(job[h], k) =>
    /\ Chain(k) = {}
    /\ \A g \in Handlers : Exchanges(job[g], k) => g = h

ConsentsGranted == \A u \in Users, c \in Clients : consent[u][c] \subseteq granted[u][c]

IdsInOrder ==
  /\ \A k \in CodeIds : k > codes => code[k] = NoCode
  /\ \A r \in RefreshIds : r > refreshes => refresh[r] = NoRefresh

JobsOK == \A h \in Handlers : OwnOK(job[h]) /\ ConsentedOK(job[h]) /\ FollowsOK(job[h])

IInv ==
  /\ TypeOK
  /\ IdsInOrder
  /\ JobsOK
  /\ ConsentsGranted
  /\ ScopesConsented
  /\ TokensFollowCode
  /\ CodeYieldsOneSet
  /\ OneExchange

-----------------------------------------------------------------------------
(* Type correctness *)

LEMMA GoKeepsJobs ==
  ASSUME TypeOK, NEW h \in Handlers, NEW j, JobOK(j), Go(h, j)
  PROVE  /\ job' \in [Handlers -> Job]
         /\ \A g \in Handlers : JobOK(job'[g])
BY DEF TypeOK, Go, JobOK

LEMMA IdleOK == JobOK(Idle) /\ Idle.pc = "idle"
BY DEF Idle, JobOK, Job, Points, ForClient, ForUser, OnCode, OnToken, None

LEMMA EndKeepsJobs ==
  ASSUME TypeOK, NEW h \in Handlers, End(h)
  PROVE  /\ job' \in [Handlers -> Job]
         /\ \A g \in Handlers : JobOK(job'[g])
BY GoKeepsJobs, IdleOK DEF End

\* What a step that writes no table keeps.
LEMMA TablesKept ==
  ASSUME TypeOK, UNCHANGED <<clients, grants, code, codes, tokens, access>>,
         now' \in Nat, ops' \in Nat, fails' \in Nat, races' \in Nat,
         job' \in [Handlers -> Job], \A g \in Handlers : JobOK(job'[g])
  PROVE  TypeOK'
BY DEF TypeOK, clients, grants, tokens, JobOK

LEMMA InitTypeOK == ASSUME Init PROVE TypeOK
<1>1. code \in [CodeIds -> Code \cup {NoCode}] /\ refresh \in [RefreshIds -> Refresh \cup {NoRefresh}]
  BY DEF Init
<1>2. job \in [Handlers -> Job] /\ \A h \in Handlers : JobOK(job[h])
  BY IdleOK DEF Init, JobOK
<1>3. codes \in 0..MaxCodes /\ refreshes \in 0..MaxRefresh
  BY OAuthAssumption DEF Init
<1> QED BY <1>1, <1>2, <1>3 DEF Init, TypeOK

\* The records of new requests.
LEMMA StartsOK ==
  ASSUME NEW c \in Clients, NEW scopes \in SUBSET Scopes
  PROVE  /\ \A u \in Users, pc \in {"find", "record"} :
              JobOK([Idle EXCEPT !.pc = pc, !.user = u, !.client = c, !.scopes = scopes])
         /\ JobOK([Idle EXCEPT !.pc = "issue", !.client = c, !.scopes = scopes])
         /\ \A k \in CodeIds : JobOK([Idle EXCEPT !.pc = "consume", !.client = c, !.code = k])
         /\ \A r \in RefreshIds : JobOK([Idle EXCEPT !.pc = "rotate", !.token = r])
<1> USE DEF Idle, JobOK, Job, Points, ForClient, ForUser, OnCode, OnToken, None
<1>1. ASSUME NEW u \in Users
      PROVE  /\ JobOK([Idle EXCEPT !.pc = "find", !.user = u, !.client = c, !.scopes = scopes])
             /\ JobOK([Idle EXCEPT !.pc = "record", !.user = u, !.client = c, !.scopes = scopes])
  OBVIOUS
<1>2. JobOK([Idle EXCEPT !.pc = "issue", !.client = c, !.scopes = scopes])
  OBVIOUS
<1>3. ASSUME NEW k \in CodeIds PROVE JobOK([Idle EXCEPT !.pc = "consume", !.client = c, !.code = k])
  OBVIOUS
<1>4. ASSUME NEW r \in RefreshIds PROVE JobOK([Idle EXCEPT !.pc = "rotate", !.token = r])
  OBVIOUS
<1> HIDE DEF Idle, JobOK
<1> QED BY <1>1, <1>2, <1>3, <1>4

LEMMA BeginTypeOK ==
  ASSUME TypeOK, NEW h \in Handlers, NEW op, NEW j, JobOK(j), Begin(h, op, j) PROVE TypeOK'
<1>1. job' \in [Handlers -> Job] /\ \A g \in Handlers : JobOK(job'[g])
  BY GoKeepsJobs DEF Begin
<1>2. ops' \in Nat
  BY DEF Begin, TypeOK
<1> QED BY <1>1, <1>2, TablesKept DEF Begin, TypeOK

LEMMA StartTypeOK == ASSUME TypeOK, NEW h \in Handlers, Start(h) PROVE TypeOK'
<1> PICK c \in Clients :
      \/ \E asked \in ScopeSets :
           \/ \E u \in Users : BeginAuthorize(h, u, c, asked) \/ BeginConsent(h, u, c, asked)
           \/ BeginClient(h, c, asked)
      \/ \E k \in CodeIds : BeginExchange(h, c, k)
      \/ \E r \in RefreshIds : BeginRefresh(h, c, r)
  BY DEF Start
<1>1. allowed[c] \in SUBSET Scopes
  BY DEF TypeOK
<1>2. ASSUME NEW asked \in SUBSET Scopes, NEW u \in Users, BeginAuthorize(h, u, c, asked) PROVE TypeOK'
  BY <1>1, <1>2, StartsOK, BeginTypeOK DEF BeginAuthorize
<1>3. ASSUME NEW asked \in SUBSET Scopes, NEW u \in Users, BeginConsent(h, u, c, asked) PROVE TypeOK'
  BY <1>1, <1>3, StartsOK, BeginTypeOK DEF BeginConsent
<1>4. ASSUME NEW asked \in SUBSET Scopes, BeginClient(h, c, asked) PROVE TypeOK'
  BY <1>1, <1>4, StartsOK, BeginTypeOK DEF BeginClient
<1>5. ASSUME NEW k \in CodeIds, BeginExchange(h, c, k) PROVE TypeOK'
  BY <1>1, <1>5, StartsOK, BeginTypeOK DEF BeginExchange
<1>6. ASSUME NEW r \in RefreshIds, BeginRefresh(h, c, r) PROVE TypeOK'
  BY <1>1, <1>6, StartsOK, BeginTypeOK DEF BeginRefresh
<1> QED BY OAuthAssumption, <1>2, <1>3, <1>4, <1>5, <1>6

\* The records that the steps of a request make of its own.
LEMMA StepsOK ==
  ASSUME NEW j, JobOK(j)
  PROVE  /\ j.pc \in {"find", "record"} => JobOK([j EXCEPT !.pc = "mintCode"])
         /\ j.pc = "consume" => \A u \in Users, s \in SUBSET Scopes :
              JobOK([j EXCEPT !.pc = "issue", !.user = u, !.scopes = s])
         /\ j.pc = "issue" /\ j.code # None => JobOK([j EXCEPT !.pc = "mintRefresh"])
         /\ j.pc = "rotate" =>
              /\ JobOK([j EXCEPT !.pc = "walk", !.at = j.token])
              /\ \A u \in Users, c \in Clients, s \in SUBSET Scopes, k \in CodeIds :
                   JobOK([j EXCEPT !.pc = "replace", !.user = u, !.client = c, !.scopes = s, !.code = k])
         /\ j.pc = "replace" => \A r \in RefreshIds : JobOK([j EXCEPT !.pc = "issueNext", !.next = r])
         /\ j.pc = "walk" => \A r \in RefreshIds :
              /\ JobOK([j EXCEPT !.chain = j.chain \cup {j.at}, !.at = r])
              /\ JobOK([j EXCEPT !.pc = "revoke", !.chain = j.chain \cup {j.at}, !.at = None])
<1> USE DEF JobOK, Job, Points, ForClient, ForUser, OnCode, OnToken
<1>1. ASSUME j.pc \in {"find", "record"} PROVE JobOK([j EXCEPT !.pc = "mintCode"])
  BY <1>1
<1>2. ASSUME j.pc = "consume", NEW u \in Users, NEW s \in SUBSET Scopes
      PROVE  JobOK([j EXCEPT !.pc = "issue", !.user = u, !.scopes = s])
  <2>1. j.code # None
    BY <1>2 DEF CodeIds, None
  <2>2. u # NoUser
    BY OAuthAssumption
  <2> QED BY <1>2, <2>1, <2>2
<1>3. ASSUME j.pc = "issue", j.code # None PROVE JobOK([j EXCEPT !.pc = "mintRefresh"])
  BY <1>3
<1>4. ASSUME j.pc = "rotate" PROVE JobOK([j EXCEPT !.pc = "walk", !.at = j.token])
  BY <1>4
<1>5. ASSUME j.pc = "rotate", NEW u \in Users, NEW c \in Clients, NEW s \in SUBSET Scopes, NEW k \in CodeIds
      PROVE  JobOK([j EXCEPT !.pc = "replace", !.user = u, !.client = c, !.scopes = s, !.code = k])
  BY <1>5
<1>6. ASSUME j.pc = "replace", NEW r \in RefreshIds
      PROVE  JobOK([j EXCEPT !.pc = "issueNext", !.next = r])
  BY <1>6
<1>7. ASSUME j.pc = "walk", NEW r \in RefreshIds
      PROVE  JobOK([j EXCEPT !.chain = j.chain \cup {j.at}, !.at = r])
  BY <1>7
<1>8. ASSUME j.pc = "walk"
      PROVE  JobOK([j EXCEPT !.pc = "revoke", !.chain = j.chain \cup {j.at}, !.at = None])
  BY <1>8
<1> HIDE DEF JobOK
<1> QED BY <1>1, <1>2, <1>3, <1>4, <1>5, <1>6, <1>7, <1>8

\* A request that is at one of its statements, and rows that exist.
LEMMA JobTyped ==
  ASSUME TypeOK, NEW h \in Handlers
  PROVE  JobOK(job[h]) /\ job[h] \in Job
BY DEF TypeOK

LEMMA RowsTyped ==
  ASSUME TypeOK
  PROVE  /\ \A k \in CodeIds : Exists(code[k]) => code[k] \in Code
         /\ \A r \in RefreshIds : Exists(refresh[r]) => refresh[r] \in Refresh
BY DEF TypeOK, Exists, NoCode, NoRefresh

LEMMA FindTypeOK == ASSUME TypeOK, NEW h \in Handlers, Find(h) PROVE TypeOK'
<1>1. job' \in [Handlers -> Job] /\ \A g \in Handlers : JobOK(job'[g])
  BY JobTyped, StepsOK, GoKeepsJobs, EndKeepsJobs DEF Find, At
<1> QED BY <1>1, TablesKept DEF Find, bounds, TypeOK

LEMMA RecordTypeOK == ASSUME TypeOK, NEW h \in Handlers, Record(h) PROVE TypeOK'
<1>1. job' \in [Handlers -> Job] /\ \A g \in Handlers : JobOK(job'[g])
  BY JobTyped, StepsOK, GoKeepsJobs, EndKeepsJobs DEF Record, At
<1>2. job[h].user \in Users /\ job[h].client \in Clients /\ job[h].scopes \in SUBSET Scopes
  BY JobTyped DEF Record, At, JobOK, Job, ForClient, ForUser
<1>3. /\ consent' \in [Users -> [Clients -> SUBSET Scopes]]
      /\ granted' \in [Users -> [Clients -> SUBSET Scopes]]
  <2>1. CASE Deleted(h)
    BY <2>1 DEF Record, TypeOK, grants
  <2>2. CASE ~Deleted(h)
    <3> DEFINE u == job[h].user
               c == job[h].client
               s == job[h].scopes
    <3>1. /\ consent' = [consent EXCEPT ![u][c] = s]
          /\ granted' = [granted EXCEPT ![u][c] = granted[u][c] \cup s]
      BY <2>2 DEF Record
    <3>2. consent[u] \in [Clients -> SUBSET Scopes] /\ granted[u] \in [Clients -> SUBSET Scopes]
      BY <1>2 DEF TypeOK
    <3> HIDE DEF u, c, s
    <3>3. granted[u][c] \cup s \in SUBSET Scopes
      BY <1>2, <3>2 DEF u, c, s
    <3> QED BY <1>2, <3>1, <3>2, <3>3 DEF TypeOK, u, c, s
  <2> QED BY <2>1, <2>2
<1> QED BY <1>1, <1>3 DEF Record, TypeOK, clients, tokens, bounds

LEMMA MintCodeTypeOK == ASSUME TypeOK, NEW h \in Handlers, MintCode(h) PROVE TypeOK'
<1> DEFINE row == [client |-> job[h].client, user |-> job[h].user, scopes |-> job[h].scopes,
                   expires |-> now + CodeTtl, consumed |-> FALSE]
<1>1. job' \in [Handlers -> Job] /\ \A g \in Handlers : JobOK(job'[g])
  BY EndKeepsJobs DEF MintCode
<1>2. job[h].user \in Users /\ job[h].client \in Clients /\ job[h].scopes \in SUBSET Scopes
  BY JobTyped DEF MintCode, At, JobOK, Job, ForClient, ForUser
<1>3. row \in Code
  BY <1>2, OAuthAssumption DEF Code, TypeOK
<1>4. code' \in [CodeIds -> Code \cup {NoCode}] /\ codes' \in 0..MaxCodes
  <2>1. CASE Deleted(h)
    BY <2>1 DEF MintCode, TypeOK
  <2>2. CASE ~Deleted(h)
    <3>1. code' = [code EXCEPT ![codes + 1] = row] /\ codes < MaxCodes /\ codes' = codes + 1
      BY <2>2 DEF MintCode
    <3> HIDE DEF row
    <3>2. codes' \in 0..MaxCodes
      BY <3>1, OAuthAssumption DEF TypeOK
    <3>3. code' \in [CodeIds -> Code \cup {NoCode}]
      BY <1>3, <3>1 DEF TypeOK
    <3> QED BY <3>2, <3>3
  <2> QED BY <2>1, <2>2
<1> QED BY <1>1, <1>4 DEF MintCode, TypeOK, clients, grants, tokens, bounds

LEMMA ConsumeTypeOK == ASSUME TypeOK, NEW h \in Handlers, Consume(h) PROVE TypeOK'
<1> DEFINE k == job[h].code
<1>1. k \in CodeIds
  BY JobTyped DEF Consume, At, JobOK, OnCode
<1>2. job' \in [Handlers -> Job] /\ \A g \in Handlers : JobOK(job'[g])
  <2>1. CASE End(h)
    BY <2>1, EndKeepsJobs
  <2>2. CASE /\ Exists(code[k])
             /\ Go(h, [job[h] EXCEPT !.pc = "issue", !.user = code[k].user, !.scopes = code[k].scopes])
    <3>1. code[k].user \in Users /\ code[k].scopes \in SUBSET Scopes
      BY <1>1, <2>2, RowsTyped DEF Code
    <3> QED BY <2>2, <3>1, JobTyped, StepsOK, GoKeepsJobs DEF Consume, At
  <2> QED BY <2>1, <2>2 DEF Consume, Exchange
<1>3. code' \in [CodeIds -> Code \cup {NoCode}]
  <2>1. CASE Exists(code[k]) /\ code' = [code EXCEPT ![k].consumed = TRUE]
    <3>1. [code[k] EXCEPT !.consumed = TRUE] \in Code
      BY <1>1, <2>1, RowsTyped DEF Code
    <3> QED BY <1>1, <2>1, <3>1 DEF TypeOK
  <2> QED BY <2>1 DEF Consume, TypeOK
<1> QED BY <1>2, <1>3 DEF Consume, TypeOK, clients, grants, tokens, bounds

\* What an access token is made of.
LEMMA AccessTyped ==
  ASSUME TypeOK, NEW h \in Handlers, job[h].pc \in {"issue", "issueNext"}
  PROVE  AccessOf(job[h]) \in Access
BY JobTyped DEF JobOK, Job, AccessOf, Access, ForClient, ForUser

LEMMA IssueTypeOK == ASSUME TypeOK, NEW h \in Handlers, Issue(h) PROVE TypeOK'
<1>1. job' \in [Handlers -> Job] /\ \A g \in Handlers : JobOK(job'[g])
  BY JobTyped, StepsOK, GoKeepsJobs, EndKeepsJobs DEF Issue, At
<1>2. access' \subseteq Access
  BY AccessTyped DEF Issue, At, TypeOK
<1> QED BY <1>1, <1>2 DEF Issue, TypeOK, clients, grants, tokens, bounds

\* What a refresh token is made of.
LEMMA RefreshTyped ==
  ASSUME TypeOK, NEW h \in Handlers, job[h].pc \in {"mintRefresh", "replace"}, NEW root \in BOOLEAN
  PROVE  RefreshOf(job[h], root) \in Refresh
<1>1. /\ job[h].user \in Users /\ job[h].client \in Clients
      /\ job[h].scopes \in SUBSET Scopes /\ job[h].code \in CodeIds
  BY JobTyped DEF JobOK, Job, ForClient, ForUser, OnCode
<1>2. now + RefreshTtl \in Nat
  BY OAuthAssumption DEF TypeOK
<1> QED BY <1>1, <1>2 DEF RefreshOf, Refresh

LEMMA MintRefreshTypeOK == ASSUME TypeOK, NEW h \in Handlers, MintRefresh(h) PROVE TypeOK'
<1> DEFINE row == RefreshOf(job[h], TRUE)
<1>1. job' \in [Handlers -> Job] /\ \A g \in Handlers : JobOK(job'[g])
  BY EndKeepsJobs DEF MintRefresh
<1>2. row \in Refresh
  BY RefreshTyped DEF MintRefresh, At
<1>3. CASE Deleted(h)
  BY <1>1, <1>3 DEF MintRefresh, TypeOK, clients, grants, tokens, bounds
<1>4. CASE ~Deleted(h)
  <2>1. /\ refresh' = [refresh EXCEPT ![refreshes + 1] = row]
        /\ refreshes < MaxRefresh /\ refreshes' = refreshes + 1
        /\ given' = given \cup {refreshes + 1}
    BY <1>4 DEF MintRefresh
  <2> HIDE DEF row
  <2>2. refreshes + 1 \in RefreshIds /\ refreshes' \in 0..MaxRefresh
    BY <2>1, OAuthAssumption DEF TypeOK, RefreshIds
  <2>3. refresh' \in [RefreshIds -> Refresh \cup {NoRefresh}] /\ given' \subseteq RefreshIds
    BY <1>2, <2>1, <2>2 DEF TypeOK
  <2> QED BY <1>1, <2>2, <2>3 DEF MintRefresh, TypeOK, clients, grants, bounds
<1> QED BY <1>3, <1>4

LEMMA RotateTypeOK == ASSUME TypeOK, NEW h \in Handlers, Rotate(h) PROVE TypeOK'
<1> DEFINE row == refresh[job[h].token]
<1>1. job[h].token \in RefreshIds /\ job[h].pc = "rotate"
  BY JobTyped DEF Rotate, At, JobOK, OnToken
<1>2. job' \in [Handlers -> Job] /\ \A g \in Handlers : JobOK(job'[g])
  <2>1. CASE End(h)
    BY <2>1, EndKeepsJobs
  <2>2. CASE Go(h, [job[h] EXCEPT !.pc = "walk", !.at = job[h].token])
    BY <1>1, <2>2, JobTyped, StepsOK, GoKeepsJobs
  <2>3. CASE /\ Exists(row)
             /\ Go(h, [job[h] EXCEPT !.pc = "replace", !.user = row.user, !.client = row.client,
                                     !.scopes = row.scopes, !.code = row.code])
    <3>1. /\ row.user \in Users /\ row.client \in Clients
          /\ row.scopes \in SUBSET Scopes /\ row.code \in CodeIds
      BY <1>1, <2>3, RowsTyped DEF Refresh
    <3> HIDE DEF row
    <3> QED BY <1>1, <2>3, <3>1, JobTyped, StepsOK, GoKeepsJobs
  <2> QED BY <2>1, <2>2, <2>3 DEF Rotate
<1> QED BY <1>2, TablesKept DEF Rotate, bounds, TypeOK

LEMMA ReplaceTypeOK ==
  ASSUME TypeOK, JobsOK, IdsInOrder, NEW h \in Handlers, Replace(h) PROVE TypeOK'
<1> DEFINE row == RefreshOf(job[h], FALSE)
           t   == job[h].token
<1>1. row \in Refresh
  BY RefreshTyped DEF Replace, At
<1>2. t \in RefreshIds /\ job[h].pc = "replace"
  BY JobTyped DEF Replace, At, JobOK, OnToken
<1>3. CASE Deleted(h)
  BY <1>3, EndKeepsJobs DEF Replace, TypeOK, clients, grants, tokens, bounds
<1>4. CASE ~Deleted(h)
  <2>1. /\ refresh' = [refresh EXCEPT ![refreshes + 1] = row, ![t].next = refreshes + 1]
        /\ refreshes < MaxRefresh /\ refreshes' = refreshes + 1
        /\ Go(h, [job[h] EXCEPT !.pc = "issueNext", !.next = refreshes + 1])
        /\ given' = given
    BY <1>4 DEF Replace
  <2>2. refreshes + 1 \in RefreshIds /\ refreshes' \in 0..MaxRefresh
    BY <2>1, OAuthAssumption DEF TypeOK, RefreshIds
  <2>3. refresh' \in [RefreshIds -> Refresh \cup {NoRefresh}]
    <3>1. Exists(refresh[t])
      BY <1>2, <1>4 DEF JobsOK, OwnOK, Present, Deleted
    <3>2. t # refreshes + 1
      BY <1>2, <2>2, <3>1 DEF IdsInOrder, Exists, NoRefresh, TypeOK, RefreshIds
    <3>3. [refresh[t] EXCEPT !.next = refreshes + 1] \in Refresh
      BY <1>2, <2>2, <3>1, RowsTyped DEF Refresh
    <3> HIDE DEF row
    <3>4. refresh' = [r \in RefreshIds |->
                        IF r = t THEN [refresh[t] EXCEPT !.next = refreshes + 1]
                        ELSE IF r = refreshes + 1 THEN row ELSE refresh[r]]
      BY <1>2, <2>1, <2>2, <3>2 DEF TypeOK
    <3> QED BY <1>1, <3>3, <3>4 DEF TypeOK
  <2>4. job' \in [Handlers -> Job] /\ \A g \in Handlers : JobOK(job'[g])
    BY <1>2, <2>1, <2>2, JobTyped, StepsOK, GoKeepsJobs
  <2> QED BY <2>1, <2>2, <2>3, <2>4 DEF Replace, TypeOK, clients, grants, bounds
<1> QED BY <1>3, <1>4

LEMMA IssueNextTypeOK == ASSUME TypeOK, NEW h \in Handlers, IssueNext(h) PROVE TypeOK'
<1>1. job' \in [Handlers -> Job] /\ \A g \in Handlers : JobOK(job'[g])
  BY EndKeepsJobs DEF IssueNext
<1>2. job[h].next \in RefreshIds /\ job[h].pc = "issueNext"
  BY JobTyped DEF IssueNext, At, JobOK
<1>3. access' \subseteq Access /\ given' \subseteq RefreshIds
  BY <1>2, AccessTyped DEF IssueNext, TypeOK
<1> QED BY <1>1, <1>3 DEF IssueNext, TypeOK, clients, grants, bounds

LEMMA WalkTypeOK == ASSUME TypeOK, NEW h \in Handlers, Walk(h) PROVE TypeOK'
<1> DEFINE next == refresh[job[h].at].next
<1>1. job[h].at \in RefreshIds /\ job[h].pc = "walk"
  BY JobTyped DEF Walk, At, JobOK
<1>2. next # None => next \in RefreshIds
  BY <1>1, RowsTyped DEF TypeOK, Refresh, NoRefresh, None
<1>3. job' \in [Handlers -> Job] /\ \A g \in Handlers : JobOK(job'[g])
  <2>1. CASE next # None /\ Go(h, [job[h] EXCEPT !.chain = job[h].chain \cup {job[h].at}, !.at = next])
    <3> HIDE DEF next
    <3> QED BY <1>1, <1>2, <2>1, JobTyped, StepsOK, GoKeepsJobs
  <2>2. CASE Go(h, [job[h] EXCEPT !.pc = "revoke", !.chain = job[h].chain \cup {job[h].at}, !.at = None])
    BY <1>1, <2>2, JobTyped, StepsOK, GoKeepsJobs
  <2> QED BY <2>1, <2>2 DEF Walk
<1> QED BY <1>3, TablesKept DEF Walk, bounds, TypeOK

LEMMA RevokeChainTypeOK == ASSUME TypeOK, NEW h \in Handlers, RevokeChain(h) PROVE TypeOK'
<1>1. job' \in [Handlers -> Job] /\ \A g \in Handlers : JobOK(job'[g])
  BY EndKeepsJobs DEF RevokeChain
<1>2. refresh' \in [RefreshIds -> Refresh \cup {NoRefresh}]
  <2>1. ASSUME NEW r \in RefreshIds, Exists(refresh[r]) PROVE [refresh[r] EXCEPT !.revoked = TRUE] \in Refresh
    BY <2>1, RowsTyped DEF Refresh
  <2> QED BY <2>1 DEF RevokeChain, TypeOK
<1> QED BY <1>1, <1>2 DEF RevokeChain, TypeOK, clients, grants, bounds

LEMMA AdministerTypeOK ==
  ASSUME TypeOK, NEW c \in Clients,
         Disable(c) \/ Delete(c) \/ \E scopes \in ScopeSets : Update(c, scopes)
  PROVE  TypeOK'
<1>1. CASE Disable(c)
  BY <1>1 DEF Disable, Administer, TypeOK
<1>2. CASE Delete(c)
  <2>1. client' \in [Clients -> {"enabled", "disabled", "deleted"}]
    BY <1>2 DEF Delete, TypeOK
  <2>2. consent' \in [Users -> [Clients -> SUBSET Scopes]]
    BY <1>2 DEF Delete, TypeOK
  <2>3. /\ code' \in [CodeIds -> Code \cup {NoCode}]
        /\ refresh' \in [RefreshIds -> Refresh \cup {NoRefresh}]
        /\ access' \subseteq Access
    BY <1>2 DEF Delete, TypeOK
  <2> QED BY <1>2, <2>1, <2>2, <2>3 DEF Delete, Administer, TypeOK
<1>3. CASE \E scopes \in ScopeSets : Update(c, scopes)
  BY <1>3, OAuthAssumption DEF Update, Administer, TypeOK
<1> QED BY <1>1, <1>2, <1>3

LEMMA FailsTypeOK == ASSUME TypeOK, NEW h \in Handlers, Fails(h) PROVE TypeOK'
<1>1. job' \in [Handlers -> Job] /\ \A g \in Handlers : JobOK(job'[g])
  BY EndKeepsJobs DEF Fails
<1>2. fails' \in Nat
  BY DEF Fails, TypeOK
<1> QED BY <1>1, <1>2, TablesKept DEF Fails, TypeOK

LEMMA CrashTypeOK == ASSUME TypeOK, Crash PROVE TypeOK'
<1>1. job' \in [Handlers -> Job] /\ \A g \in Handlers : JobOK(job'[g])
  BY IdleOK DEF Crash, JobOK
<1>2. fails' \in Nat
  BY DEF Crash, TypeOK
<1> QED BY <1>1, <1>2, TablesKept DEF Crash, TypeOK

LEMMA TickTypeOK == ASSUME TypeOK, Tick PROVE TypeOK'
BY DEF Tick, TypeOK, clients, grants, tokens

LEMMA NextTypeOK == ASSUME IInv, [Next]_vars PROVE TypeOK'
<1>1. TypeOK /\ JobsOK /\ IdsInOrder
  BY DEF IInv
<1>2. ASSUME NEW h \in Handlers, Step(h) PROVE TypeOK'
  BY <1>1, <1>2, FindTypeOK, RecordTypeOK, MintCodeTypeOK, ConsumeTypeOK, IssueTypeOK,
     MintRefreshTypeOK, RotateTypeOK, ReplaceTypeOK, IssueNextTypeOK, WalkTypeOK,
     RevokeChainTypeOK DEF Step
<1>3. CASE UNCHANGED vars
  BY <1>1, <1>3 DEF TypeOK, vars
<1> QED BY <1>1, <1>2, <1>3, StartTypeOK, FailsTypeOK, AdministerTypeOK, CrashTypeOK, TickTypeOK DEF Next

-----------------------------------------------------------------------------
(* What the steps keep *)

SameGrant(a, b) ==
  a.client = b.client /\ a.user = b.user /\ a.scopes = b.scopes /\ a.code = b.code /\ a.root = b.root

\* The tables only grow: every step but the deletion of a client.
Extends ==
  /\ \A c \in Clients : client'[c] = "deleted" <=> client[c] = "deleted"
  /\ \A u \in Users, c \in Clients : granted[u][c] \subseteq granted'[u][c]
  /\ \A k \in CodeIds : code[k].consumed => code'[k] = code[k]
  /\ \A r \in RefreshIds : Exists(refresh[r]) => SameGrant(refresh'[r], refresh[r])

\* No refresh token is inserted.
NoNewRefresh == \A r \in RefreshIds : ~Exists(refresh[r]) => refresh'[r] = refresh[r]

\* A row gives its client no scope that its user has not consented to.
ConsentedRow(row) == row.user # NoUser => row.scopes \subseteq granted[row.user][row.client]

JobOKs(j) == OwnOK(j) /\ ConsentedOK(j) /\ FollowsOK(j)

LEMMA ScopesByRow ==
  ScopesConsented <=> /\ \A k \in CodeIds : ConsentedRow(code[k])
                      /\ \A r \in RefreshIds : ConsentedRow(refresh[r])
                      /\ \A a \in access : ConsentedRow(a)
BY DEF ScopesConsented, ConsentedRow

LEMMA FollowByRow ==
  TokensFollowCode <=> /\ \A r \in RefreshIds : Follows(refresh[r])
                       /\ \A a \in access : Follows(a)
BY DEF TokensFollowCode, Follows

\* The rows of no one: they are consented to and follow whatever there is.
LEMMA NoRowOK ==
  ConsentedRow(NoCode) /\ ConsentedRow(NoRefresh) /\ Follows(NoRefresh) /\ ~NoCode.consumed
BY DEF ConsentedRow, Follows, NoCode, NoRefresh

LEMMA JobKept ==
  ASSUME TypeOK, Extends, NEW h \in Handlers, JobOKs(job[h]), job'[h] = job[h]
  PROVE  JobOKs(job[h])'
<1> DEFINE j == job[h]
<1>1. JobOK(j)
  BY JobTyped
<1>2. j.pc \in Issuing => j.client \in Clients /\ (j.code # None => j.code \in CodeIds)
  BY <1>1 DEF JobOK, Job, Issuing, ForClient
<1>3. OwnOK(job[h])'
  BY <1>1, <1>2 DEF JobOKs, OwnOK, Extends, SameGrant, Exists, Present, Issuing, JobOK, OnToken
<1>4. ConsentedOK(job[h])'
  BY <1>1 DEF JobOKs, ConsentedOK, Extends, JobOK, Job, ForClient, Handing, Issuing
<1>5. FollowsOK(job[h])'
  BY <1>1, <1>2 DEF JobOKs, FollowsOK, Follows, Extends, Present
<1> QED BY <1>3, <1>4, <1>5 DEF JobOKs

LEMMA JobsKept ==
  ASSUME IInv, Extends, \A g \in Handlers : job'[g] = job[g] \/ JobOKs(job[g])'
  PROVE  JobsOK'
<1>1. ASSUME NEW g \in Handlers PROVE JobOKs(job[g])'
  BY JobKept DEF IInv, JobsOK, JobOKs
<1> QED BY <1>1 DEF JobsOK, JobOKs

\* A row that is consented to, or follows its code, does so afterwards.
LEMMA RowKept ==
  ASSUME TypeOK, Extends
  PROVE  /\ \A k \in CodeIds : ConsentedRow(code[k]) =>
              (code[k].user # NoUser => code[k].scopes \subseteq granted'[code[k].user][code[k].client])
         /\ \A r \in RefreshIds : ConsentedRow(refresh[r]) =>
              (refresh[r].user # NoUser => refresh[r].scopes \subseteq granted'[refresh[r].user][refresh[r].client])
         /\ \A a \in access : ConsentedRow(a) =>
              (a.user # NoUser => a.scopes \subseteq granted'[a.user][a.client])
<1>1. ASSUME NEW row, row.user # NoUser => row.user \in Users /\ row.client \in Clients, ConsentedRow(row)
      PROVE  row.user # NoUser => row.scopes \subseteq granted'[row.user][row.client]
  BY <1>1 DEF ConsentedRow, Extends
<1>2. ASSUME NEW k \in CodeIds PROVE code[k].user # NoUser => code[k].user \in Users /\ code[k].client \in Clients
  BY RowsTyped DEF TypeOK, Code, NoCode
<1>3. ASSUME NEW r \in RefreshIds
      PROVE  refresh[r].user # NoUser => refresh[r].user \in Users /\ refresh[r].client \in Clients
  BY RowsTyped DEF TypeOK, Refresh, NoRefresh
<1>4. ASSUME NEW a \in access PROVE a.user # NoUser => a.user \in Users /\ a.client \in Clients
  BY DEF TypeOK, Access
<1> QED BY <1>1, <1>2, <1>3, <1>4

LEMMA ScopesKept ==
  ASSUME IInv, Extends,
         \A k \in CodeIds : \/ ConsentedRow(code[k])'
                            \/ /\ code'[k].user = code[k].user /\ code'[k].client = code[k].client
                               /\ code'[k].scopes = code[k].scopes,
         \A r \in RefreshIds : Exists(refresh[r]) \/ ConsentedRow(refresh[r])' \/ refresh'[r] = refresh[r],
         \A a \in access' : a \in access \/ ConsentedRow(a)'
  PROVE  ScopesConsented'
<1>1. /\ \A k \in CodeIds : ConsentedRow(code[k])
      /\ \A r \in RefreshIds : ConsentedRow(refresh[r])
      /\ \A a \in access : ConsentedRow(a)
  BY ScopesByRow DEF IInv
<1>2. TypeOK
  BY DEF IInv
<1>3. ASSUME NEW k \in CodeIds PROVE ConsentedRow(code[k])'
  BY <1>1, <1>2, RowKept DEF ConsentedRow
<1>4. ASSUME NEW r \in RefreshIds PROVE ConsentedRow(refresh[r])'
  BY <1>1, <1>2, RowKept DEF ConsentedRow, Extends, SameGrant
<1>5. ASSUME NEW a \in access' PROVE ConsentedRow(a)'
  BY <1>1, <1>2, RowKept DEF ConsentedRow
<1> QED BY <1>3, <1>4, <1>5, ScopesByRow DEF ScopesConsented, ConsentedRow

LEMMA FollowKept ==
  ASSUME IInv, Extends,
         \A r \in RefreshIds : Exists(refresh[r]) \/ Follows(refresh[r])' \/ refresh'[r] = refresh[r],
         \A a \in access' : a \in access \/ Follows(a)'
  PROVE  TokensFollowCode'
<1>1. /\ \A r \in RefreshIds : Follows(refresh[r])
      /\ \A a \in access : Follows(a)
  BY FollowByRow DEF IInv
<1>2. TypeOK
  BY DEF IInv
<1>3. ASSUME NEW row, Follows(row), row.code # None => row.code \in CodeIds
      PROVE  row.code # None => /\ code'[row.code].consumed
                                /\ row.client = code'[row.code].client
                                /\ row.user = code'[row.code].user
                                /\ row.scopes = code'[row.code].scopes
  BY <1>3 DEF Follows, Extends
<1>4. ASSUME NEW r \in RefreshIds PROVE Follows(refresh[r])'
  <2>1. refresh[r].code # None => refresh[r].code \in CodeIds
    BY <1>2, RowsTyped DEF TypeOK, Refresh, NoRefresh
  <2>2. CASE Exists(refresh[r])
    <3>1. SameGrant(refresh'[r], refresh[r])
      BY <2>2 DEF Extends
    <3> QED BY <1>1, <1>3, <2>1, <3>1 DEF Follows, SameGrant
  <2>3. CASE refresh'[r] = refresh[r]
    BY <1>1, <1>3, <2>1, <2>3 DEF Follows
  <2> QED BY <2>2, <2>3
<1>5. ASSUME NEW a \in access' PROVE Follows(a)'
  <2>1. CASE a \in access
    <3>1. a.code # None => a.code \in CodeIds
      BY <1>2, <2>1 DEF TypeOK, Access
    <3> QED BY <1>1, <1>3, <2>1, <3>1 DEF Follows
  <2> QED BY <2>1
<1> QED BY <1>4, <1>5 DEF TokensFollowCode, Follows

LEMMA OneSetKept ==
  ASSUME IInv, Extends, NoNewRefresh PROVE CodeYieldsOneSet'
<1>1. ASSUME NEW r \in RefreshIds, Exists(refresh[r])'
      PROVE  Exists(refresh[r]) /\ SameGrant(refresh'[r], refresh[r])
  BY <1>1 DEF Extends, NoNewRefresh, Exists
<1> QED BY <1>1 DEF IInv, CodeYieldsOneSet, SameGrant

LEMMA ExchangeKept ==
  ASSUME IInv, Extends, NoNewRefresh,
         \A g \in Handlers : \/ job'[g] = job[g]
                            \/ \A k \in CodeIds : Exchanges(job[g], k)' => Exchanges(job[g], k)
  PROVE  OneExchange'
<1>1. ASSUME NEW k \in CodeIds, NEW g \in Handlers, Exchanges(job[g], k)' PROVE Exchanges(job[g], k)
  <2>1. CASE job'[g] = job[g]
    <3>1. JobOK(job[g])
      BY JobTyped DEF IInv
    <3> QED BY <1>1, <2>1, <3>1 DEF Exchanges, Extends, Present, JobOK, ForClient
  <2> QED BY <1>1, <2>1
<1>2. ASSUME NEW k \in CodeIds, NEW r \in RefreshIds, r \in Chain(k)' PROVE r \in Chain(k)
  BY <1>2 DEF Extends, NoNewRefresh, Exists, Chain, SameGrant
<1>3. ASSUME NEW k \in CodeIds, Chain(k) = {} PROVE Chain(k)' = {}
  BY <1>2, <1>3 DEF Chain
<1> QED BY <1>1, <1>3 DEF IInv, OneExchange

\* A step that writes no table of the grants.
LEMMA JobStepKeeps ==
  ASSUME IInv, TypeOK', Extends,
         UNCHANGED <<consent, granted, code, codes, refresh, refreshes, access>>,
         \A g \in Handlers :
           \/ job'[g] = job[g]
           \/ JobOKs(job[g])' /\ \A k \in CodeIds : Exchanges(job[g], k)' => Exchanges(job[g], k)
  PROVE  IInv'
<1>1. NoNewRefresh
  BY DEF NoNewRefresh
<1>2. ScopesConsented' /\ TokensFollowCode'
  BY ScopesKept, FollowKept
<1>3. CodeYieldsOneSet' /\ OneExchange' /\ JobsOK'
  BY <1>1, OneSetKept, ExchangeKept, JobsKept
<1>4. IdsInOrder' /\ ConsentsGranted'
  BY DEF IInv, IdsInOrder, ConsentsGranted
<1> QED BY <1>2, <1>3, <1>4 DEF IInv

\* A request that neither issues tokens nor hands out scopes keeps it.
LEMMA QuietJob ==
  ASSUME NEW h \in Handlers, job'[h].pc \notin Handing
  PROVE  JobOKs(job[h])' /\ \A k \in CodeIds : ~Exchanges(job[h], k)'
BY DEF JobOKs, OwnOK, ConsentedOK, FollowsOK, Handing, Issuing, Exchanges

\* The tables are as they were.
LEMMA SameTables ==
  ASSUME client' = client, granted' = granted, code' = code, refresh' = refresh
  PROVE  Extends /\ NoNewRefresh
BY DEF Extends, NoNewRefresh, SameGrant

LEMMA GoJob ==
  ASSUME TypeOK, NEW h \in Handlers, NEW j, Go(h, j)
  PROVE  job'[h] = j /\ \A g \in Handlers \ {h} : job'[g] = job[g]
BY DEF TypeOK, Go

LEMMA QuietEnd ==
  ASSUME TypeOK, NEW h \in Handlers, End(h)
  PROVE  \A g \in Handlers :
           \/ job'[g] = job[g]
           \/ JobOKs(job[g])' /\ \A k \in CodeIds : ~Exchanges(job[g], k)'
<1>1. job'[h] = Idle /\ \A g \in Handlers \ {h} : job'[g] = job[g]
  BY GoJob DEF End
<1>2. Idle.pc \notin Handing
  BY DEF Idle, Handing, Issuing
<1> QED BY <1>1, <1>2, QuietJob

LEMMA StartKeeps == ASSUME IInv, TypeOK', NEW h \in Handlers, Start(h) PROVE IInv'
<1>1. TypeOK
  BY DEF IInv
<1>2. ASSUME NEW op, NEW j, Begin(h, op, j),
             j.pc \notin Handing \/ (j.pc = "issue" /\ j.user = NoUser /\ j.code = None)
      PROVE  IInv'
  <2>1. job'[h] = j /\ \A g \in Handlers \ {h} : job'[g] = job[g]
    BY <1>1, <1>2, GoJob DEF Begin
  <2>2. JobOKs(job[h])' /\ \A k \in CodeIds : ~Exchanges(job[h], k)'
    <3>1. CASE j.pc \notin Handing
      BY <2>1, <3>1, QuietJob
    <3>2. CASE j.pc = "issue" /\ j.user = NoUser /\ j.code = None
      BY <2>1, <3>2 DEF JobOKs, OwnOK, ConsentedOK, FollowsOK, Follows, Exchanges, CodeIds, None
    <3> QED BY <1>2, <3>1, <3>2
  <2> QED BY <1>2, <2>1, <2>2, SameTables, JobStepKeeps DEF Begin, clients, grants, tokens
<1> PICK c \in Clients :
      \/ \E asked \in ScopeSets :
           \/ \E u \in Users : BeginAuthorize(h, u, c, asked) \/ BeginConsent(h, u, c, asked)
           \/ BeginClient(h, c, asked)
      \/ \E k \in CodeIds : BeginExchange(h, c, k)
      \/ \E r \in RefreshIds : BeginRefresh(h, c, r)
  BY DEF Start
<1> USE DEF Idle, Handing, Issuing
<1>3. ASSUME NEW asked \in ScopeSets, NEW u \in Users, BeginAuthorize(h, u, c, asked) PROVE IInv'
  BY <1>2, <1>3 DEF BeginAuthorize
<1>4. ASSUME NEW asked \in ScopeSets, NEW u \in Users, BeginConsent(h, u, c, asked) PROVE IInv'
  BY <1>2, <1>4 DEF BeginConsent
<1>5. ASSUME NEW asked \in ScopeSets, BeginClient(h, c, asked) PROVE IInv'
  BY <1>2, <1>5 DEF BeginClient
<1>6. ASSUME NEW k \in CodeIds, BeginExchange(h, c, k) PROVE IInv'
  BY <1>2, <1>6 DEF BeginExchange
<1>7. ASSUME NEW r \in RefreshIds, BeginRefresh(h, c, r) PROVE IInv'
  BY <1>2, <1>7 DEF BeginRefresh
<1> QED BY <1>3, <1>4, <1>5, <1>6, <1>7

LEMMA FindKeeps == ASSUME IInv, TypeOK', NEW h \in Handlers, Find(h) PROVE IInv'
<1>1. TypeOK /\ Extends
  BY SameTables DEF IInv, Find, clients, grants, tokens
<1>2. CASE End(h)
  BY <1>1, <1>2, QuietEnd, JobStepKeeps DEF Find, grants, tokens
<1>3. CASE /\ job[h].scopes \subseteq consent[job[h].user][job[h].client]
           /\ Go(h, [job[h] EXCEPT !.pc = "mintCode"])
  <2>1. /\ job'[h] = [job[h] EXCEPT !.pc = "mintCode"]
        /\ \A g \in Handlers \ {h} : job'[g] = job[g]
    BY <1>1, <1>3, GoJob
  <2>2. /\ job'[h].pc = "mintCode" /\ job'[h].user = job[h].user
        /\ job'[h].client = job[h].client /\ job'[h].scopes = job[h].scopes
    BY <1>1, <2>1, JobTyped DEF Job
  <2>3. job[h].user \in Users /\ job[h].client \in Clients
    BY <1>1, JobTyped DEF Find, At, JobOK, ForClient, ForUser
  <2>4. ConsentedOK(job[h])'
    BY <1>3, <2>2, <2>3 DEF ConsentedOK, IInv, ConsentsGranted, Find, grants
  <2>5. JobOKs(job[h])' /\ \A k \in CodeIds : ~Exchanges(job[h], k)'
    BY <2>2, <2>4 DEF JobOKs, OwnOK, FollowsOK, Issuing, Exchanges
  <2> QED BY <1>1, <2>1, <2>5, JobStepKeeps DEF Find, grants, tokens
<1> QED BY <1>2, <1>3 DEF Find

LEMMA RecordKeeps == ASSUME IInv, TypeOK', NEW h \in Handlers, Record(h) PROVE IInv'
<1> DEFINE u == job[h].user
           c == job[h].client
           s == job[h].scopes
<1>1. TypeOK
  BY DEF IInv
<1>2. CASE Deleted(h)
  <2>1. End(h) /\ UNCHANGED <<client, consent, granted, code, codes, refresh, refreshes, access>>
    BY <1>2 DEF Record, clients, grants, tokens
  <2> QED BY <1>1, <2>1, QuietEnd, SameTables, JobStepKeeps
<1>3. CASE ~Deleted(h)
  <2>1. /\ consent' = [consent EXCEPT ![u][c] = s]
        /\ granted' = [granted EXCEPT ![u][c] = granted[u][c] \cup s]
        /\ Go(h, [job[h] EXCEPT !.pc = "mintCode"])
        /\ UNCHANGED <<client, code, codes, refresh, refreshes, access>>
    BY <1>3 DEF Record, clients, tokens
  <2>2. u \in Users /\ c \in Clients /\ s \in SUBSET Scopes
    BY <1>1, JobTyped DEF Record, At, JobOK, Job, ForClient, ForUser
  <2>3. /\ job'[h].pc = "mintCode" /\ job'[h].user = u /\ job'[h].client = c /\ job'[h].scopes = s
        /\ \A g \in Handlers \ {h} : job'[g] = job[g]
    BY <1>1, <2>1, GoJob, JobTyped DEF Job
  <2> HIDE DEF u, c, s
  <2>4. \A v \in Users, d \in Clients :
          /\ granted'[v][d] = IF v = u /\ d = c THEN granted[u][c] \cup s ELSE granted[v][d]
          /\ consent'[v][d] = IF v = u /\ d = c THEN s ELSE consent[v][d]
    BY <1>1, <2>1, <2>2 DEF TypeOK
  <2>5. ConsentsGranted'
    BY <2>2, <2>4 DEF ConsentsGranted, IInv
  <2>6. Extends /\ NoNewRefresh
    BY <2>1, <2>4 DEF Extends, NoNewRefresh, SameGrant
  <2>7. JobOKs(job[h])' /\ \A k \in CodeIds : ~Exchanges(job[h], k)'
    BY <2>2, <2>3, <2>4 DEF JobOKs, OwnOK, ConsentedOK, FollowsOK, Issuing, Exchanges
  <2>8. JobsOK' /\ OneExchange' /\ CodeYieldsOneSet'
    BY <2>3, <2>6, <2>7, JobsKept, ExchangeKept, OneSetKept
  <2>9. ScopesConsented' /\ TokensFollowCode'
    BY <2>1, <2>6, ScopesKept, FollowKept
  <2>10. IdsInOrder'
    BY <2>1 DEF IInv, IdsInOrder
  <2> QED BY <2>5, <2>8, <2>9, <2>10 DEF IInv
<1> QED BY <1>2, <1>3

LEMMA MintCodeKeeps == ASSUME IInv, TypeOK', NEW h \in Handlers, MintCode(h) PROVE IInv'
<1> DEFINE row == [client |-> job[h].client, user |-> job[h].user, scopes |-> job[h].scopes,
                   expires |-> now + CodeTtl, consumed |-> FALSE]
<1>1. TypeOK
  BY DEF IInv
<1>2. End(h) /\ UNCHANGED <<client, consent, granted, refresh, refreshes, access>>
  BY DEF MintCode, clients, grants, tokens
<1>3. CASE Deleted(h)
  BY <1>1, <1>2, <1>3, QuietEnd, SameTables, JobStepKeeps DEF MintCode
<1>4. CASE ~Deleted(h)
  <2>1. codes < MaxCodes /\ codes' = codes + 1 /\ code' = [code EXCEPT ![codes + 1] = row]
    BY <1>4 DEF MintCode
  <2>2. /\ row.client = job[h].client /\ row.user = job[h].user
        /\ row.scopes = job[h].scopes /\ ~row.consumed
    OBVIOUS
  <2> HIDE DEF row
  <2>3. codes \in Nat /\ codes + 1 \in CodeIds
    BY <1>1, <2>1, OAuthAssumption DEF TypeOK, CodeIds
  <2>4. \A k \in CodeIds : code'[k] = IF k = codes + 1 THEN row ELSE code[k]
    BY <1>1, <2>1 DEF TypeOK
  <2>5. code[codes + 1] = NoCode
    BY <2>3 DEF IInv, IdsInOrder
  <2>6. Extends /\ NoNewRefresh
    BY <1>2, <2>4, <2>5, NoRowOK DEF Extends, NoNewRefresh, SameGrant
  <2>7. JobsOK' /\ OneExchange' /\ CodeYieldsOneSet'
    BY <1>1, <1>2, <2>6, QuietEnd, JobsKept, ExchangeKept, OneSetKept
  <2>8. ConsentedRow(row)
    <3>1. job[h].pc \in Handing /\ ConsentedOK(job[h])
      BY DEF IInv, JobsOK, MintCode, At, Handing
    <3> QED BY <2>2, <3>1 DEF ConsentedOK, ConsentedRow
  <2>9. ScopesConsented'
    <3>1. \A k \in CodeIds : k = codes + 1 => ConsentedRow(code[k])'
      BY <1>2, <2>4, <2>8 DEF ConsentedRow
    <3> QED BY <1>2, <2>4, <2>6, <3>1, ScopesKept
  <2>10. TokensFollowCode'
    BY <1>2, <2>6, FollowKept
  <2>11. IdsInOrder' /\ ConsentsGranted'
    <3>1. \A k \in CodeIds : k > codes' => code'[k] = NoCode
      BY <2>1, <2>3, <2>4 DEF IInv, IdsInOrder, CodeIds
    <3> QED BY <1>2, <3>1 DEF IInv, IdsInOrder, ConsentsGranted
  <2> QED BY <2>7, <2>9, <2>10, <2>11 DEF IInv
<1> QED BY <1>3, <1>4

LEMMA ConsumeKeeps == ASSUME IInv, TypeOK', NEW h \in Handlers, Consume(h) PROVE IInv'
<1> DEFINE k == job[h].code
<1>1. TypeOK
  BY DEF IInv
<1>2. UNCHANGED <<client, consent, granted, codes, refresh, refreshes, access>>
  BY DEF Consume, clients, grants, tokens
<1>3. k \in CodeIds /\ job[h].client \in Clients
  BY <1>1, JobTyped DEF Consume, At, JobOK, OnCode, ForClient
<1>4. CASE ~(Exists(code[k]) /\ code[k].expires > now /\ ~code[k].consumed)
  <2>1. End(h) /\ code' = code
    BY <1>4 DEF Consume
  <2> QED BY <1>1, <1>2, <2>1, QuietEnd, SameTables, JobStepKeeps
<1>5. CASE Exists(code[k]) /\ code[k].expires > now /\ ~code[k].consumed
  <2>1. code' = [code EXCEPT ![k].consumed = TRUE] /\ Exchange(h, code[k].client = job[h].client)
    BY <1>5 DEF Consume
  <2>2. code[k] \in Code
    BY <1>1, <1>3, <1>5, RowsTyped
  <2>3. /\ \A l \in CodeIds \ {k} : code'[l] = code[l]
        /\ code'[k].consumed /\ code'[k].client = code[k].client
        /\ code'[k].user = code[k].user /\ code'[k].scopes = code[k].scopes
    BY <1>1, <1>3, <2>1, <2>2 DEF TypeOK, Code
  <2>4. Extends /\ NoNewRefresh
    BY <1>2, <1>5, <2>3 DEF Extends, NoNewRefresh, SameGrant
  <2>5. ScopesConsented' /\ TokensFollowCode' /\ CodeYieldsOneSet'
    BY <1>2, <2>3, <2>4, ScopesKept, FollowKept, OneSetKept
  <2>6. IdsInOrder' /\ ConsentsGranted'
    <3>1. code[k] # NoCode
      BY <1>5 DEF Exists, NoCode
    <3> QED BY <1>2, <1>3, <2>3, <3>1 DEF IInv, IdsInOrder, ConsentsGranted
  <2>7. CASE End(h)
    <3>1. JobsOK' /\ OneExchange'
      BY <1>1, <2>4, <2>7, QuietEnd, JobsKept, ExchangeKept
    <3> QED BY <2>5, <2>6, <3>1 DEF IInv
  <2>8. CASE /\ code[k].client = job[h].client
             /\ Go(h, [job[h] EXCEPT !.pc = "issue", !.user = code[k].user, !.scopes = code[k].scopes])
    <3>1. /\ job'[h].pc = "issue" /\ job'[h].user = code[k].user /\ job'[h].scopes = code[k].scopes
          /\ job'[h].client = job[h].client /\ job'[h].code = k
          /\ \A g \in Handlers \ {h} : job'[g] = job[g]
      <4>1. PICK u, s : u = code[k].user /\ s = code[k].scopes
        OBVIOUS
      <4>2. /\ job'[h] = [job[h] EXCEPT !.pc = "issue", !.user = u, !.scopes = s]
            /\ \A g \in Handlers \ {h} : job'[g] = job[g]
        BY <1>1, <2>8, <4>1, GoJob
      <4>3. /\ job'[h].pc = "issue" /\ job'[h].user = u /\ job'[h].scopes = s
            /\ job'[h].client = job[h].client /\ job'[h].code = k
        BY <1>1, <4>2, JobTyped DEF Job
      <4> QED BY <4>1, <4>2, <4>3
    <3>2. ConsentedRow(code[k])
      BY <1>3, ScopesByRow DEF IInv
    <3>3. JobOKs(job[h])'
      BY <1>2, <2>3, <2>8, <3>1, <3>2 DEF JobOKs, OwnOK, ConsentedOK, ConsentedRow, FollowsOK, Follows
    <3>4. JobsOK'
      BY <2>4, <3>1, <3>3, JobsKept
    <3>5. Chain(k) = {}
      <4>1. \A r \in RefreshIds : Follows(refresh[r])
        BY FollowByRow DEF IInv
      <4> QED BY <1>3, <1>5, <4>1 DEF Chain, Follows, CodeIds, None
    <3>6. \A g \in Handlers \ {h} : ~Exchanges(job[g], k)
      BY <1>3, <1>5 DEF IInv, JobsOK, FollowsOK, Follows, Exchanges, Issuing, CodeIds, None
    <3>7. \A l \in CodeIds, g \in Handlers : Exchanges(job[g], l)' =>
            Exchanges(job[g], l) \/ (g = h /\ l = k)
      BY <1>2, <3>1 DEF Exchanges, Present
    <3>8. \A l \in CodeIds : Chain(l)' = Chain(l)
      BY <1>2 DEF Chain, Exists
    <3>9. ~Exchanges(job[h], k)
      BY DEF Consume, At, Exchanges
    <3>10. OneExchange'
      <4>1. SUFFICES ASSUME NEW l \in CodeIds, NEW g \in Handlers, Exchanges(job[g], l)'
                     PROVE  Chain(l)' = {} /\ \A f \in Handlers : Exchanges(job[f], l)' => f = g
        BY DEF OneExchange
      <4>2. CASE l = k
        <5>1. \A f \in Handlers : Exchanges(job[f], l)' => f = h
          BY <3>6, <3>7, <3>9, <4>2
        <5> QED BY <3>5, <3>8, <4>1, <4>2, <5>1
      <4>3. CASE l # k
        BY <3>7, <3>8, <4>1, <4>3 DEF IInv, OneExchange
      <4> QED BY <4>2, <4>3
    <3> QED BY <2>5, <2>6, <3>4, <3>10 DEF IInv
  <2> QED BY <2>1, <2>7, <2>8 DEF Exchange
<1> QED BY <1>4, <1>5

\* What a request that issues tokens hands out.
LEMMA IssuedOK ==
  ASSUME IInv, NEW h \in Handlers, job[h].pc \in Issuing, Present(job[h])
  PROVE  /\ ConsentedRow(AccessOf(job[h])) /\ Follows(AccessOf(job[h]))
         /\ \A root \in BOOLEAN :
              ConsentedRow(RefreshOf(job[h], root)) /\ Follows(RefreshOf(job[h], root))
<1>1. ConsentedRow(job[h]) /\ Follows(job[h])
  BY DEF IInv, JobsOK, ConsentedOK, FollowsOK, ConsentedRow, Handing
<1>2. ASSUME NEW row, row.user = job[h].user, row.client = job[h].client,
             row.scopes = job[h].scopes, row.code = job[h].code
      PROVE  ConsentedRow(row) /\ Follows(row)
  BY <1>1, <1>2 DEF ConsentedRow, Follows
<1>3. /\ AccessOf(job[h]).user = job[h].user /\ AccessOf(job[h]).client = job[h].client
      /\ AccessOf(job[h]).scopes = job[h].scopes /\ AccessOf(job[h]).code = job[h].code
  BY DEF AccessOf
<1>4. ASSUME NEW root \in BOOLEAN
      PROVE  /\ RefreshOf(job[h], root).user = job[h].user /\ RefreshOf(job[h], root).client = job[h].client
             /\ RefreshOf(job[h], root).scopes = job[h].scopes /\ RefreshOf(job[h], root).code = job[h].code
  BY DEF RefreshOf
<1> QED BY <1>2, <1>3, <1>4

\* A request inserts an access token.
LEMMA AccessKeeps ==
  ASSUME IInv, TypeOK', NEW h \in Handlers, job[h].pc \in Issuing, Present(job[h]),
         access' = access \cup {AccessOf(job[h])},
         UNCHANGED <<client, consent, granted, code, codes, refresh, refreshes>>,
         \A g \in Handlers :
           \/ job'[g] = job[g]
           \/ JobOKs(job[g])' /\ \A k \in CodeIds : Exchanges(job[g], k)' => Exchanges(job[g], k)
  PROVE  IInv'
<1> PICK a : a = AccessOf(job[h])
  OBVIOUS
<1>1. Extends /\ NoNewRefresh
  BY SameTables
<1>2. ConsentedRow(a) /\ Follows(a)
  BY IssuedOK
<1>3. ConsentedRow(a)' /\ Follows(a)'
  BY <1>2 DEF ConsentedRow, Follows
<1>4. ScopesConsented' /\ TokensFollowCode'
  BY <1>1, <1>3, ScopesKept, FollowKept
<1>5. JobsOK' /\ OneExchange' /\ CodeYieldsOneSet'
  BY <1>1, JobsKept, ExchangeKept, OneSetKept
<1>6. IdsInOrder' /\ ConsentsGranted'
  BY DEF IInv, IdsInOrder, ConsentsGranted
<1> QED BY <1>4, <1>5, <1>6 DEF IInv

LEMMA IssueKeeps == ASSUME IInv, TypeOK', NEW h \in Handlers, Issue(h) PROVE IInv'
<1>1. TypeOK /\ job[h].pc = "issue" /\ job[h].pc \in Issuing
  BY DEF IInv, Issue, At, Issuing
<1>2. UNCHANGED <<client, consent, granted, code, codes, refresh, refreshes>>
  BY DEF Issue, clients, grants, tokens
<1>3. CASE Deleted(h)
  <2>1. End(h) /\ access' = access
    BY <1>3 DEF Issue
  <2> QED BY <1>1, <1>2, <2>1, QuietEnd, SameTables, JobStepKeeps
<1>4. CASE ~Deleted(h)
  <2>1. access' = access \cup {AccessOf(job[h])} /\ Present(job[h])
    BY <1>4 DEF Issue, Deleted, Present
  <2>2. CASE End(h)
    BY <1>1, <1>2, <2>1, <2>2, QuietEnd, AccessKeeps
  <2>3. CASE job[h].code # None /\ Go(h, [job[h] EXCEPT !.pc = "mintRefresh"])
    <3>1. /\ job'[h] = [job[h] EXCEPT !.pc = "mintRefresh"]
          /\ \A g \in Handlers \ {h} : job'[g] = job[g]
      BY <1>1, <2>3, GoJob
    <3>2. /\ job'[h].pc = "mintRefresh" /\ job'[h].user = job[h].user /\ job'[h].client = job[h].client
          /\ job'[h].scopes = job[h].scopes /\ job'[h].code = job[h].code
      BY <1>1, <3>1, JobTyped DEF Job
    <3>3. JobOKs(job[h])
      BY DEF IInv, JobsOK, JobOKs
    <3>4. JobOKs(job[h])'
      BY <1>1, <1>2, <3>2, <3>3 DEF JobOKs, OwnOK, ConsentedOK, FollowsOK, Follows, Issuing, Handing, Present
    <3>5. \A k \in CodeIds : Exchanges(job[h], k)' => Exchanges(job[h], k)
      BY <1>1, <1>2, <3>2 DEF Exchanges, Present
    <3> QED BY <1>1, <1>2, <2>1, <3>1, <3>4, <3>5, AccessKeeps
  <2> QED BY <1>4, <2>2, <2>3 DEF Issue
<1> QED BY <1>3, <1>4

LEMMA IssueNextKeeps == ASSUME IInv, TypeOK', NEW h \in Handlers, IssueNext(h) PROVE IInv'
<1>1. TypeOK /\ End(h) /\ job[h].pc \in Issuing
  BY DEF IInv, IssueNext, At, Issuing
<1>2. UNCHANGED <<client, consent, granted, code, codes, refresh, refreshes>>
  BY DEF IssueNext, clients, grants
<1>3. CASE Deleted(h)
  <2>1. access' = access
    BY <1>3 DEF IssueNext
  <2> QED BY <1>1, <1>2, <2>1, QuietEnd, SameTables, JobStepKeeps
<1>4. CASE ~Deleted(h)
  <2>1. access' = access \cup {AccessOf(job[h])} /\ Present(job[h])
    BY <1>4 DEF IssueNext, Deleted, Present
  <2> QED BY <1>1, <1>2, <2>1, QuietEnd, AccessKeeps
<1> QED BY <1>3, <1>4

\* A request inserts a refresh token, and the rows that were there stay.
LEMMA InsertKeeps ==
  ASSUME IInv, TypeOK', NEW h \in Handlers, job[h].pc \in {"mintRefresh", "replace"}, Present(job[h]),
         NEW root \in BOOLEAN, root => Chain(job[h].code) = {},
         refreshes < MaxRefresh, refreshes' = refreshes + 1,
         refresh'[refreshes + 1] = RefreshOf(job[h], root),
         \A r \in RefreshIds \ {refreshes + 1} :
           refresh'[r] = refresh[r] \/ (Exists(refresh[r]) /\ SameGrant(refresh'[r], refresh[r])),
         UNCHANGED <<client, consent, granted, code, codes, access>>,
         \A g \in Handlers \ {h} : job'[g] = job[g] /\ ~Exchanges(job[g], job[h].code),
         JobOKs(job[h])', \A k \in CodeIds : ~Exchanges(job[h], k)'
  PROVE  IInv'
<1> PICK n, row, kc : n = refreshes + 1 /\ row = RefreshOf(job[h], root) /\ kc = job[h].code
  OBVIOUS
<1>1. TypeOK /\ job[h].pc \in Issuing
  BY DEF IInv, Issuing
<1>2. n \in RefreshIds /\ refreshes \in Nat
  BY <1>1, OAuthAssumption DEF TypeOK, RefreshIds
<1>3. \A r \in RefreshIds : r > refreshes => refresh[r] = NoRefresh /\ ~Exists(refresh[r])
  <2>1. NoRefresh.client = NoClient
    BY DEF NoRefresh
  <2> QED BY <2>1 DEF IInv, IdsInOrder, Exists
<1>4. Extends
  BY <1>2, <1>3 DEF Extends, SameGrant
<1>5. ConsentedRow(row)' /\ Follows(row)'
  <2>1. ConsentedRow(row) /\ Follows(row)
    BY <1>1, IssuedOK
  <2> QED BY <2>1 DEF ConsentedRow, Follows
<1>6. row.code = kc /\ row.root = root
  BY DEF RefreshOf
<1>7. ScopesConsented'
  <2>1. ConsentedRow(refresh[n])'
    BY <1>5 DEF ConsentedRow
  <2> QED BY <1>4, <2>1, ScopesKept
<1>8. TokensFollowCode'
  <2>1. Follows(refresh[n])'
    BY <1>5 DEF Follows
  <2> QED BY <1>4, <2>1, FollowKept
<1>9. JobsOK'
  BY <1>4, JobsKept
<1>10. \A r \in RefreshIds \ {n} : Exists(refresh[r])' => Exists(refresh[r]) /\ SameGrant(refresh'[r], refresh[r])
  BY DEF Exists, SameGrant
<1>11. CodeYieldsOneSet'
  <2>1. SUFFICES ASSUME NEW r \in RefreshIds, NEW s \in RefreshIds, Exists(refresh[r])', Exists(refresh[s])',
                        refresh'[r].root, refresh'[s].root, refresh'[r].code = refresh'[s].code
                 PROVE  r = s
    BY DEF CodeYieldsOneSet
  <2>2. CASE r # n /\ s # n
    BY <1>10, <2>1, <2>2 DEF IInv, CodeYieldsOneSet, SameGrant
  <2>3. CASE r = n /\ s # n
    BY <1>6, <1>10, <2>1, <2>3 DEF Chain, SameGrant
  <2>4. CASE r # n /\ s = n
    BY <1>6, <1>10, <2>1, <2>4 DEF Chain, SameGrant
  <2> QED BY <2>2, <2>3, <2>4
<1>12. OneExchange'
  <2>1. SUFFICES ASSUME NEW k \in CodeIds, NEW g \in Handlers, Exchanges(job[g], k)'
                 PROVE  Chain(k)' = {} /\ \A f \in Handlers : Exchanges(job[f], k)' => f = g
    BY DEF OneExchange
  <2>2. \A f \in Handlers : Exchanges(job[f], k)' => f # h /\ Exchanges(job[f], k)
    BY DEF Exchanges, Present
  <2>3. k # kc
    BY <2>1, <2>2
  <2>4. Chain(k) = {} /\ \A f \in Handlers : Exchanges(job[f], k) => f = g
    BY <2>1, <2>2 DEF IInv, OneExchange
  <2>5. ASSUME NEW r \in RefreshIds, r \in Chain(k)' PROVE r \in Chain(k)
    BY <1>6, <1>10, <2>3, <2>5 DEF Chain, SameGrant
  <2> QED BY <2>2, <2>4, <2>5 DEF Chain
<1>13. IdsInOrder' /\ ConsentsGranted'
  <2>1. \A r \in RefreshIds : r > refreshes' => refresh'[r] = NoRefresh
    BY <1>2, <1>3 DEF RefreshIds
  <2> QED BY <2>1 DEF IInv, IdsInOrder, ConsentsGranted
<1> QED BY <1>7, <1>8, <1>9, <1>11, <1>12, <1>13 DEF IInv

LEMMA MintRefreshKeeps == ASSUME IInv, TypeOK', NEW h \in Handlers, MintRefresh(h) PROVE IInv'
<1>1. TypeOK /\ End(h) /\ job[h].pc = "mintRefresh" /\ job[h].code \in CodeIds
  BY JobTyped DEF IInv, MintRefresh, At, JobOK, OnCode
<1>2. UNCHANGED <<client, consent, granted, code, codes, access>>
  BY DEF MintRefresh, clients, grants
<1>3. CASE Deleted(h)
  <2>1. refresh' = refresh /\ refreshes' = refreshes
    BY <1>3 DEF MintRefresh, tokens
  <2> QED BY <1>1, <1>2, <2>1, QuietEnd, SameTables, JobStepKeeps
<1>4. CASE ~Deleted(h)
  <2>1. /\ refreshes < MaxRefresh /\ refreshes' = refreshes + 1
        /\ refresh' = [refresh EXCEPT ![refreshes + 1] = RefreshOf(job[h], TRUE)]
    BY <1>4 DEF MintRefresh
  <2>2. refreshes + 1 \in RefreshIds
    BY <1>1, <2>1, OAuthAssumption DEF TypeOK, RefreshIds
  <2>3. /\ refresh'[refreshes + 1] = RefreshOf(job[h], TRUE)
        /\ \A r \in RefreshIds \ {refreshes + 1} : refresh'[r] = refresh[r]
    BY <1>1, <2>1, <2>2 DEF TypeOK
  <2>4. Present(job[h]) /\ Exchanges(job[h], job[h].code)
    BY <1>1, <1>4 DEF Deleted, Present, Exchanges
  <2>5. /\ Chain(job[h].code) = {}
        /\ \A g \in Handlers \ {h} : ~Exchanges(job[g], job[h].code)
    BY <1>1, <2>4 DEF IInv, OneExchange
  <2>6. job'[h] = Idle /\ \A g \in Handlers \ {h} : job'[g] = job[g]
    BY <1>1, GoJob DEF End
  <2>7. JobOKs(job[h])' /\ \A k \in CodeIds : ~Exchanges(job[h], k)'
    BY <2>6, QuietJob DEF Idle, Handing, Issuing
  <2> QED BY <1>1, <1>2, <2>1, <2>3, <2>4, <2>5, <2>6, <2>7, InsertKeeps
<1> QED BY <1>3, <1>4

LEMMA RotateKeeps == ASSUME IInv, TypeOK', NEW h \in Handlers, Rotate(h) PROVE IInv'
<1> DEFINE t == job[h].token
<1>1. TypeOK /\ t \in RefreshIds
  BY JobTyped DEF IInv, Rotate, At, JobOK, OnToken
<1>2. UNCHANGED <<client, consent, granted, code, codes, refresh, refreshes, access>>
  BY DEF Rotate, clients, grants, tokens
<1>3. Extends
  BY <1>2, SameTables
<1>4. CASE End(h)
  BY <1>1, <1>2, <1>3, <1>4, QuietEnd, JobStepKeeps
<1>5. CASE Go(h, [job[h] EXCEPT !.pc = "walk", !.at = t])
  <2>1. /\ job'[h] = [job[h] EXCEPT !.pc = "walk", !.at = t]
        /\ \A g \in Handlers \ {h} : job'[g] = job[g]
    BY <1>1, <1>5, GoJob
  <2>2. job'[h].pc = "walk"
    BY <1>1, <2>1, JobTyped DEF Job
  <2>3. JobOKs(job[h])' /\ \A k \in CodeIds : ~Exchanges(job[h], k)'
    BY <2>2, QuietJob DEF Handing, Issuing
  <2> QED BY <1>2, <1>3, <2>1, <2>3, JobStepKeeps
<1>6. CASE /\ Exists(refresh[t])
           /\ Go(h, [job[h] EXCEPT !.pc = "replace", !.user = refresh[t].user, !.client = refresh[t].client,
                                   !.scopes = refresh[t].scopes, !.code = refresh[t].code])
  <2>1. PICK u, c, s, k : u = refresh[t].user /\ c = refresh[t].client
                          /\ s = refresh[t].scopes /\ k = refresh[t].code
    OBVIOUS
  <2>2. /\ job'[h] = [job[h] EXCEPT !.pc = "replace", !.user = u, !.client = c, !.scopes = s, !.code = k]
        /\ \A g \in Handlers \ {h} : job'[g] = job[g]
    BY <1>1, <1>6, <2>1, GoJob
  <2>3. /\ job'[h].pc = "replace" /\ job'[h].user = u /\ job'[h].client = c
        /\ job'[h].scopes = s /\ job'[h].code = k /\ job'[h].token = t
    BY <1>1, <2>2, JobTyped DEF Job
  <2>4. ConsentedRow(refresh[t]) /\ Follows(refresh[t])
    BY <1>1, ScopesByRow, FollowByRow DEF IInv
  <2> HIDE DEF t
  <2>5. OwnOK(job[h])' /\ ConsentedOK(job[h])'
    BY <1>2, <1>6, <2>1, <2>3, <2>4 DEF OwnOK, ConsentedOK, ConsentedRow, Exists
  <2>6. FollowsOK(job[h])'
    BY <1>2, <2>1, <2>3, <2>4 DEF FollowsOK, Follows
  <2>7. \A l \in CodeIds : ~Exchanges(job[h], l)'
    BY <2>3 DEF Exchanges
  <2> QED BY <1>2, <1>3, <2>2, <2>5, <2>6, <2>7, JobStepKeeps DEF JobOKs
<1> QED BY <1>4, <1>5, <1>6 DEF Rotate

\* What a rotation writes: the token n, which replaces t.
LEMMA ReplaceWrites ==
  ASSUME IInv, NEW h \in Handlers, Replace(h), ~Deleted(h)
  PROVE  \E t, n \in RefreshIds :
           /\ t = job[h].token /\ n = refreshes + 1 /\ job[h].code \in CodeIds
           /\ \A r \in RefreshIds : Exists(refresh[r]) => r < n
           /\ Exists(refresh[t]) /\ refresh[t].code = job[h].code /\ t < n
           /\ refresh'[n] = RefreshOf(job[h], FALSE)
           /\ SameGrant(refresh'[t], refresh[t])
           /\ refresh'[t].next = n /\ refresh'[t].revoked = refresh[t].revoked
           /\ \A r \in RefreshIds \ {t, n} : refresh'[r] = refresh[r]
<1>1. TypeOK /\ job[h].token \in RefreshIds /\ job[h].pc = "replace" /\ job[h].code \in CodeIds
  BY JobTyped DEF IInv, Replace, At, JobOK, OnToken, OnCode
<1>2. refreshes \in Nat /\ refreshes + 1 \in RefreshIds
  <2>1. refreshes < MaxRefresh /\ refreshes \in 0..MaxRefresh /\ MaxRefresh \in Nat
    BY <1>1, OAuthAssumption DEF TypeOK, Replace
  <2> QED BY <2>1 DEF RefreshIds
<1>3. PICK t, n \in RefreshIds : t = job[h].token /\ n = refreshes + 1
  BY <1>1, <1>2
<1>4. refresh' = [refresh EXCEPT ![n] = RefreshOf(job[h], FALSE), ![t].next = n]
  BY <1>3 DEF Replace
<1>5. \A r \in RefreshIds : Exists(refresh[r]) => r < n
  <2>1. ~Exists(NoRefresh)
    BY DEF Exists, NoRefresh
  <2>2. \A r \in RefreshIds : r > refreshes => refresh[r] = NoRefresh
    BY DEF IInv, IdsInOrder
  <2> QED BY <1>2, <1>3, <2>1, <2>2 DEF RefreshIds
<1>6. Exists(refresh[t]) /\ refresh[t].code = job[h].code
  BY <1>1, <1>3 DEF IInv, JobsOK, OwnOK, Present, Deleted
<1>7. refresh[t] \in Refresh /\ t < n /\ t # n
  BY <1>1, <1>5, <1>6, RowsTyped DEF RefreshIds
<1>8. refresh \in [RefreshIds -> Refresh \cup {NoRefresh}]
  BY <1>1 DEF TypeOK
<1>9. /\ refresh'[n] = RefreshOf(job[h], FALSE)
      /\ refresh'[t] = [refresh[t] EXCEPT !.next = n]
      /\ \A r \in RefreshIds \ {t, n} : refresh'[r] = refresh[r]
  BY <1>4, <1>7, <1>8
<1>10. /\ SameGrant(refresh'[t], refresh[t])
       /\ refresh'[t].next = n /\ refresh'[t].revoked = refresh[t].revoked
  BY <1>7, <1>9 DEF SameGrant, Refresh
<1> QED BY <1>1, <1>3, <1>5, <1>6, <1>7, <1>9, <1>10

LEMMA ReplaceKeeps == ASSUME IInv, TypeOK', NEW h \in Handlers, Replace(h) PROVE IInv'
<1>1. TypeOK /\ job[h].pc = "replace"
  BY DEF IInv, Replace, At
<1>2. UNCHANGED <<client, consent, granted, code, codes, access>>
  BY DEF Replace, clients, grants
<1>3. CASE Deleted(h)
  <2>1. End(h) /\ refresh' = refresh /\ refreshes' = refreshes
    BY <1>3 DEF Replace, tokens
  <2> QED BY <1>1, <1>2, <2>1, QuietEnd, SameTables, JobStepKeeps
<1>4. CASE ~Deleted(h)
  <2>1. PICK t, n \in RefreshIds :
          /\ t = job[h].token /\ n = refreshes + 1 /\ job[h].code \in CodeIds
          /\ \A r \in RefreshIds : Exists(refresh[r]) => r < n
          /\ Exists(refresh[t]) /\ refresh[t].code = job[h].code /\ t < n
          /\ refresh'[n] = RefreshOf(job[h], FALSE)
          /\ SameGrant(refresh'[t], refresh[t])
          /\ refresh'[t].next = n /\ refresh'[t].revoked = refresh[t].revoked
          /\ \A r \in RefreshIds \ {t, n} : refresh'[r] = refresh[r]
    BY <1>4, ReplaceWrites
  <2>3. Present(job[h]) /\ JobOKs(job[h])
    BY <1>4 DEF Deleted, Present, IInv, JobsOK, JobOKs
  <2>5. \A g \in Handlers : ~Exchanges(job[g], job[h].code)
    BY <2>1 DEF IInv, OneExchange, Chain
  <2>6. /\ job'[h] = [job[h] EXCEPT !.pc = "issueNext", !.next = n]
        /\ \A g \in Handlers \ {h} : job'[g] = job[g]
    BY <1>1, <1>4, <2>1, GoJob DEF Replace
  <2>7. /\ job'[h].pc = "issueNext" /\ job'[h].user = job[h].user /\ job'[h].client = job[h].client
        /\ job'[h].scopes = job[h].scopes /\ job'[h].code = job[h].code
    BY <1>1, <2>6, JobTyped DEF Job
  <2>8. JobOKs(job[h])' /\ \A k \in CodeIds : ~Exchanges(job[h], k)'
    BY <1>1, <1>2, <2>3, <2>7 DEF JobOKs, OwnOK, ConsentedOK, FollowsOK, Follows, Issuing, Handing,
       Present, Exchanges
  <2>9. \A r \in RefreshIds \ {n} :
          refresh'[r] = refresh[r] \/ (Exists(refresh[r]) /\ SameGrant(refresh'[r], refresh[r]))
    BY <2>1
  <2>10. refreshes < MaxRefresh /\ refreshes' = refreshes + 1
    BY <1>4 DEF Replace
  <2> QED BY <1>1, <1>2, <2>1, <2>3, <2>5, <2>6, <2>8, <2>9, <2>10, InsertKeeps
<1> QED BY <1>3, <1>4

LEMMA WalkKeeps == ASSUME IInv, TypeOK', NEW h \in Handlers, Walk(h) PROVE IInv'
<1>1. TypeOK /\ job[h].pc = "walk" /\ job[h] \in Job
  BY JobTyped DEF IInv, Walk, At
<1>2. UNCHANGED <<client, consent, granted, code, codes, refresh, refreshes, access>>
  BY DEF Walk, clients, grants, tokens
<1>3. ASSUME NEW j, Go(h, j), j.pc \notin Handing PROVE IInv'
  <2>1. job'[h] = j /\ \A g \in Handlers \ {h} : job'[g] = job[g]
    BY <1>1, <1>3, GoJob
  <2>2. JobOKs(job[h])' /\ \A k \in CodeIds : ~Exchanges(job[h], k)'
    BY <1>3, <2>1, QuietJob
  <2> QED BY <1>2, <2>1, <2>2, SameTables, JobStepKeeps
<1>4. ASSUME NEW chain, NEW at
      PROVE  /\ [job[h] EXCEPT !.chain = chain, !.at = at].pc \notin Handing
             /\ [job[h] EXCEPT !.pc = "revoke", !.chain = chain, !.at = at].pc \notin Handing
  BY <1>1 DEF Job, Handing, Issuing
<1> QED BY <1>3, <1>4 DEF Walk

LEMMA RevokeChainKeeps == ASSUME IInv, TypeOK', NEW h \in Handlers, RevokeChain(h) PROVE IInv'
<1>1. TypeOK /\ End(h)
  BY DEF IInv, RevokeChain
<1>2. UNCHANGED <<client, consent, granted, code, codes, refreshes, access>>
  BY DEF RevokeChain, clients, grants
<1>3. \A r \in RefreshIds :
        refresh'[r] = refresh[r] \/ (Exists(refresh[r]) /\ SameGrant(refresh'[r], refresh[r]))
  <2>1. \A r \in RefreshIds :
          refresh'[r] = refresh[r] \/ (Exists(refresh[r]) /\ refresh'[r] = [refresh[r] EXCEPT !.revoked = TRUE])
    BY DEF RevokeChain
  <2>2. ASSUME NEW r \in RefreshIds, Exists(refresh[r])
        PROVE  SameGrant([refresh[r] EXCEPT !.revoked = TRUE], refresh[r])
    BY <1>1, <2>2, RowsTyped DEF SameGrant, Refresh
  <2> QED BY <2>1, <2>2
<1>4. Extends /\ NoNewRefresh
  BY <1>2, <1>3 DEF Extends, NoNewRefresh, SameGrant
<1>5. JobsOK' /\ OneExchange' /\ CodeYieldsOneSet'
  BY <1>1, <1>4, QuietEnd, JobsKept, ExchangeKept, OneSetKept
<1>6. ScopesConsented' /\ TokensFollowCode'
  BY <1>2, <1>3, <1>4, ScopesKept, FollowKept
<1>7. IdsInOrder' /\ ConsentsGranted'
  <2>1. ~Exists(NoRefresh)
    BY DEF Exists, NoRefresh
  <2> QED BY <1>2, <1>3, <2>1 DEF IInv, IdsInOrder, ConsentsGranted
<1> QED BY <1>5, <1>6, <1>7 DEF IInv

\* A client is deleted, and what it was given with it.
LEMMA DeleteKeeps == ASSUME IInv, TypeOK', NEW c \in Clients, Delete(c) PROVE IInv'
<1>1. TypeOK /\ job' = job /\ granted' = granted
  BY DEF IInv, Delete, Administer
<1>2. /\ \A d \in Clients : client'[d] = IF d = c THEN "deleted" ELSE client[d]
      /\ \A k \in CodeIds : code'[k] = IF code[k].client = c THEN NoCode ELSE code[k]
      /\ \A r \in RefreshIds : refresh'[r] = IF refresh[r].client = c THEN NoRefresh ELSE refresh[r]
      /\ access' = {a \in access : a.client # c}
      /\ codes' = codes /\ refreshes' = refreshes
  BY <1>1 DEF Delete, Administer, TypeOK
<1>3. \A u \in Users, d \in Clients : consent'[u][d] \subseteq consent[u][d]
  BY <1>1 DEF Delete, TypeOK
<1>4. ConsentsGranted'
  BY <1>1, <1>3 DEF IInv, ConsentsGranted
<1>5. IdsInOrder'
  <2>1. IdsInOrder
    BY DEF IInv
  <2> QED BY <1>2, <2>1 DEF IdsInOrder
<1>6. ScopesConsented'
  <2>1. /\ \A k \in CodeIds : ConsentedRow(code[k])
        /\ \A r \in RefreshIds : ConsentedRow(refresh[r])
        /\ \A a \in access : ConsentedRow(a)
    BY ScopesByRow DEF IInv
  <2>2. \A k \in CodeIds : ConsentedRow(code[k])'
    BY <1>1, <1>2, <2>1, NoRowOK DEF ConsentedRow
  <2>3. \A r \in RefreshIds : ConsentedRow(refresh[r])'
    BY <1>1, <1>2, <2>1, NoRowOK DEF ConsentedRow
  <2>4. \A a \in access' : ConsentedRow(a)'
    BY <1>1, <1>2, <2>1 DEF ConsentedRow
  <2> QED BY <2>2, <2>3, <2>4 DEF ScopesConsented, ConsentedRow
<1>7. ASSUME NEW row, Follows(row), row.client # c, row.code # None => row.code \in CodeIds
      PROVE  row.code # None => /\ code'[row.code].consumed
                                /\ row.client = code'[row.code].client
                                /\ row.user = code'[row.code].user
                                /\ row.scopes = code'[row.code].scopes
  BY <1>2, <1>7 DEF Follows
<1>8. TokensFollowCode'
  <2>1. /\ \A r \in RefreshIds : Follows(refresh[r])
        /\ \A a \in access : Follows(a)
    BY FollowByRow DEF IInv
  <2>2. ASSUME NEW r \in RefreshIds PROVE Follows(refresh[r])'
    <3>1. CASE refresh[r].client = c
      BY <1>2, <3>1 DEF Follows, NoRefresh
    <3>2. CASE refresh[r].client # c
      <4>1. refresh[r].code # None => refresh[r].code \in CodeIds
        BY <1>1, RowsTyped DEF TypeOK, Refresh, NoRefresh
      <4> QED BY <1>2, <1>7, <2>1, <3>2, <4>1 DEF Follows
    <3> QED BY <3>1, <3>2
  <2>3. ASSUME NEW a \in access' PROVE Follows(a)'
    <3>1. a \in access /\ a.client # c /\ (a.code # None => a.code \in CodeIds)
      BY <1>1, <1>2 DEF TypeOK, Access
    <3> QED BY <1>7, <2>1, <3>1 DEF Follows
  <2> QED BY <2>2, <2>3 DEF TokensFollowCode, Follows
<1>9. ASSUME NEW r \in RefreshIds, Exists(refresh[r])'
      PROVE  Exists(refresh[r]) /\ refresh'[r] = refresh[r]
  <2>1. ~Exists(NoRefresh)
    BY DEF Exists, NoRefresh
  <2> QED BY <1>2, <1>9, <2>1 DEF Exists
<1>10. CodeYieldsOneSet'
  BY <1>9 DEF IInv, CodeYieldsOneSet
<1>11. ASSUME NEW h \in Handlers, job[h].pc \in Issuing, Present(job[h])'
       PROVE  Present(job[h]) /\ job[h].client # c
  <2>1. job[h].client \in Clients
    BY <1>1, <1>11, JobTyped DEF JobOK, ForClient, Issuing
  <2> QED BY <1>1, <1>2, <1>11, <2>1 DEF Present
<1>12. OneExchange'
  <2>1. \A h \in Handlers, k \in CodeIds : Exchanges(job[h], k)' => Exchanges(job[h], k)
    BY <1>1, <1>11 DEF Exchanges, Issuing
  <2>2. \A k \in CodeIds, r \in RefreshIds : r \in Chain(k)' => r \in Chain(k)
    BY <1>9 DEF Chain
  <2>3. \A k \in CodeIds : Chain(k) = {} => Chain(k)' = {}
    BY <2>2 DEF Chain
  <2> QED BY <2>1, <2>3 DEF IInv, OneExchange
<1>13. ASSUME NEW h \in Handlers PROVE JobOKs(job[h])'
  <2>1. JobOKs(job[h])
    BY DEF IInv, JobsOK, JobOKs
  <2>2. ConsentedOK(job[h])'
    BY <1>1, <2>1 DEF JobOKs, ConsentedOK
  <2>3. OwnOK(job[h])'
    <3>1. SUFFICES ASSUME job[h].pc = "replace", Present(job[h])'
                   PROVE  /\ Exists(refresh[job[h].token])'
                          /\ refresh'[job[h].token].client = job[h].client
                          /\ refresh'[job[h].token].code = job[h].code
      BY <1>1 DEF OwnOK
    <3>2. Present(job[h]) /\ job[h].client # c /\ job[h].token \in RefreshIds
      BY <1>1, <1>11, <3>1, JobTyped DEF Issuing, JobOK, OnToken
    <3> QED BY <1>1, <1>2, <2>1, <3>1, <3>2 DEF JobOKs, OwnOK, Exists
  <2>4. FollowsOK(job[h])'
    <3>1. SUFFICES ASSUME job[h].pc \in Issuing, Present(job[h])' PROVE Follows(job[h])'
      BY <1>1 DEF FollowsOK
    <3>2. Present(job[h]) /\ job[h].client # c /\ (job[h].code # None => job[h].code \in CodeIds)
      BY <1>1, <1>11, <3>1, JobTyped DEF Job
    <3> QED BY <1>1, <1>7, <2>1, <3>1, <3>2 DEF JobOKs, FollowsOK, Follows
  <2> QED BY <2>2, <2>3, <2>4 DEF JobOKs
<1>14. JobsOK'
  BY <1>13 DEF JobsOK, JobOKs
<1> QED BY <1>4, <1>5, <1>6, <1>8, <1>10, <1>12, <1>14 DEF IInv

LEMMA OtherKeeps ==
  ASSUME IInv, TypeOK',
         \/ \E h \in Handlers : Fails(h)
         \/ \E c \in Clients : Disable(c) \/ \E scopes \in ScopeSets : Update(c, scopes)
         \/ Crash \/ Tick \/ UNCHANGED vars
  PROVE  IInv'
<1>1. TypeOK
  BY DEF IInv
<1>2. ASSUME NEW h \in Handlers, Fails(h) PROVE IInv'
  BY <1>1, <1>2, QuietEnd, SameTables, JobStepKeeps DEF Fails, clients, grants, tokens
<1>3. ASSUME NEW c \in Clients, Disable(c) PROVE IInv'
  <2>1. Extends
    BY <1>1, <1>3 DEF Disable, Administer, Extends, SameGrant, TypeOK
  <2> QED BY <1>3, <2>1, JobStepKeeps DEF Disable, Administer
<1>4. ASSUME NEW c \in Clients, NEW scopes \in ScopeSets, Update(c, scopes) PROVE IInv'
  BY <1>4, SameTables, JobStepKeeps DEF Update, Administer
<1>5. CASE Crash
  <2>1. \A h \in Handlers : job'[h].pc = "idle"
    BY <1>5 DEF Crash, Idle
  <2>2. \A h \in Handlers : JobOKs(job[h])' /\ \A k \in CodeIds : ~Exchanges(job[h], k)'
    BY <2>1, QuietJob DEF Handing, Issuing
  <2> QED BY <1>5, <2>2, SameTables, JobStepKeeps DEF Crash, clients, grants, tokens
<1>6. CASE Tick
  BY <1>6, SameTables, JobStepKeeps DEF Tick, clients, grants, tokens
<1>7. CASE UNCHANGED vars
  BY <1>7, SameTables, JobStepKeeps DEF vars
<1> QED BY <1>2, <1>3, <1>4, <1>5, <1>6, <1>7

LEMMA NextKeeps == ASSUME IInv, [Next]_vars PROVE IInv'
<1>1. TypeOK'
  BY NextTypeOK
<1>2. ASSUME NEW h \in Handlers, Step(h) PROVE IInv'
  BY <1>1, <1>2, FindKeeps, RecordKeeps, MintCodeKeeps, ConsumeKeeps, IssueKeeps, MintRefreshKeeps,
     RotateKeeps, ReplaceKeeps, IssueNextKeeps, WalkKeeps, RevokeChainKeeps DEF Step
<1> QED BY <1>1, <1>2, StartKeeps, DeleteKeeps, OtherKeeps DEF Next

LEMMA InitIInv == ASSUME Init PROVE IInv
<1>1. TypeOK
  BY InitTypeOK
<1>2. \A r \in RefreshIds : ~Exists(refresh[r]) /\ refresh[r] = NoRefresh
  BY DEF Init, Exists, NoRefresh
<1>3. \A h \in Handlers : job[h].pc = "idle"
  BY DEF Init, Idle
<1>4. IdsInOrder /\ ConsentsGranted
  BY <1>2 DEF Init, IdsInOrder, ConsentsGranted
<1>5. JobsOK /\ OneExchange
  BY <1>3 DEF JobsOK, OwnOK, ConsentedOK, FollowsOK, Handing, Issuing, OneExchange, Exchanges
<1>6. ScopesConsented
  BY <1>2, NoRowOK, ScopesByRow DEF Init
<1>7. TokensFollowCode
  BY <1>2, NoRowOK, FollowByRow DEF Init
<1>8. CodeYieldsOneSet
  BY <1>2 DEF CodeYieldsOneSet
<1> QED BY <1>1, <1>4, <1>5, <1>6, <1>7, <1>8 DEF IInv

-----------------------------------------------------------------------------
\* In every interleaving, the variables keep their types and the invariant holds.
THEOREM GrantsInvariant == Spec => []IInv
BY InitIInv, NextKeeps, PTL DEF Spec

\* A request's next statement has what it needs: a rotation that marks the token
\* it read finds its row, a walk is at a token.
THEOREM TypesOK == Spec => []TypeOK
BY GrantsInvariant, PTL DEF IInv

\* In every interleaving, codes and tokens carry no scope that their user did not
\* consent to for their client.
THEOREM Consented == Spec => []ScopesConsented
BY GrantsInvariant, PTL DEF IInv

\* In every interleaving, a code becomes one set of tokens.
THEOREM OneSet == Spec => []CodeYieldsOneSet
BY GrantsInvariant, PTL DEF IInv

\* In every interleaving, a token is for the client, the user and the scopes of
\* the code that its chain began with.
THEOREM Followed == Spec => []TokensFollowCode
BY GrantsInvariant, PTL DEF IInv

-----------------------------------------------------------------------------
(* What overlapping requests do to a chain *)

\* Refresh tokens that somebody has heard of were inserted.
HeardOf(j) ==
  /\ j.token <= refreshes /\ j.next <= refreshes /\ j.at <= refreshes
  /\ j.chain \subseteq 1..refreshes

\* A token is replaced by a later one of its chain.
LinksOK ==
  \A k \in CodeIds : \A r \in Chain(k) :
    refresh[r].next # None => r < refresh[r].next /\ refresh[r].next \in Chain(k)

\* A walk has left behind what is before it in its chain.
WalkOK(h) ==
  LET j == job[h]
  IN  /\ j.pc = "rotate" => j.chain = {}
      /\ j.pc = "walk" => \A r \in j.chain :
           IF Exists(refresh[j.at]) THEN r \in Chain(refresh[j.at].code) /\ r < j.at
                                    ELSE ~Exists(refresh[r])

LinkInv ==
  /\ given \subseteq 1..refreshes
  /\ LinksOK
  /\ \A h \in Handlers : HeardOf(job[h]) /\ WalkOK(h)

\* The request can still make a second token of chain k usable, or revoke tokens of
\* which none is.
Threat(h, k) ==
  LET j == job[h]
  IN  \/ j.pc = "rotate" /\ j.token \in Chain(k)
      \/ j.pc = "replace" /\ Present(j) /\ j.code = k
      \/ j.pc = "walk" /\ j.at \in Chain(k) /\ ~Revoked(k)
      \/ j.pc = "revoke" /\ j.chain \cap Chain(k) # {} /\ ~Revoked(k)

\* It would not, if it went on now.
Sound(h, k) ==
  LET j == job[h]
  IN  /\ j.pc = "replace" => Usable(j.token)
      /\ j.pc = "revoke" => j.chain \cap UsableIn(k) # {}

Threats(k) == {h \in Handlers : Threat(h, k)}
Sounds(k)  == {h \in Threats(k) : Sound(h, k)}

\* Of the requests that threaten a chain one may be sound: only the others count.
Risk(T, S) == IF S = {} THEN Cardinality(T) ELSE Cardinality(T) - 1
Flag(k)    == IF Revoked(k) THEN 1 ELSE 0

\* The tokens that are usable, a revocation, and the requests that can still add to
\* them.  Inductive: a replacement of a token that was usable leaves the sum, one of
\* a token that was not takes an unsound request away for a usable token; a
\* revocation takes usable tokens away, or was itself an unsound request.
Bounded(k) == Cardinality(UsableIn(k)) + Flag(k) + Risk(Threats(k), Sounds(k)) <= races + 1

ChainInv == IInv /\ LinkInv /\ \A k \in CodeIds : Bounded(k)

LEMMA RiskTyped ==
  ASSUME NEW T, IsFiniteSet(T), NEW S, S \subseteq T
  PROVE  /\ Risk(T, S) \in Nat /\ Cardinality(T) \in Nat
         /\ Risk(T, S) <= Cardinality(T) /\ Cardinality(T) <= Risk(T, S) + 1
<1>1. Cardinality(T) \in Nat /\ (Cardinality(T) = 0 <=> T = {})
  BY FS_CardinalityType, FS_EmptySet
<1>2. CASE S = {}
  BY <1>1, <1>2 DEF Risk
<1>3. CASE S # {}
  <2>1. Cardinality(T) # 0
    BY <1>1, <1>3
  <2> QED BY <1>1, <1>3, <2>1 DEF Risk
<1> QED BY <1>2, <1>3

\* Fewer requests threaten the chain, and those of them that were sound still are.
LEMMA RiskShrinks ==
  ASSUME NEW T, IsFiniteSet(T), NEW S, S \subseteq T,
         NEW T2, T2 \subseteq T, NEW S2, S2 \subseteq T2, S \cap T2 \subseteq S2
  PROVE  IsFiniteSet(T2) /\ Risk(T2, S2) <= Risk(T, S)
<1>1. IsFiniteSet(T2) /\ Cardinality(T2) <= Cardinality(T)
  BY FS_Subset
<1>2. /\ Risk(T, S) \in Nat /\ Cardinality(T) \in Nat /\ Cardinality(T) <= Risk(T, S) + 1
      /\ Risk(T2, S2) \in Nat /\ Cardinality(T2) \in Nat /\ Risk(T2, S2) <= Cardinality(T2)
  BY <1>1, RiskTyped
<1>3. CASE S = {}
  BY <1>1, <1>2, <1>3 DEF Risk
<1>4. CASE S2 # {}
  BY <1>1, <1>2, <1>4 DEF Risk
<1>5. CASE S # {} /\ S2 = {}
  <2>1. PICK x \in S : x \notin T2
    BY <1>5
  <2>2. T2 \subseteq T \ {x} /\ x \in T
    BY <2>1
  <2>3. IsFiniteSet(T \ {x}) /\ Cardinality(T \ {x}) = Cardinality(T) - 1
    BY <2>2, FS_RemoveElement
  <2>4. Cardinality(T2) <= Cardinality(T \ {x})
    BY <2>2, <2>3, FS_Subset
  <2> QED BY <1>1, <1>2, <2>3, <2>4
<1> QED BY <1>1, <1>3, <1>4, <1>5

\* A request that was not sound does not threaten the chain any more.
LEMMA RiskDrops ==
  ASSUME NEW T, IsFiniteSet(T), NEW S, S \subseteq T, NEW h \in T, h \notin S,
         NEW T2, T2 \subseteq T \ {h}, NEW S2, S2 \subseteq T2, S \cap T2 \subseteq S2
  PROVE  Risk(T2, S2) <= Risk(T, S) - 1
<1>1. /\ IsFiniteSet(T \ {h}) /\ Cardinality(T \ {h}) = Cardinality(T) - 1
      /\ Cardinality(T) \in Nat
  BY FS_RemoveElement, FS_CardinalityType
<1>2. Risk(T2, S2) <= Risk(T \ {h}, S) /\ IsFiniteSet(T2)
  BY <1>1, RiskShrinks
<1>3. Risk(T \ {h}, S) = Risk(T, S) - 1
  BY <1>1 DEF Risk
<1>4. Risk(T2, S2) \in Nat /\ Risk(T \ {h}, S) \in Nat /\ Risk(T, S) \in Nat
  BY <1>1, <1>2, RiskTyped
<1> QED BY <1>2, <1>3, <1>4

\* A request that does not threaten the chain any more leaves no greater risk.
LEMMA RiskLeaves ==
  ASSUME NEW T, IsFiniteSet(T), NEW S, S \subseteq T, NEW h \in T,
         NEW T2, T2 \subseteq T \ {h}, NEW S2, S2 \subseteq T2
  PROVE  IsFiniteSet(T2) /\ Risk(T2, S2) <= Risk(T, S)
<1>1. /\ IsFiniteSet(T \ {h}) /\ Cardinality(T \ {h}) = Cardinality(T) - 1
      /\ Cardinality(T) \in Nat
  BY FS_RemoveElement, FS_CardinalityType
<1>2. IsFiniteSet(T2) /\ Cardinality(T2) <= Cardinality(T \ {h})
  BY <1>1, FS_Subset
<1> QED BY <1>1, <1>2, RiskTyped

\* One more sound request.
LEMMA RiskGrows ==
  ASSUME NEW T, IsFiniteSet(T), NEW S, S \subseteq T, NEW h,
         NEW T2, T2 \subseteq T \cup {h}, NEW S2, S2 \subseteq T2, S \subseteq S2, h \in T2 => h \in S2
  PROVE  /\ IsFiniteSet(T2) /\ Risk(T2, S2) <= Risk(T, S) + 1
         /\ T = {} => Risk(T2, S2) = 0
<1>1. /\ IsFiniteSet(T \cup {h}) /\ Cardinality(T \cup {h}) <= Cardinality(T) + 1
      /\ Cardinality(T) \in Nat /\ Cardinality(T \cup {h}) \in Nat
  <2>1. Cardinality(T) \in Nat
    BY FS_CardinalityType
  <2>2. /\ IsFiniteSet(T \cup {h})
        /\ Cardinality(T \cup {h}) = IF h \in T THEN Cardinality(T) ELSE Cardinality(T) + 1
    BY FS_AddElement
  <2> QED BY <2>1, <2>2
<1>2. IsFiniteSet(T2) /\ Cardinality(T2) <= Cardinality(T \cup {h}) /\ Cardinality(T2) \in Nat
  BY <1>1, FS_Subset, FS_CardinalityType
<1>3. ASSUME S = {} PROVE Risk(T2, S2) <= Risk(T, S) + 1
  <2>1. Risk(T, S) = Cardinality(T)
    BY <1>3 DEF Risk
  <2>2. Risk(T2, S2) \in Nat /\ Risk(T2, S2) <= Cardinality(T2)
    BY <1>2, RiskTyped
  <2> QED BY <1>1, <1>2, <2>1, <2>2
<1>4. T = {} => Risk(T2, S2) = 0
  <2>1. CASE T # {}
    BY <2>1
  <2>2. CASE T = {} /\ h \in T2
    <3>1. T2 = {h} /\ S2 # {}
      BY <2>2
    <3> QED BY <3>1, FS_Singleton DEF Risk
  <2>3. CASE T = {} /\ h \notin T2
    <3>1. T2 = {} /\ S2 = {}
      BY <2>3
    <3> QED BY <3>1, FS_EmptySet DEF Risk
  <2> QED BY <2>1, <2>2, <2>3
<1>5. ASSUME S # {} PROVE Risk(T2, S2) <= Risk(T, S) + 1
  <2>1. S2 # {}
    BY <1>5
  <2> QED BY <1>1, <1>2, <1>5, <2>1 DEF Risk
<1> QED BY <1>2, <1>3, <1>4, <1>5

\* The sets that are counted.
LEMMA Counted ==
  ASSUME TypeOK, NEW k
  PROVE  /\ IsFiniteSet(UsableIn(k)) /\ Cardinality(UsableIn(k)) \in Nat
         /\ UsableIn(k) \subseteq Chain(k) /\ Chain(k) \subseteq RefreshIds
         /\ IsFiniteSet(Threats(k)) /\ Sounds(k) \subseteq Threats(k) /\ Threats(k) \subseteq Handlers
         /\ Risk(Threats(k), Sounds(k)) \in Nat
         /\ Flag(k) \in {0, 1} /\ races \in Nat
<1>1. IsFiniteSet(RefreshIds) /\ IsFiniteSet(Handlers)
  BY FS_Interval, OAuthAssumption DEF RefreshIds, Handlers
<1>2. UsableIn(k) \subseteq Chain(k) /\ Chain(k) \subseteq RefreshIds
  BY DEF UsableIn, Chain
<1>3. Sounds(k) \subseteq Threats(k) /\ Threats(k) \subseteq Handlers
  BY DEF Sounds, Threats
<1>4. IsFiniteSet(UsableIn(k)) /\ Cardinality(UsableIn(k)) \in Nat
  BY <1>1, <1>2, FS_Subset, FS_CardinalityType
<1>5. IsFiniteSet(Threats(k))
  BY <1>1, <1>3, FS_Subset
<1>6. Risk(Threats(k), Sounds(k)) \in Nat
  BY <1>3, <1>5, RiskTyped
<1> QED BY <1>2, <1>3, <1>4, <1>5, <1>6 DEF Flag, TypeOK

\* Neither is another token usable, nor does another request threaten the chain.
LEMMA KeepsBound ==
  ASSUME TypeOK, TypeOK', NEW k, Bounded(k), UsableIn(k)' \subseteq UsableIn(k),
         Revoked(k)' => Revoked(k), Threats(k)' \subseteq Threats(k),
         \A g \in Threats(k)' : Sound(g, k) => Sound(g, k)',
         races' >= races
  PROVE  Bounded(k)'
<1>1. Sounds(k) \cap Threats(k)' \subseteq Sounds(k)'
  BY DEF Sounds
<1>2. Sounds(k)' \subseteq Threats(k)'
  BY DEF Sounds
<1>3. PICK T, S, T2, S2 : T = Threats(k) /\ S = Sounds(k) /\ T2 = Threats(k)' /\ S2 = Sounds(k)'
  OBVIOUS
<1>4. Risk(T2, S2) <= Risk(T, S) /\ IsFiniteSet(T2) /\ Risk(T, S) \in Nat /\ Risk(T2, S2) \in Nat
  <2>1. IsFiniteSet(T) /\ S \subseteq T
    BY <1>3, Counted
  <2>2. T2 \subseteq T /\ S2 \subseteq T2 /\ S \cap T2 \subseteq S2
    BY <1>1, <1>2, <1>3
  <2> QED BY <2>1, <2>2, RiskShrinks, RiskTyped
<1>5. PICK U, U2 : U = UsableIn(k) /\ U2 = UsableIn(k)'
  OBVIOUS
<1>6. Cardinality(U2) <= Cardinality(U) /\ Cardinality(U2) \in Nat /\ Cardinality(U) \in Nat
  BY <1>5, Counted, FS_Subset, FS_CardinalityType
<1>7. Flag(k)' <= Flag(k) /\ Flag(k) \in {0, 1} /\ Flag(k)' \in {0, 1}
  BY DEF Flag
<1>8. Cardinality(U) + Flag(k) + Risk(T, S) <= races + 1
  BY <1>3, <1>5 DEF Bounded
<1>9. Cardinality(U2) + Flag(k)' + Risk(T2, S2) <= races' + 1
  BY <1>4, <1>6, <1>7, <1>8 DEF TypeOK
<1> QED BY <1>3, <1>5, <1>9 DEF Bounded

Turning == {"rotate", "replace", "walk", "revoke"}

\* A request that is not about a token that was presented.
LEMMA NotTurning ==
  ASSUME NEW h \in Handlers, job'[h].pc \notin Turning
  PROVE  WalkOK(h)' /\ \A k : ~Threat(h, k)'
BY DEF WalkOK, Threat, Turning

LEMMA IdleHeardOf == ASSUME NEW h, TypeOK', job'[h] = Idle PROVE HeardOf(job[h])' /\ job'[h].pc \notin Turning
BY DEF HeardOf, Idle, None, TypeOK, Turning

LEMMA EndsTurn ==
  ASSUME TypeOK, TypeOK', NEW h \in Handlers, End(h)
  PROVE  /\ HeardOf(job[h])' /\ WalkOK(h)' /\ \A k : ~Threat(h, k)'
         /\ \A g \in Handlers \ {h} : job'[g] = job[g]
<1>1. job'[h] = Idle /\ \A g \in Handlers \ {h} : job'[g] = job[g]
  BY GoJob DEF End
<1> QED BY <1>1, IdleHeardOf, NotTurning

\* A request that stays as it is threatens a chain only if it did before.
LEMMA SameThreat ==
  ASSUME TypeOK, refresh' = refresh, \A c \in Clients : client[c] = "deleted" => client'[c] = "deleted",
         NEW h \in Handlers, job'[h] = job[h], NEW k \in CodeIds
  PROVE  /\ Threat(h, k)' => Threat(h, k)
         /\ Sound(h, k) <=> Sound(h, k)'
         /\ WalkOK(h) => WalkOK(h)'
         /\ client' = client => (Threat(h, k)' <=> Threat(h, k))
<1>1. JobOK(job[h])
  BY JobTyped
<1>2. job[h].pc = "replace" /\ Present(job[h])' => Present(job[h])
  BY <1>1 DEF Present, JobOK, ForClient
<1>3. Chain(k)' = Chain(k) /\ UsableIn(k)' = UsableIn(k) /\ (Revoked(k)' <=> Revoked(k))
  BY DEF Chain, UsableIn, Usable, Revoked, Exists
<1>4. Threat(h, k)' => Threat(h, k)
  BY <1>2, <1>3 DEF Threat
<1>5. Sound(h, k) <=> Sound(h, k)'
  BY <1>3 DEF Sound, Usable, Exists
<1>6. WalkOK(h) => WalkOK(h)'
  BY DEF WalkOK, Chain, Exists
<1>7. client' = client => (Threat(h, k)' <=> Threat(h, k))
  BY <1>3 DEF Threat, Present
<1> QED BY <1>4, <1>5, <1>6, <1>7

\* The refresh tokens stay as they are, and no request threatens another chain.
LEMMA TurnStep ==
  ASSUME ChainInv, TypeOK', refresh' = refresh, refreshes' = refreshes, given' \subseteq 1..refreshes,
         \A c \in Clients : client[c] = "deleted" => client'[c] = "deleted",
         races' >= races,
         \A h \in Handlers : \/ job'[h] = job[h]
                            \/ /\ HeardOf(job[h])' /\ WalkOK(h)'
                               /\ \A k \in CodeIds : Threat(h, k)' =>
                                    Threat(h, k) /\ (Sound(h, k) => Sound(h, k)')
  PROVE  LinkInv' /\ \A k \in CodeIds : Bounded(k)'
<1>1. TypeOK /\ LinkInv /\ \A k \in CodeIds : Bounded(k)
  BY DEF ChainInv, IInv
<1>2. \A k : Chain(k)' = Chain(k) /\ UsableIn(k)' = UsableIn(k) /\ (Revoked(k)' <=> Revoked(k))
  BY DEF Chain, UsableIn, Usable, Revoked, Exists
<1>3. ASSUME NEW k \in CodeIds PROVE Bounded(k)'
  <2>1. ASSUME NEW h \in Handlers, Threat(h, k)'
        PROVE  Threat(h, k) /\ (Sound(h, k) => Sound(h, k)')
    BY <1>1, <2>1, SameThreat
  <2>2. Threats(k)' \subseteq Threats(k) /\ \A g \in Threats(k)' : Sound(g, k) => Sound(g, k)'
    BY <2>1 DEF Threats
  <2> QED BY <1>1, <1>2, <2>2, KeepsBound
<1>4. LinksOK'
  BY <1>1, <1>2 DEF LinkInv, LinksOK
<1>5. ASSUME NEW h \in Handlers PROVE HeardOf(job[h])' /\ WalkOK(h)'
  <2>1. CASE job'[h] = job[h]
    <3>1. HeardOf(job[h]) /\ WalkOK(h)
      BY <1>1 DEF LinkInv
    <3>2. WalkOK(h)'
      BY <2>1, <3>1 DEF WalkOK, Chain, Exists
    <3>3. HeardOf(job[h])'
      BY <2>1, <3>1 DEF HeardOf
    <3> QED BY <3>2, <3>3
  <2> QED BY <2>1
<1>6. LinkInv'
  BY <1>4, <1>5 DEF LinkInv
<1> QED BY <1>3, <1>6

\* A rotation begins: one more request threatens its chain, and it is sound.
LEMMA BeginRefreshTurns ==
  ASSUME ChainInv, TypeOK', NEW h \in Handlers, NEW c \in Clients, NEW r \in RefreshIds, BeginRefresh(h, c, r)
  PROVE  LinkInv' /\ \A k \in CodeIds : Bounded(k)'
<1> DEFINE j == [Idle EXCEPT !.pc = "rotate", !.token = r]
<1>1. TypeOK /\ LinkInv /\ \A k \in CodeIds : Bounded(k)
  BY DEF ChainInv, IInv
<1>2. /\ refresh' = refresh /\ refreshes' = refreshes /\ given' = given /\ client' = client
      /\ r \in given /\ job[h].pc = "idle" /\ Go(h, j)
      /\ races' = IF Quiet THEN races ELSE races + 1
  BY DEF BeginRefresh, Begin, tokens, clients, At
<1>3. job'[h] = j /\ \A g \in Handlers \ {h} : job'[g] = job[g]
  BY <1>1, <1>2, GoJob
<1>4. /\ j.pc = "rotate" /\ j.token = r /\ j.next = None /\ j.at = None /\ j.chain = {}
  BY DEF Idle
<1> HIDE DEF j
<1>5. HeardOf(job[h])' /\ WalkOK(h)'
  <2>1. r <= refreshes /\ refreshes \in Nat
    BY <1>1, <1>2, OAuthAssumption DEF LinkInv, TypeOK
  <2>2. HeardOf(job[h])'
    BY <1>2, <1>3, <1>4, <2>1 DEF HeardOf, None
  <2> QED BY <1>3, <1>4, <2>2 DEF WalkOK
<1>6. LinkInv'
  <2>1. LinksOK'
    BY <1>1, <1>2 DEF LinkInv, LinksOK, Chain, Exists
  <2>2. ASSUME NEW g \in Handlers \ {h} PROVE HeardOf(job[g])' /\ WalkOK(g)'
    BY <1>1, <1>2, <1>3, <2>2 DEF LinkInv, HeardOf, WalkOK, Chain, Exists
  <2> QED BY <1>1, <1>2, <1>5, <2>1, <2>2 DEF LinkInv
<1>7. ASSUME NEW k \in CodeIds PROVE Bounded(k)'
  <2>1. ASSUME NEW g \in Handlers \ {h} PROVE (Threat(g, k)' <=> Threat(g, k)) /\ (Sound(g, k) <=> Sound(g, k)')
    BY <1>1, <1>2, <1>3, <2>1, SameThreat
  <2>2. ~Threat(h, k) /\ Sound(h, k)'
    BY <1>2, <1>3, <1>4 DEF Threat, Sound
  <2>3. PICK T, S, T2, S2, U : /\ T = Threats(k) /\ S = Sounds(k) /\ T2 = Threats(k)' /\ S2 = Sounds(k)'
                               /\ U = UsableIn(k)
    OBVIOUS
  <2>4. /\ T2 \subseteq T \cup {h} /\ S2 \subseteq T2 /\ S \subseteq S2 /\ (h \in T2 => h \in S2)
    BY <2>1, <2>2, <2>3 DEF Threats, Sounds
  <2>5. IsFiniteSet(T) /\ S \subseteq T /\ Risk(T, S) \in Nat /\ Cardinality(U) \in Nat /\ Flag(k) \in {0, 1}
        /\ races \in Nat
    BY <1>1, <2>3, Counted
  <2>6. Risk(T2, S2) <= Risk(T, S) + 1 /\ (T = {} => Risk(T2, S2) = 0) /\ Risk(T2, S2) \in Nat
    BY <2>4, <2>5, RiskGrows, RiskTyped
  <2>7. Quiet => T = {}
    BY <2>3 DEF Quiet, At, Threats, Threat
  <2>8. UsableIn(k)' = U /\ Flag(k)' = Flag(k)
    BY <1>2, <2>3 DEF UsableIn, Usable, Chain, Exists, Flag, Revoked
  <2>9. Cardinality(U) + Flag(k) + Risk(T, S) <= races + 1
    BY <1>1, <2>3 DEF Bounded
  <2>10. Cardinality(U) + Flag(k) + Risk(T2, S2) <= races' + 1
    BY <1>2, <2>5, <2>6, <2>7, <2>9
  <2> QED BY <2>3, <2>8, <2>10 DEF Bounded
<1> QED BY <1>6, <1>7

\* A step of h that is not about a token that was presented.
LEMMA QuietTurns ==
  ASSUME ChainInv, TypeOK', NEW h \in Handlers, job'[h].pc \notin Turning, HeardOf(job[h])',
         \A g \in Handlers \ {h} : job'[g] = job[g],
         refresh' = refresh, refreshes' = refreshes, given' \subseteq 1..refreshes, client' = client,
         races' >= races
  PROVE  LinkInv' /\ \A k \in CodeIds : Bounded(k)'
<1>1. WalkOK(h)' /\ \A k \in CodeIds : ~Threat(h, k)'
  BY NotTurning
<1> QED BY <1>1, TurnStep

LEMMA StartTurns ==
  ASSUME ChainInv, TypeOK', NEW h \in Handlers, Start(h)
  PROVE  LinkInv' /\ \A k \in CodeIds : Bounded(k)'
<1> DEFINE Goal == LinkInv' /\ \A k \in CodeIds : Bounded(k)'
<1>1. TypeOK /\ LinkInv /\ refreshes \in Nat /\ races \in Nat
  BY OAuthAssumption DEF ChainInv, IInv, TypeOK
<1>2. ASSUME NEW op, NEW j, Begin(h, op, j), j.pc \notin Turning, j.token = None, j.next = None,
             j.at = None, j.chain = {}
      PROVE  Goal
  <2>1. job'[h] = j /\ \A g \in Handlers \ {h} : job'[g] = job[g]
    BY <1>1, <1>2, GoJob DEF Begin
  <2>2. /\ refresh' = refresh /\ refreshes' = refreshes /\ given' = given /\ client' = client
        /\ races' = IF Quiet THEN races ELSE races + 1
    BY <1>2 DEF Begin, tokens, clients
  <2>3. HeardOf(job[h])' /\ job'[h].pc \notin Turning
    BY <1>1, <1>2, <2>1, <2>2 DEF HeardOf, None
  <2>4. given' \subseteq 1..refreshes /\ races' >= races
    BY <1>1, <2>2 DEF LinkInv
  <2> QED BY <2>1, <2>2, <2>3, <2>4, QuietTurns
<1> PICK c \in Clients :
      \/ \E asked \in ScopeSets :
           \/ \E u \in Users : BeginAuthorize(h, u, c, asked) \/ BeginConsent(h, u, c, asked)
           \/ BeginClient(h, c, asked)
      \/ \E k \in CodeIds : BeginExchange(h, c, k)
      \/ \E r \in RefreshIds : BeginRefresh(h, c, r)
  BY DEF Start
<1> HIDE DEF Goal
<1> USE DEF Idle, Turning
<1>3. ASSUME NEW asked \in ScopeSets, NEW u \in Users, BeginAuthorize(h, u, c, asked) PROVE Goal
  BY <1>2, <1>3 DEF BeginAuthorize
<1>4. ASSUME NEW asked \in ScopeSets, NEW u \in Users, BeginConsent(h, u, c, asked) PROVE Goal
  BY <1>2, <1>4 DEF BeginConsent
<1>5. ASSUME NEW asked \in ScopeSets, BeginClient(h, c, asked) PROVE Goal
  BY <1>2, <1>5 DEF BeginClient
<1>6. ASSUME NEW k \in CodeIds, BeginExchange(h, c, k) PROVE Goal
  BY <1>2, <1>6 DEF BeginExchange
<1>7. ASSUME NEW r \in RefreshIds, BeginRefresh(h, c, r) PROVE Goal
  BY <1>7, BeginRefreshTurns DEF Goal
<1> QED BY <1>3, <1>4, <1>5, <1>6, <1>7 DEF Goal

\* The steps that are not about refresh tokens, or answer with one.
LEMMA CalmTurns ==
  ASSUME ChainInv, TypeOK', NEW h \in Handlers,
         Find(h) \/ Record(h) \/ MintCode(h) \/ Consume(h) \/ Issue(h) \/ IssueNext(h) \/ Fails(h)
  PROVE  LinkInv' /\ \A k \in CodeIds : Bounded(k)'
<1>1. TypeOK /\ LinkInv /\ JobOK(job[h]) /\ job[h] \in Job /\ HeardOf(job[h]) /\ refreshes \in Nat /\ races \in Nat
  BY JobTyped, OAuthAssumption DEF ChainInv, IInv, LinkInv, TypeOK
<1>2. refresh' = refresh /\ refreshes' = refreshes /\ client' = client /\ races' = races
  BY DEF Find, Record, MintCode, Consume, Issue, IssueNext, Fails, tokens, clients, bounds
<1>3. given' \subseteq 1..refreshes
  <2>1. CASE IssueNext(h)
    <3>1. job[h].next \in RefreshIds /\ job[h].next <= refreshes
      BY <1>1, <2>1 DEF IssueNext, At, JobOK, HeardOf
    <3>2. job[h].next \in 1..refreshes
      BY <1>1, <3>1 DEF RefreshIds
    <3> QED BY <1>1, <2>1, <3>2 DEF IssueNext, LinkInv
  <2>2. CASE ~IssueNext(h)
    BY <1>1, <2>2 DEF LinkInv, Find, Record, MintCode, Consume, Issue, Fails, tokens
  <2> QED BY <2>1, <2>2
<1>4. /\ job'[h].pc \notin Turning /\ HeardOf(job[h])'
      /\ \A g \in Handlers \ {h} : job'[g] = job[g]
  <2> DEFINE Goal == /\ job'[h].pc \notin Turning /\ HeardOf(job[h])'
                     /\ \A g \in Handlers \ {h} : job'[g] = job[g]
  <2>1. CASE End(h)
    BY <1>1, <2>1, GoJob, IdleHeardOf DEF End
  <2>2. ASSUME NEW u, NEW s, Go(h, [job[h] EXCEPT !.pc = "issue", !.user = u, !.scopes = s])
        PROVE  Goal
    <3>1. job'[h] = [job[h] EXCEPT !.pc = "issue", !.user = u, !.scopes = s]
          /\ \A g \in Handlers \ {h} : job'[g] = job[g]
      BY <1>1, <2>2, GoJob
    <3>2. /\ job'[h].pc = "issue" /\ job'[h].token = job[h].token /\ job'[h].next = job[h].next
          /\ job'[h].at = job[h].at /\ job'[h].chain = job[h].chain
      BY <1>1, <3>1 DEF Job
    <3> QED BY <1>1, <1>2, <3>1, <3>2 DEF Turning, HeardOf
  <2>3. ASSUME NEW pc \in {"mintCode", "mintRefresh"}, Go(h, [job[h] EXCEPT !.pc = pc])
        PROVE  Goal
    <3>1. job'[h] = [job[h] EXCEPT !.pc = pc] /\ \A g \in Handlers \ {h} : job'[g] = job[g]
      BY <1>1, <2>3, GoJob
    <3>2. /\ job'[h].pc = pc /\ job'[h].token = job[h].token /\ job'[h].next = job[h].next
          /\ job'[h].at = job[h].at /\ job'[h].chain = job[h].chain
      BY <1>1, <3>1 DEF Job
    <3> QED BY <1>1, <1>2, <3>1, <3>2 DEF Turning, HeardOf
  <2>4. CASE Consume(h)
    BY <2>1, <2>2, <2>4 DEF Consume, Exchange
  <2> QED BY <2>1, <2>3, <2>4 DEF Find, Record, MintCode, Issue, IssueNext, Fails
<1> QED BY <1>1, <1>2, <1>3, <1>4, QuietTurns

\* What exists was inserted.
LEMMA ExistsInserted ==
  ASSUME IInv, NEW r \in RefreshIds, Exists(refresh[r])
  PROVE  r <= refreshes /\ r \in Nat /\ refreshes \in Nat
<1>1. ~Exists(NoRefresh) /\ (r > refreshes => refresh[r] = NoRefresh)
  BY DEF Exists, NoRefresh, IInv, IdsInOrder
<1>2. r \in Nat /\ refreshes \in Nat
  BY OAuthAssumption DEF RefreshIds, IInv, TypeOK
<1> QED BY <1>1, <1>2

LEMMA RotateTurns ==
  ASSUME ChainInv, TypeOK', NEW h \in Handlers, Rotate(h)
  PROVE  LinkInv' /\ \A k \in CodeIds : Bounded(k)'
<1>1. PICK t \in RefreshIds : t = job[h].token
  BY JobTyped DEF ChainInv, IInv, Rotate, At, JobOK, OnToken
<1>2. /\ TypeOK /\ job[h] \in Job /\ job[h].chain = {} /\ job[h].pc = "rotate"
      /\ HeardOf(job[h]) /\ given \subseteq 1..refreshes /\ races \in Nat /\ refreshes \in Nat
  BY JobTyped, OAuthAssumption DEF ChainInv, IInv, LinkInv, WalkOK, Rotate, At, TypeOK
<1>3. refresh' = refresh /\ refreshes' = refreshes /\ given' = given /\ client' = client /\ races' = races
  BY DEF Rotate, tokens, clients, bounds
<1>4. \A g \in Handlers \ {h} : job'[g] = job[g]
  BY <1>2, GoJob DEF Rotate, End
<1>5. ASSUME HeardOf(job[h])', WalkOK(h)',
             \A k \in CodeIds : Threat(h, k)' => Threat(h, k) /\ Sound(h, k)'
      PROVE  LinkInv' /\ \A k \in CodeIds : Bounded(k)'
  BY <1>2, <1>3, <1>4, <1>5, TurnStep
<1>6. CASE End(h)
  BY <1>2, <1>5, <1>6, EndsTurn
<1>7. CASE Go(h, [job[h] EXCEPT !.pc = "walk", !.at = t])
  <2>1. job'[h] = [job[h] EXCEPT !.pc = "walk", !.at = t]
    BY <1>2, <1>7, GoJob
  <2>2. /\ job'[h].pc = "walk" /\ job'[h].chain = {} /\ job'[h].at = t
        /\ job'[h].token = t /\ job'[h].next = job[h].next
    BY <1>1, <1>2, <2>1 DEF Job
  <2>3. HeardOf(job[h])' /\ WalkOK(h)'
    BY <1>1, <1>2, <1>3, <2>2 DEF HeardOf, WalkOK
  <2>4. ASSUME NEW k \in CodeIds, Threat(h, k)' PROVE Threat(h, k) /\ Sound(h, k)'
    BY <1>1, <1>2, <1>3, <2>2, <2>4 DEF Threat, Sound, Chain, Exists
  <2> QED BY <1>5, <2>3, <2>4
<1>8. CASE /\ Usable(t)
           /\ Go(h, [job[h] EXCEPT !.pc = "replace", !.user = refresh[t].user, !.client = refresh[t].client,
                                   !.scopes = refresh[t].scopes, !.code = refresh[t].code])
  <2>1. PICK u, c, s, l : u = refresh[t].user /\ c = refresh[t].client
                          /\ s = refresh[t].scopes /\ l = refresh[t].code
    OBVIOUS
  <2>2. job'[h] = [job[h] EXCEPT !.pc = "replace", !.user = u, !.client = c, !.scopes = s, !.code = l]
    BY <1>2, <1>8, <2>1, GoJob
  <2>3. /\ job'[h].pc = "replace" /\ job'[h].token = t /\ job'[h].code = l /\ job'[h].chain = {}
        /\ job'[h].at = job[h].at /\ job'[h].next = job[h].next
    BY <1>1, <1>2, <2>2 DEF Job
  <2>4. HeardOf(job[h])' /\ WalkOK(h)'
    BY <1>1, <1>2, <1>3, <2>3 DEF HeardOf, WalkOK
  <2>5. Usable(t)'
    BY <1>3, <1>8 DEF Usable, Exists
  <2>6. ASSUME NEW k \in CodeIds, Threat(h, k)' PROVE Threat(h, k) /\ Sound(h, k)'
    <3>1. Sound(h, k)'
      BY <2>3, <2>5 DEF Sound
    <3>2. l = k
      BY <2>3, <2>6 DEF Threat
    <3>3. t \in Chain(k)
      BY <1>8, <2>1, <3>2 DEF Usable, Chain
    <3> QED BY <1>1, <1>2, <3>1, <3>3 DEF Threat
  <2> QED BY <1>5, <2>4, <2>6
<1> QED BY <1>1, <1>6, <1>7, <1>8 DEF Rotate, Usable

LEMMA WalkTurns ==
  ASSUME ChainInv, TypeOK', NEW h \in Handlers, Walk(h)
  PROVE  LinkInv' /\ \A k \in CodeIds : Bounded(k)'
<1>1. PICK at, seen, next : /\ at = job[h].at /\ seen = job[h].chain \cup {at}
                            /\ next = refresh[at].next
  OBVIOUS
<1>2. /\ TypeOK /\ job[h].pc = "walk" /\ job[h] \in Job /\ at \in RefreshIds
      /\ job[h].chain \subseteq RefreshIds /\ WalkOK(h)
      /\ HeardOf(job[h]) /\ given \subseteq 1..refreshes /\ races \in Nat /\ refreshes \in Nat
  BY <1>1, JobTyped, OAuthAssumption DEF ChainInv, IInv, LinkInv, Walk, At, JobOK, Job, TypeOK
<1>3. refresh' = refresh /\ refreshes' = refreshes /\ given' = given /\ client' = client /\ races' = races
  BY DEF Walk, tokens, clients, bounds
<1>4. \A g \in Handlers \ {h} : job'[g] = job[g]
  BY <1>2, GoJob DEF Walk
<1>5. ASSUME HeardOf(job[h])', WalkOK(h)',
             \A k \in CodeIds : Threat(h, k)' => Threat(h, k) /\ Sound(h, k)'
      PROVE  LinkInv' /\ \A k \in CodeIds : Bounded(k)'
  BY <1>2, <1>3, <1>4, <1>5, TurnStep
<1>6. \A r \in job[h].chain :
        IF Exists(refresh[at]) THEN r \in Chain(refresh[at].code) /\ r < at ELSE ~Exists(refresh[r])
  BY <1>1, <1>2 DEF WalkOK
<1>7. ASSUME Exists(refresh[at])
      PROVE  /\ refresh[at].code \in CodeIds /\ at \in Chain(refresh[at].code)
             /\ seen \subseteq Chain(refresh[at].code)
             /\ next # None => at < next /\ next \in Chain(refresh[at].code)
  <2>1. refresh[at].code \in CodeIds
    BY <1>2, <1>7, RowsTyped DEF Refresh
  <2>2. at \in Chain(refresh[at].code)
    BY <1>2, <1>7 DEF Chain
  <2> QED BY <1>1, <1>6, <1>7, <2>1, <2>2 DEF ChainInv, LinkInv, LinksOK
<1>8. \A r \in RefreshIds : r \in Nat
  BY DEF RefreshIds
<1>9. at <= refreshes /\ at \in 1..refreshes /\ seen \subseteq 1..refreshes
  BY <1>1, <1>2, <1>8 DEF HeardOf, RefreshIds
<1>10. CASE next # None /\ next \notin seen
  <2>1. Exists(refresh[at])
    <3>1. NoRefresh.next = None
      BY DEF NoRefresh
    <3>2. refresh[at] \in Refresh
      BY <1>1, <1>2, <1>10, <3>1 DEF TypeOK
    <3> QED BY <3>2, OAuthAssumption DEF Refresh, Exists
  <2>2. PICK k \in CodeIds : k = refresh[at].code
    BY <1>7, <2>1
  <2>3. next \in RefreshIds /\ Exists(refresh[next]) /\ refresh[next].code = k /\ at < next /\ at \in Chain(k)
    BY <1>7, <1>10, <2>1, <2>2 DEF Chain
  <2>4. \A r \in seen : r \in Chain(k) /\ r < next
    BY <1>1, <1>2, <1>6, <1>7, <1>8, <2>1, <2>2, <2>3
  <2>5. job'[h] = [job[h] EXCEPT !.chain = seen, !.at = next]
    <3>1. Go(h, [job[h] EXCEPT !.chain = seen, !.at = next])
      BY <1>1, <1>10 DEF Walk
    <3> QED BY <1>2, <3>1, GoJob
  <2>6. /\ job'[h].pc = "walk" /\ job'[h].chain = seen /\ job'[h].at = next
        /\ job'[h].token = job[h].token /\ job'[h].next = job[h].next
    BY <1>2, <2>5 DEF Job
  <2>7. \A r \in seen : r \in Chain(k)' /\ r < next
    BY <1>3, <2>4 DEF Chain, Exists
  <2>8. Exists(refresh[next])' /\ refresh'[next].code = k
    BY <1>3, <2>3 DEF Exists
  <2>9. WalkOK(h)'
    BY <2>6, <2>7, <2>8 DEF WalkOK
  <2>10. next <= refreshes
    BY <2>3, ExistsInserted DEF ChainInv
  <2>11. HeardOf(job[h])'
    BY <1>2, <1>3, <1>9, <2>6, <2>10 DEF HeardOf
  <2>12. ASSUME NEW l \in CodeIds, Threat(h, l)' PROVE Threat(h, l) /\ Sound(h, l)'
    <3>1. Sound(h, l)'
      BY <2>6 DEF Sound
    <3>2. next \in Chain(l)' /\ ~Revoked(l)'
      BY <2>6, <2>12 DEF Threat
    <3>3. l = k /\ ~Revoked(l)
      BY <1>3, <2>3, <3>2 DEF Chain, Revoked, Exists
    <3> QED BY <1>1, <1>2, <2>3, <3>1, <3>3 DEF Threat
  <2> QED BY <1>5, <2>9, <2>11, <2>12
<1>11. CASE ~(next # None /\ next \notin seen)
  <2>1. job'[h] = [job[h] EXCEPT !.pc = "revoke", !.chain = seen, !.at = None]
    <3>1. Go(h, [job[h] EXCEPT !.pc = "revoke", !.chain = seen, !.at = None])
      BY <1>1, <1>11 DEF Walk
    <3> QED BY <1>2, <3>1, GoJob
  <2>2. /\ job'[h].pc = "revoke" /\ job'[h].chain = seen /\ job'[h].at = None
        /\ job'[h].token = job[h].token /\ job'[h].next = job[h].next
    BY <1>2, <2>1 DEF Job
  <2>3. HeardOf(job[h])' /\ WalkOK(h)'
    BY <1>2, <1>3, <1>9, <2>2 DEF HeardOf, WalkOK, None
  <2>4. ASSUME NEW k \in CodeIds, Threat(h, k)' PROVE Threat(h, k) /\ Sound(h, k)'
    <3>1. seen \cap Chain(k) # {} /\ ~Revoked(k)
      BY <1>3, <2>2, <2>4 DEF Threat, Chain, Revoked, Exists
    <3>2. Exists(refresh[at])
      BY <1>1, <1>6, <3>1 DEF Chain
    <3>3. refresh[at].code = k /\ at \in Chain(k)
      BY <1>7, <3>1, <3>2 DEF Chain
    <3>4. next = None
      <4>1. ASSUME next # None PROVE FALSE
        <5>1. next \in seen /\ at < next /\ next \in RefreshIds
          BY <1>7, <1>11, <3>2, <4>1 DEF Chain
        <5>2. next = at \/ next < at
          BY <1>1, <1>6, <3>2, <5>1
        <5> QED BY <1>2, <1>8, <5>1, <5>2
      <4> QED BY <4>1
    <3>5. ~refresh[at].revoked
      BY <3>1, <3>3 DEF Revoked
    <3>6. at \in UsableIn(k) /\ at \in seen
      BY <1>1, <3>2, <3>3, <3>4, <3>5 DEF UsableIn, Usable
    <3>7. at \in UsableIn(k)'
      BY <1>3, <3>6 DEF UsableIn, Usable, Chain, Exists
    <3>8. Sound(h, k)'
      BY <2>2, <3>6, <3>7 DEF Sound
    <3> QED BY <1>1, <1>2, <3>1, <3>3, <3>8 DEF Threat
  <2> QED BY <1>5, <2>3, <2>4
<1> QED BY <1>10, <1>11

\* A request that stays as it is, while tokens are inserted or marked.
LEMMA WalkKept ==
  ASSUME TypeOK, NEW g \in Handlers, HeardOf(job[g]), WalkOK(g), job'[g] = job[g],
         refreshes' >= refreshes, refreshes' \in Nat,
         \A r \in RefreshIds : r <= refreshes =>
           (Exists(refresh[r])' <=> Exists(refresh[r])) /\ refresh'[r].code = refresh[r].code
  PROVE  HeardOf(job[g])' /\ WalkOK(g)'
<1>1. /\ refreshes \in Nat /\ JobOK(job[g])
      /\ job[g].token \in Nat /\ job[g].next \in Nat /\ job[g].at \in Nat /\ job[g].chain \subseteq RefreshIds
  BY JobTyped, OAuthAssumption DEF TypeOK, Job, RefreshIds, None
<1>2. HeardOf(job[g])'
  BY <1>1 DEF HeardOf
<1>3. ASSUME NEW r \in RefreshIds, r <= refreshes
      PROVE  /\ Exists(refresh[r])' <=> Exists(refresh[r])
             /\ \A k : r \in Chain(k)' <=> r \in Chain(k)
             /\ refresh'[r].code = refresh[r].code
  BY <1>3 DEF Chain
<1>4. \A r \in job[g].chain : r \in RefreshIds /\ r <= refreshes
  BY <1>1 DEF HeardOf
<1>5. CASE job[g].pc = "walk"
  <2>1. job[g].at \in RefreshIds /\ job[g].at <= refreshes
    BY <1>1, <1>5 DEF JobOK, HeardOf
  <2>2. ASSUME NEW r \in job[g].chain
        PROVE  IF Exists(refresh[job[g].at])' THEN r \in Chain(refresh[job[g].at].code)' /\ r < job[g].at
                                              ELSE ~Exists(refresh[r])'
    <3>1. IF Exists(refresh[job[g].at]) THEN r \in Chain(refresh[job[g].at].code) /\ r < job[g].at
                                        ELSE ~Exists(refresh[r])
      BY <1>5, <2>2 DEF WalkOK
    <3>2. r \in RefreshIds /\ r <= refreshes
      BY <1>4, <2>2
    <3> QED BY <1>3, <2>1, <3>1, <3>2
  <2> QED BY <1>2, <1>5, <2>2 DEF WalkOK
<1>6. CASE job[g].pc # "walk"
  <2>1. job[g].pc = "rotate" => job[g].chain = {}
    BY DEF WalkOK
  <2> QED BY <1>2, <1>6, <2>1 DEF WalkOK
<1> QED BY <1>2, <1>5, <1>6

\* A chain that a step does not touch.
LEMMA OtherChain ==
  ASSUME ChainInv, TypeOK', NEW k \in CodeIds,
         \A r \in RefreshIds : r \in Chain(k) \/ r \in Chain(k)' => refresh'[r] = refresh[r],
         \A c \in Clients : client[c] = "deleted" => client'[c] = "deleted",
         \A g \in Handlers : job'[g] = job[g] \/ ~Threat(g, k)',
         races' >= races
  PROVE  Bounded(k)'
<1>1. TypeOK /\ Bounded(k) /\ JobsOK
  BY DEF ChainInv, IInv
<1>2. \A r \in RefreshIds : r \in Chain(k)' <=> r \in Chain(k)
  BY DEF Chain, Exists
<1>3. Chain(k)' = Chain(k) /\ \A r \in Chain(k) : refresh'[r] = refresh[r]
  BY <1>2 DEF Chain
<1>4. UsableIn(k)' = UsableIn(k) /\ (Revoked(k)' <=> Revoked(k))
  BY <1>3 DEF UsableIn, Usable, Revoked, Exists
<1>5. ASSUME NEW g \in Handlers, Threat(g, k)' PROVE Threat(g, k) /\ (Sound(g, k) => Sound(g, k)')
  <2>1. job'[g] = job[g] /\ JobOK(job[g]) /\ OwnOK(job[g])
    BY <1>1, <1>5, JobTyped DEF JobsOK
  <2>2. job[g].pc = "replace" /\ Present(job[g])' => Present(job[g])
    BY <2>1 DEF Present, JobOK, ForClient
  <2>3. Threat(g, k)
    BY <1>3, <1>4, <1>5, <2>1, <2>2 DEF Threat
  <2>4. job[g].pc = "replace" => job[g].token \in Chain(k)
    <3>1. job[g].pc = "replace" => Present(job[g]) /\ job[g].code = k /\ job[g].token \in RefreshIds
      BY <2>1, <2>3 DEF Threat, JobOK, OnToken
    <3> QED BY <2>1, <3>1 DEF OwnOK, Chain
  <2>5. Sound(g, k) => Sound(g, k)'
    BY <1>3, <1>4, <2>1, <2>4 DEF Sound, Usable, Exists
  <2> QED BY <2>3, <2>5
<1>6. Threats(k)' \subseteq Threats(k) /\ \A g \in Threats(k)' : Sound(g, k) => Sound(g, k)'
  BY <1>5 DEF Threats
<1> QED BY <1>1, <1>4, <1>6, KeepsBound

LEMMA MintRefreshTurns ==
  ASSUME ChainInv, TypeOK', NEW h \in Handlers, MintRefresh(h)
  PROVE  LinkInv' /\ \A k \in CodeIds : Bounded(k)'
<1>1. /\ IInv /\ TypeOK /\ LinkInv /\ End(h) /\ job[h].pc = "mintRefresh"
      /\ client' = client /\ races' = races /\ races \in Nat /\ refreshes \in Nat
  BY OAuthAssumption DEF ChainInv, IInv, MintRefresh, At, clients, bounds, TypeOK
<1>2. /\ HeardOf(job[h])' /\ WalkOK(h)' /\ \A k \in CodeIds : ~Threat(h, k)'
      /\ \A g \in Handlers \ {h} : job'[g] = job[g]
  BY <1>1, EndsTurn
<1>3. CASE Deleted(h)
  <2>1. refresh' = refresh /\ refreshes' = refreshes /\ given' = given
    BY <1>3 DEF MintRefresh, tokens
  <2> QED BY <1>1, <1>2, <2>1, TurnStep DEF LinkInv
<1>4. CASE ~Deleted(h)
  <2>1. job[h].code \in CodeIds /\ job[h].client \in Clients
    BY <1>1, JobTyped DEF JobOK, OnCode, ForClient
  <2>2. refreshes < MaxRefresh /\ MaxRefresh \in Nat
    BY <1>4, OAuthAssumption DEF MintRefresh
  <2>3. refreshes + 1 \in RefreshIds
    BY <1>1, <2>2 DEF RefreshIds
  <2>4. PICK k \in CodeIds, n \in RefreshIds : k = job[h].code /\ n = refreshes + 1
    BY <2>1, <2>3
  <2>5. /\ refresh' = [refresh EXCEPT ![n] = RefreshOf(job[h], TRUE)]
        /\ refreshes' = n /\ given' = given \cup {n}
    BY <1>4, <2>4 DEF MintRefresh
  <2>6. refresh'[n] = RefreshOf(job[h], TRUE) /\ \A r \in RefreshIds \ {n} : refresh'[r] = refresh[r]
    BY <1>1, <2>5 DEF TypeOK
  <2>7. refresh'[n].next = None /\ refresh'[n].code = k /\ ~refresh'[n].revoked /\ Exists(refresh[n])'
    BY <2>1, <2>4, <2>6, OAuthAssumption DEF RefreshOf, Exists
  <2>8. ~Exists(refresh[n])
    BY <1>1, <2>4, ExistsInserted
  <2>9. Chain(k) = {}
    BY <1>1, <1>4, <2>4 DEF IInv, OneExchange, Exchanges, Present, Deleted
  <2>10. Chain(k)' = {n} /\ \A l \in CodeIds \ {k} : Chain(l)' = Chain(l)
    BY <2>6, <2>7, <2>8, <2>9 DEF Chain, Exists
  <2>11. \A l \in CodeIds \ {k} : \A r \in Chain(l) : refresh'[r] = refresh[r]
    BY <2>6, <2>8 DEF Chain
  <2>12. LinksOK'
    <3>1. ASSUME NEW l \in CodeIds, NEW r \in Chain(l)', refresh'[r].next # None
          PROVE  r < refresh'[r].next /\ refresh'[r].next \in Chain(l)'
      <4>1. l # k
        BY <2>7, <2>10, <3>1
      <4> QED BY <1>1, <2>10, <2>11, <3>1, <4>1 DEF LinkInv, LinksOK
    <3> QED BY <3>1 DEF LinksOK
  <2>13. \A r \in RefreshIds : r <= refreshes => r # n
    BY <1>1, <2>4 DEF RefreshIds
  <2>14. ASSUME NEW g \in Handlers PROVE HeardOf(job[g])' /\ WalkOK(g)'
    <3>1. CASE g = h
      BY <1>2, <3>1
    <3>2. CASE g # h
      <4>1. HeardOf(job[g]) /\ WalkOK(g) /\ job'[g] = job[g]
        BY <1>1, <1>2, <3>2 DEF LinkInv
      <4>2. \A r \in RefreshIds : r <= refreshes =>
              (Exists(refresh[r])' <=> Exists(refresh[r])) /\ refresh'[r].code = refresh[r].code
        BY <2>6, <2>13 DEF Exists
      <4>3. refreshes' >= refreshes /\ refreshes' \in Nat
        BY <1>1, <2>4, <2>5
      <4> QED BY <1>1, <4>1, <4>2, <4>3, WalkKept
    <3> QED BY <3>1, <3>2
  <2>15. LinkInv'
    <3>1. given' \subseteq 1..refreshes'
      BY <1>1, <2>4, <2>5 DEF LinkInv
    <3> QED BY <2>12, <2>14, <3>1 DEF LinkInv
  <2>16. ASSUME NEW l \in CodeIds \ {k} PROVE Bounded(l)'
    <3>1. \A r \in RefreshIds : r \in Chain(l) \/ r \in Chain(l)' => refresh'[r] = refresh[r]
      BY <2>10, <2>11
    <3> QED BY <1>1, <1>2, <3>1, OtherChain
  <2>17. \A g \in Handlers : ~Threat(g, k)'
    <3>1. SUFFICES ASSUME NEW g \in Handlers \ {h}, Threat(g, k)' PROVE FALSE
      BY <1>2
    <3>2. job'[g] = job[g] /\ HeardOf(job[g]) /\ OwnOK(job[g]) /\ JobOK(job[g])
      BY <1>1, <1>2, <3>1, JobTyped DEF LinkInv, IInv, JobsOK
    <3>3. job[g].token # n /\ job[g].at # n /\ n \notin job[g].chain
      BY <1>1, <2>4, <3>2 DEF HeardOf
    <3>4. job[g].pc = "replace" /\ Present(job[g]) => job[g].code # k
      BY <2>9, <3>2 DEF OwnOK, Chain, JobOK, OnToken
    <3> QED BY <1>1, <2>10, <3>1, <3>2, <3>3, <3>4 DEF Threat, Present
  <2>18. Bounded(k)'
    <3>1. Threats(k)' = {} /\ Sounds(k)' = {}
      BY <2>17 DEF Threats, Sounds
    <3>2. UsableIn(k)' \subseteq {n} /\ ~Revoked(k)'
      BY <2>7, <2>10 DEF UsableIn, Revoked
    <3>3. PICK U : U = UsableIn(k)'
      OBVIOUS
    <3>4. Cardinality(U) <= 1 /\ Cardinality(U) \in Nat
      <4>1. IsFiniteSet({n}) /\ Cardinality({n}) = 1
        BY FS_Singleton
      <4> QED BY <3>2, <3>3, <4>1, FS_Subset, FS_CardinalityType
    <3>5. PICK T, S : T = Threats(k)' /\ S = Sounds(k)' /\ T = {} /\ S = {}
      BY <3>1
    <3>6. Risk(T, S) = 0
      BY <3>5, FS_EmptySet DEF Risk
    <3>7. Flag(k)' = 0
      BY <3>2 DEF Flag
    <3>8. Cardinality(U) + Flag(k)' + Risk(T, S) <= races' + 1
      BY <1>1, <3>4, <3>6, <3>7
    <3> QED BY <3>3, <3>5, <3>8 DEF Bounded
  <2> QED BY <2>15, <2>16, <2>18
<1> QED BY <1>3, <1>4

LEMMA ReplaceTurns ==
  ASSUME ChainInv, TypeOK', NEW h \in Handlers, Replace(h)
  PROVE  LinkInv' /\ \A k \in CodeIds : Bounded(k)'
<1>1. /\ IInv /\ TypeOK /\ LinkInv /\ job[h].pc = "replace"
      /\ client' = client /\ races' = races /\ races \in Nat /\ refreshes \in Nat
  BY OAuthAssumption DEF ChainInv, IInv, Replace, At, clients, bounds, TypeOK
<1>2. CASE Deleted(h)
  <2>1. End(h) /\ refresh' = refresh /\ refreshes' = refreshes /\ given' = given
    BY <1>2 DEF Replace, tokens
  <2>2. /\ HeardOf(job[h])' /\ WalkOK(h)' /\ \A k \in CodeIds : ~Threat(h, k)'
        /\ \A g \in Handlers \ {h} : job'[g] = job[g]
    BY <1>1, <2>1, EndsTurn
  <2> QED BY <1>1, <2>1, <2>2, TurnStep DEF LinkInv
<1>3. CASE ~Deleted(h)
  <2>1. PICK t, n \in RefreshIds :
          /\ t = job[h].token /\ n = refreshes + 1 /\ job[h].code \in CodeIds
          /\ \A r \in RefreshIds : Exists(refresh[r]) => r < n
          /\ Exists(refresh[t]) /\ refresh[t].code = job[h].code /\ t < n
          /\ refresh'[n] = RefreshOf(job[h], FALSE)
          /\ SameGrant(refresh'[t], refresh[t])
          /\ refresh'[t].next = n /\ refresh'[t].revoked = refresh[t].revoked
          /\ \A r \in RefreshIds \ {t, n} : refresh'[r] = refresh[r]
    BY <1>1, <1>3, ReplaceWrites
  <2>2. PICK k \in CodeIds : k = job[h].code /\ refresh[t].code = k
    BY <2>1
  <2>3. t \in Chain(k) /\ t \in Nat /\ n \in Nat /\ t # n /\ n # None /\ ~Exists(refresh[n])
    BY <2>1, <2>2 DEF Chain, RefreshIds, None
  <2>4. /\ refresh'[n].next = None /\ refresh'[n].code = k /\ ~refresh'[n].revoked
        /\ Exists(refresh[n])' /\ Exists(refresh[t])' /\ refresh'[t].code = k
    <3>1. /\ refresh'[n].next = None /\ refresh'[n].code = k /\ ~refresh'[n].revoked
          /\ refresh'[n].client = job[h].client /\ job[h].client \in Clients
      BY <1>1, <2>1, <2>2, JobTyped DEF RefreshOf, JobOK, ForClient
    <3> QED BY <2>1, <2>2, <3>1, OAuthAssumption DEF SameGrant, Exists
  <2>5. \A l \in CodeIds, r \in RefreshIds :
          r \in Chain(l)' <=> IF r = n THEN l = k ELSE r \in Chain(l)
    <3>1. SUFFICES ASSUME NEW l \in CodeIds, NEW r \in RefreshIds
                   PROVE  r \in Chain(l)' <=> IF r = n THEN l = k ELSE r \in Chain(l)
      OBVIOUS
    <3>2. CASE r = n
      BY <2>4, <3>2 DEF Chain
    <3>3. CASE r = t /\ r # n
      BY <2>1, <2>2, <2>4, <3>3 DEF Chain
    <3>4. CASE r \notin {t, n}
      BY <2>1, <3>4 DEF Chain, Exists
    <3> QED BY <3>2, <3>3, <3>4
  <2>6. Chain(k)' = Chain(k) \cup {n} /\ n \notin Chain(k) /\ Chain(k) \subseteq RefreshIds
    <3>1. n \notin Chain(k) /\ Chain(k) \subseteq RefreshIds /\ Chain(k)' \subseteq RefreshIds
      BY <2>3 DEF Chain
    <3> QED BY <2>5, <3>1
  <2>7. /\ job'[h].pc = "issueNext" /\ job'[h].next = n /\ job'[h].token = job[h].token
        /\ job'[h].at = job[h].at /\ job'[h].chain = job[h].chain
        /\ \A g \in Handlers \ {h} : job'[g] = job[g]
    <3>1. Go(h, [job[h] EXCEPT !.pc = "issueNext", !.next = n])
      BY <1>3, <2>1 DEF Replace
    <3>2. /\ job'[h] = [job[h] EXCEPT !.pc = "issueNext", !.next = n]
          /\ \A g \in Handlers \ {h} : job'[g] = job[g]
      BY <1>1, <3>1, GoJob
    <3> QED BY <1>1, <3>2, JobTyped DEF Job
  <2>8. refreshes' = n /\ given' = given
    BY <1>3, <2>1 DEF Replace
  <2>9. WalkOK(h)' /\ \A l \in CodeIds : ~Threat(h, l)'
    BY <2>7, NotTurning DEF Turning
  <2>10. \A r \in RefreshIds : r <= refreshes =>
           /\ r # n /\ (Exists(refresh[r])' <=> Exists(refresh[r]))
           /\ refresh'[r].code = refresh[r].code
    <3>1. SUFFICES ASSUME NEW r \in RefreshIds, r <= refreshes
                   PROVE  /\ r # n /\ (Exists(refresh[r])' <=> Exists(refresh[r]))
                          /\ refresh'[r].code = refresh[r].code
      OBVIOUS
    <3>2. r # n
      BY <1>1, <2>1, <3>1 DEF RefreshIds
    <3>3. CASE r = t
      BY <2>1, <2>2, <2>4, <3>2, <3>3
    <3>4. CASE r # t
      BY <2>1, <3>2, <3>4 DEF Exists
    <3> QED BY <3>2, <3>3, <3>4
  <2>11. ASSUME NEW g \in Handlers PROVE HeardOf(job[g])' /\ WalkOK(g)'
    <3>1. CASE g = h
      <4>1. HeardOf(job[h]) /\ JobOK(job[h]) /\ job[h] \in Job
        BY <1>1, JobTyped DEF LinkInv
      <4>2. job[h].token \in Nat /\ job[h].at \in Nat
        BY <4>1 DEF Job, RefreshIds, None
      <4>3. HeardOf(job[h])'
        BY <1>1, <2>1, <2>3, <2>7, <2>8, <4>1, <4>2 DEF HeardOf
      <4> QED BY <2>9, <3>1, <4>3
    <3>2. CASE g # h
      <4>1. HeardOf(job[g]) /\ WalkOK(g) /\ job'[g] = job[g]
        BY <1>1, <2>7, <3>2 DEF LinkInv
      <4>2. refreshes' >= refreshes /\ refreshes' \in Nat
        BY <1>1, <2>1, <2>8
      <4> QED BY <1>1, <2>10, <4>1, <4>2, WalkKept
    <3> QED BY <3>1, <3>2
  <2>12. LinksOK'
    <3>1. SUFFICES ASSUME NEW l \in CodeIds, NEW r \in RefreshIds, r \in Chain(l)', refresh'[r].next # None
                   PROVE  r < refresh'[r].next /\ refresh'[r].next \in Chain(l)'
      BY DEF LinksOK, Chain
    <3>2. r # n /\ r \in Chain(l)
      BY <2>4, <2>5, <3>1
    <3>3. CASE r = t
      <4>1. l = k /\ n \in Chain(k)'
        BY <2>2, <2>6, <3>2, <3>3 DEF Chain
      <4> QED BY <2>1, <3>3, <4>1
    <3>4. CASE r # t
      <4>1. refresh'[r] = refresh[r]
        BY <2>1, <3>2, <3>4
      <4>2. r < refresh[r].next /\ refresh[r].next \in Chain(l)
        BY <1>1, <3>1, <3>2, <4>1 DEF LinkInv, LinksOK
      <4>3. refresh[r].next # n /\ refresh[r].next \in RefreshIds
        BY <2>3, <4>2 DEF Chain
      <4> QED BY <2>5, <4>1, <4>2, <4>3
    <3> QED BY <3>3, <3>4
  <2>13. LinkInv'
    <3>1. given' \subseteq 1..refreshes'
      BY <1>1, <2>1, <2>8 DEF LinkInv
    <3> QED BY <2>11, <2>12, <3>1 DEF LinkInv
  <2>14. ASSUME NEW l \in CodeIds \ {k} PROVE Bounded(l)'
    <3>1. t \notin Chain(l) /\ n \notin Chain(l)
      BY <2>2, <2>3 DEF Chain
    <3>2. \A r \in RefreshIds : r \in Chain(l) \/ r \in Chain(l)' => refresh'[r] = refresh[r]
      BY <2>1, <2>5, <3>1
    <3> QED BY <1>1, <2>7, <2>9, <3>2, OtherChain
  <2>15. (Revoked(k)' <=> Revoked(k)) /\ Flag(k)' = Flag(k)
    <3>1. \A r \in Chain(k) : refresh'[r].revoked = refresh[r].revoked
      BY <2>1, <2>6
    <3>2. Revoked(k)' <=> Revoked(k)
      BY <2>4, <2>6, <3>1 DEF Revoked
    <3> QED BY <3>2 DEF Flag
  <2>16. UsableIn(k)' = (UsableIn(k) \ {t}) \cup {n} /\ n \notin UsableIn(k)
    <3>1. \A r \in Chain(k) \ {t} : refresh'[r] = refresh[r]
      BY <2>1, <2>6
    <3>2. Usable(n)' /\ ~Usable(t)'
      BY <2>1, <2>3, <2>4 DEF Usable
    <3>3. \A r \in Chain(k) \ {t} : Usable(r)' <=> Usable(r)
      BY <3>1 DEF Usable, Exists
    <3> QED BY <2>3, <2>6, <3>2, <3>3 DEF UsableIn
  <2>17. h \in Threats(k) /\ (h \in Sounds(k) <=> Usable(t))
    <3>1. Present(job[h])
      BY <1>3 DEF Deleted, Present
    <3> QED BY <1>1, <2>1, <2>2, <3>1 DEF Threats, Threat, Sounds, Sound
  <2>18. ASSUME NEW g \in Handlers, Threat(g, k)'
         PROVE  /\ g # h /\ Threat(g, k) /\ job'[g] = job[g]
                /\ ~Usable(t) /\ Sound(g, k) => Sound(g, k)'
    <3>1. g # h /\ job'[g] = job[g] /\ HeardOf(job[g]) /\ JobOK(job[g])
      BY <1>1, <2>7, <2>9, <2>18, JobTyped DEF LinkInv
    <3>2. job[g].token # n /\ job[g].at # n /\ n \notin job[g].chain
      BY <1>1, <2>1, <3>1 DEF HeardOf
    <3>3. Threat(g, k)
      BY <1>1, <2>6, <2>15, <2>18, <3>1, <3>2 DEF Threat, Present
    <3>4. ASSUME ~Usable(t), Sound(g, k) PROVE Sound(g, k)'
      <4>1. ASSUME job[g].pc = "replace" PROVE Usable(job[g].token)'
        <5>1. job[g].token \in RefreshIds /\ job[g].token \notin {t, n}
          BY <3>1, <3>2, <3>4, <4>1 DEF JobOK, OnToken, Sound
        <5>2. refresh'[job[g].token] = refresh[job[g].token]
          BY <2>1, <5>1
        <5> QED BY <3>1, <3>4, <4>1, <5>2 DEF Sound, Usable, Exists
      <4>2. UsableIn(k) \subseteq UsableIn(k)'
        BY <2>16, <3>4 DEF UsableIn
      <4> QED BY <3>1, <3>4, <4>1, <4>2 DEF Sound
    <3> QED BY <3>1, <3>3, <3>4
  <2>19. Bounded(k)'
    <3>1. PICK T, S, T2, S2, U, U2 :
            /\ T = Threats(k) /\ S = Sounds(k) /\ T2 = Threats(k)' /\ S2 = Sounds(k)'
            /\ U = UsableIn(k) /\ U2 = UsableIn(k)'
      OBVIOUS
    <3>2. /\ IsFiniteSet(T) /\ S \subseteq T /\ Risk(T, S) \in Nat /\ Cardinality(U) \in Nat
          /\ IsFiniteSet(U) /\ Flag(k) \in {0, 1}
      BY <1>1, <3>1, Counted
    <3>3. T2 \subseteq T \ {h} /\ S2 \subseteq T2 /\ h \in T /\ (h \in S <=> Usable(t))
      BY <2>17, <2>18, <3>1 DEF Threats, Sounds
    <3>4. ~Usable(t) => S \cap T2 \subseteq S2
      BY <2>18, <3>1 DEF Threats, Sounds
    <3>5. Cardinality(U) + Flag(k) + Risk(T, S) <= races + 1
      BY <3>1 DEF ChainInv, Bounded
    <3>6. IsFiniteSet(T2) /\ Risk(T2, S2) \in Nat /\ Risk(T2, S2) <= Risk(T, S)
      BY <3>2, <3>3, RiskLeaves, RiskTyped
    <3>7. /\ IsFiniteSet(U \ {t})
          /\ Cardinality(U \ {t}) = IF t \in U THEN Cardinality(U) - 1 ELSE Cardinality(U)
      BY <3>2, FS_RemoveElement
    <3>8. Cardinality(U2) = Cardinality(U \ {t}) + 1
      <4>1. U2 = (U \ {t}) \cup {n} /\ n \notin U \ {t}
        BY <2>16, <3>1
      <4> QED BY <3>7, <4>1, FS_AddElement
    <3>9. t \in U <=> Usable(t)
      BY <2>3, <3>1 DEF UsableIn
    <3>10. Cardinality(U2) + Flag(k) + Risk(T2, S2) <= races + 1
      <4>1. CASE Usable(t)
        BY <3>2, <3>5, <3>6, <3>7, <3>8, <3>9, <4>1, <1>1
      <4>2. CASE ~Usable(t)
        <5>1. Risk(T2, S2) <= Risk(T, S) - 1
          BY <3>2, <3>3, <3>4, <4>2, RiskDrops
        <5> QED BY <1>1, <3>2, <3>5, <3>6, <3>7, <3>8, <3>9, <4>2, <5>1
      <4> QED BY <4>1, <4>2
    <3> QED BY <1>1, <2>15, <3>1, <3>10 DEF Bounded
  <2> QED BY <2>13, <2>14, <2>19
<1> QED BY <1>2, <1>3

\* A chain of which some tokens are revoked by h.
LEMMA RevokedChain ==
  ASSUME ChainInv, TypeOK', NEW h \in Handlers, RevokeChain(h), NEW k \in CodeIds,
         job[h].chain \cap Chain(k) # {}
  PROVE  Bounded(k)'
<1>1. PICK C : C = job[h].chain
  OBVIOUS
<1>2. /\ TypeOK /\ Bounded(k) /\ job[h].pc = "revoke" /\ client' = client /\ races' = races
      /\ races \in Nat /\ \A g \in Handlers \ {h} : job'[g] = job[g]
  BY EndsTurn DEF ChainInv, IInv, TypeOK, RevokeChain, At, clients, bounds
<1>3. \A g \in Handlers : Threat(g, k)' => g # h
  BY <1>2, EndsTurn DEF RevokeChain
<1>4. \A r \in RefreshIds :
        /\ r \notin C => refresh'[r] = refresh[r]
        /\ Exists(refresh[r])' <=> Exists(refresh[r])
        /\ refresh'[r].next = refresh[r].next /\ refresh'[r].code = refresh[r].code
        /\ r \in C /\ Exists(refresh[r]) => refresh'[r].revoked
        /\ Exists(refresh[r]) /\ refresh[r].revoked => refresh'[r].revoked
  <2>1. SUFFICES ASSUME NEW r \in RefreshIds
                 PROVE  /\ r \notin C => refresh'[r] = refresh[r]
                        /\ Exists(refresh[r])' <=> Exists(refresh[r])
                        /\ refresh'[r].next = refresh[r].next /\ refresh'[r].code = refresh[r].code
                        /\ r \in C /\ Exists(refresh[r]) => refresh'[r].revoked
                        /\ Exists(refresh[r]) /\ refresh[r].revoked => refresh'[r].revoked
    OBVIOUS
  <2>2. refresh'[r] = IF r \in C /\ Exists(refresh[r]) THEN [refresh[r] EXCEPT !.revoked = TRUE] ELSE refresh[r]
    BY <1>1 DEF RevokeChain
  <2>3. CASE r \in C /\ Exists(refresh[r])
    <3>1. refresh[r] \in Refresh /\ refresh'[r] = [refresh[r] EXCEPT !.revoked = TRUE]
      BY <1>2, <2>2, <2>3, RowsTyped
    <3> QED BY <2>3, <3>1 DEF Refresh, Exists
  <2>4. CASE ~(r \in C /\ Exists(refresh[r]))
    BY <2>2, <2>4 DEF Exists
  <2> QED BY <2>3, <2>4
<1>5. Chain(k)' = Chain(k) /\ Chain(k) \subseteq RefreshIds /\ \A r \in Chain(k) : Exists(refresh[r])
  BY <1>4 DEF Chain
<1>6. Revoked(k)' /\ Flag(k)' = 1
  BY <1>1, <1>4, <1>5 DEF Revoked, Flag
<1>7. UsableIn(k)' = UsableIn(k) \ C
  BY <1>4, <1>5 DEF UsableIn, Usable, Exists
<1>8. ASSUME NEW g \in Handlers, Threat(g, k)'
      PROVE  /\ g # h /\ Threat(g, k)
             /\ UsableIn(k) \cap C = {} /\ Sound(g, k) => Sound(g, k)'
  <2>1. /\ g # h /\ job'[g] = job[g] /\ JobOK(job[g]) /\ OwnOK(job[g])
        /\ job[g].pc \in {"rotate", "replace"} /\ Threat(g, k)
    BY <1>2, <1>3, <1>5, <1>6, <1>8, JobTyped DEF Threat, Present, ChainInv, IInv, JobsOK
  <2>2. ASSUME UsableIn(k) \cap C = {}, Sound(g, k), job[g].pc = "replace" PROVE Usable(job[g].token)'
    <3>1. job[g].token \in Chain(k) /\ Usable(job[g].token)
      BY <2>1, <2>2 DEF Threat, OwnOK, Chain, JobOK, OnToken, Sound
    <3>2. job[g].token \notin C
      BY <2>2, <3>1 DEF UsableIn
    <3>3. refresh'[job[g].token] = refresh[job[g].token]
      BY <1>4, <1>5, <3>1, <3>2
    <3> QED BY <2>1, <3>1, <3>3 DEF Usable, Exists
  <2> QED BY <2>1, <2>2 DEF Sound
<1>9. PICK T, S, T2, S2, U, U2 :
        /\ T = Threats(k) /\ S = Sounds(k) /\ T2 = Threats(k)' /\ S2 = Sounds(k)'
        /\ U = UsableIn(k) /\ U2 = UsableIn(k)'
  OBVIOUS
<1>10. /\ IsFiniteSet(T) /\ S \subseteq T /\ Risk(T, S) \in Nat /\ Cardinality(T) \in Nat
       /\ Cardinality(T) <= Risk(T, S) + 1
       /\ IsFiniteSet(U) /\ Cardinality(U) \in Nat /\ Flag(k) \in {0, 1}
  BY <1>2, <1>9, Counted, RiskTyped
<1>11. T2 \subseteq T \ {h} /\ S2 \subseteq T2 /\ U2 = U \ C
  BY <1>7, <1>8, <1>9 DEF Threats, Sounds
<1>12. U \cap C = {} => S \cap T2 \subseteq S2
  BY <1>8, <1>9 DEF Threats, Sounds
<1>13. Cardinality(U) + Flag(k) + Risk(T, S) <= races + 1
  BY <1>2, <1>9 DEF Bounded
<1>14. /\ IsFiniteSet(T2) /\ Cardinality(T2) <= Cardinality(T) /\ Cardinality(T2) \in Nat
       /\ Risk(T2, S2) \in Nat /\ Risk(T2, S2) <= Cardinality(T2)
  BY <1>10, <1>11, FS_Subset, FS_CardinalityType, RiskTyped
<1>15. U \cap C # {} => Cardinality(U2) <= Cardinality(U) - 1
  <2>1. SUFFICES ASSUME NEW r \in U, r \in C PROVE Cardinality(U2) <= Cardinality(U) - 1
    BY <1>10
  <2>2. IsFiniteSet(U \ {r}) /\ Cardinality(U \ {r}) = Cardinality(U) - 1
    BY <1>10, FS_RemoveElement
  <2>3. U2 \subseteq U \ {r}
    BY <1>11, <2>1
  <2>4. Cardinality(U2) <= Cardinality(U \ {r})
    BY <2>2, <2>3, FS_Subset
  <2> QED BY <2>2, <2>4
<1>16. Cardinality(U2) <= Cardinality(U) /\ Cardinality(U2) \in Nat
  BY <1>10, <1>11, FS_Subset, FS_CardinalityType
<1>17. Cardinality(U2) + 1 + Risk(T2, S2) <= races + 1
  <2>1. CASE Revoked(k) /\ U \cap C # {}
    <3>1. Flag(k) = 1
      BY <2>1 DEF Flag
    <3> QED BY <1>2, <1>10, <1>13, <1>14, <1>15, <1>16, <2>1, <3>1
  <2>2. CASE Revoked(k) /\ U \cap C = {}
    <3>1. Flag(k) = 1
      BY <2>2 DEF Flag
    <3>2. Risk(T2, S2) <= Risk(T, S)
      BY <1>10, <1>11, <1>12, <2>2, RiskShrinks
    <3> QED BY <1>2, <1>10, <1>13, <1>14, <1>16, <3>1, <3>2
  <2>3. CASE ~Revoked(k)
    <3>1. Flag(k) = 0
      BY <2>3 DEF Flag
    <3>2. h \in T /\ (h \in S <=> C \cap U # {})
      BY <1>1, <1>2, <1>9, <2>3 DEF Threats, Threat, Sounds, Sound
    <3>3. CASE U \cap C # {}
      <4>1. Risk(T2, S2) <= Risk(T, S)
        BY <1>10, <1>11, <3>2, RiskLeaves
      <4> QED BY <1>2, <1>10, <1>13, <1>14, <1>15, <1>16, <3>1, <3>3, <4>1
    <3>4. CASE U \cap C = {}
      <4>1. h \notin S
        BY <3>2, <3>4
      <4>2. Risk(T2, S2) <= Risk(T, S) - 1
        BY <1>10, <1>11, <1>12, <3>2, <3>4, <4>1, RiskDrops
      <4> QED BY <1>2, <1>10, <1>13, <1>14, <1>16, <3>1, <4>2
    <3> QED BY <3>3, <3>4
  <2> QED BY <2>1, <2>2, <2>3
<1>18. Cardinality(U2) + Flag(k)' + Risk(T2, S2) <= races' + 1
  BY <1>2, <1>6, <1>17
<1> QED BY <1>9, <1>18 DEF Bounded

LEMMA RevokeChainTurns ==
  ASSUME ChainInv, TypeOK', NEW h \in Handlers, RevokeChain(h)
  PROVE  LinkInv' /\ \A k \in CodeIds : Bounded(k)'
<1>1. /\ TypeOK /\ LinkInv /\ job[h].pc = "revoke" /\ client' = client /\ races' = races
      /\ races \in Nat /\ refreshes \in Nat /\ refreshes' = refreshes /\ given' = given
  BY OAuthAssumption DEF ChainInv, IInv, TypeOK, RevokeChain, At, clients, bounds
<1>2. /\ HeardOf(job[h])' /\ WalkOK(h)' /\ \A k \in CodeIds : ~Threat(h, k)'
      /\ \A g \in Handlers \ {h} : job'[g] = job[g]
  BY <1>1, EndsTurn DEF RevokeChain
<1>3. \A r \in RefreshIds :
        /\ r \notin job[h].chain => refresh'[r] = refresh[r]
        /\ Exists(refresh[r])' <=> Exists(refresh[r])
        /\ refresh'[r].next = refresh[r].next /\ refresh'[r].code = refresh[r].code
  <2>1. SUFFICES ASSUME NEW r \in RefreshIds
                 PROVE  /\ r \notin job[h].chain => refresh'[r] = refresh[r]
                        /\ Exists(refresh[r])' <=> Exists(refresh[r])
                        /\ refresh'[r].next = refresh[r].next /\ refresh'[r].code = refresh[r].code
    OBVIOUS
  <2>2. CASE r \in job[h].chain /\ Exists(refresh[r])
    <3>1. refresh[r] \in Refresh /\ refresh'[r] = [refresh[r] EXCEPT !.revoked = TRUE]
      BY <1>1, <2>2, RowsTyped DEF RevokeChain
    <3> QED BY <2>2, <3>1 DEF Refresh, Exists
  <2>3. CASE ~(r \in job[h].chain /\ Exists(refresh[r]))
    BY <2>3 DEF RevokeChain, Exists
  <2> QED BY <2>2, <2>3
<1>4. \A k : Chain(k)' = Chain(k) /\ Chain(k) \subseteq RefreshIds
  BY <1>3 DEF Chain
<1>5. LinksOK'
  BY <1>1, <1>3, <1>4 DEF LinkInv, LinksOK
<1>6. ASSUME NEW g \in Handlers \ {h} PROVE HeardOf(job[g])' /\ WalkOK(g)'
  <2>1. HeardOf(job[g]) /\ WalkOK(g) /\ job'[g] = job[g] /\ refreshes' >= refreshes /\ refreshes' \in Nat
    BY <1>1, <1>2 DEF LinkInv
  <2> QED BY <1>1, <1>3, <2>1, WalkKept
<1>7. LinkInv'
  BY <1>1, <1>2, <1>5, <1>6 DEF LinkInv
<1>8. ASSUME NEW k \in CodeIds, job[h].chain \cap Chain(k) = {} PROVE Bounded(k)'
  <2>1. \A r \in RefreshIds : r \in Chain(k) \/ r \in Chain(k)' => refresh'[r] = refresh[r]
    BY <1>3, <1>4, <1>8
  <2> QED BY <1>1, <1>2, <2>1, OtherChain
<1> QED BY <1>7, <1>8, RevokedChain

LEMMA DeleteTurns ==
  ASSUME ChainInv, TypeOK', NEW c \in Clients, Delete(c)
  PROVE  LinkInv' /\ \A k \in CodeIds : Bounded(k)'
<1>1. /\ IInv /\ TypeOK /\ LinkInv /\ job' = job /\ races' = races /\ races \in Nat
      /\ refreshes' = refreshes /\ given' = given
      /\ client' = [client EXCEPT ![c] = "deleted"]
      /\ refresh' = [r \in RefreshIds |-> IF refresh[r].client = c THEN NoRefresh ELSE refresh[r]]
  BY DEF ChainInv, IInv, TypeOK, Delete, Administer
<1>2. client'[c] = "deleted" /\ \A d \in Clients : client[d] = "deleted" => client'[d] = "deleted"
  BY <1>1 DEF TypeOK
<1>3. /\ ~Exists(NoRefresh)
      /\ \A r \in RefreshIds : Exists(refresh[r])' => refresh'[r] = refresh[r] /\ Exists(refresh[r])
  BY <1>1 DEF Exists, NoRefresh
<1>4. ASSUME NEW k \in CodeIds, NEW r \in Chain(k)
      PROVE  /\ refresh[r].client = code[k].client
             /\ IF code[k].client = c THEN refresh'[r] = NoRefresh ELSE refresh'[r] = refresh[r]
  <2>1. r \in RefreshIds /\ refresh[r].code = k /\ k # None
    BY <1>4 DEF Chain, CodeIds, None
  <2>2. refresh[r].client = code[k].client
    BY <1>1, <2>1 DEF IInv, TokensFollowCode
  <2> QED BY <1>1, <2>1, <2>2
<1>5. ASSUME NEW k \in CodeIds
      PROVE  IF code[k].client = c THEN Chain(k)' = {}
                                   ELSE Chain(k)' = Chain(k) /\ \A r \in Chain(k) : refresh'[r] = refresh[r]
  <2>1. Chain(k)' \subseteq Chain(k)
    BY <1>3 DEF Chain
  <2>2. CASE code[k].client = c
    <3>1. \A r \in Chain(k) : ~Exists(refresh[r])'
      BY <1>3, <1>4, <2>2 DEF Exists
    <3> QED BY <2>1, <2>2, <3>1 DEF Chain
  <2>3. CASE code[k].client # c
    <3>1. \A r \in Chain(k) : refresh'[r] = refresh[r]
      BY <1>4, <2>3
    <3>2. Chain(k) \subseteq Chain(k)'
      BY <3>1 DEF Chain, Exists
    <3>3. Chain(k)' = Chain(k)
      BY <2>1, <3>2
    <3> QED BY <2>3, <3>1, <3>3
  <2> QED BY <2>2, <2>3
<1>6. LinksOK'
  BY <1>1, <1>5 DEF LinkInv, LinksOK
<1>7. ASSUME NEW g \in Handlers PROVE HeardOf(job[g])' /\ WalkOK(g)'
  <2>1. HeardOf(job[g]) /\ WalkOK(g) /\ JobOK(job[g]) /\ job[g].chain \subseteq RefreshIds
    BY <1>1, JobTyped DEF LinkInv, Job
  <2>2. HeardOf(job[g])'
    BY <1>1, <2>1 DEF HeardOf
  <2>3. ASSUME job[g].pc = "walk", NEW r \in job[g].chain
        PROVE  IF Exists(refresh[job[g].at])' THEN r \in Chain(refresh[job[g].at].code)' /\ r < job[g].at
                                              ELSE ~Exists(refresh[r])'
    <3>1. IF Exists(refresh[job[g].at]) THEN r \in Chain(refresh[job[g].at].code) /\ r < job[g].at
                                        ELSE ~Exists(refresh[r])
      BY <2>1, <2>3 DEF WalkOK
    <3>2. r \in RefreshIds /\ job[g].at \in RefreshIds /\ job'[g] = job[g]
      BY <1>1, <2>1, <2>3 DEF JobOK
    <3>3. CASE ~Exists(refresh[job[g].at])
      BY <1>3, <3>1, <3>2, <3>3
    <3>4. CASE Exists(refresh[job[g].at])
      <4>1. PICK k \in CodeIds : k = refresh[job[g].at].code
        BY <1>1, <3>2, <3>4, RowsTyped DEF Refresh
      <4>2. job[g].at \in Chain(k) /\ r \in Chain(k) /\ r < job[g].at
        BY <3>1, <3>2, <3>4, <4>1 DEF Chain
      <4>3. CASE code[k].client = c
        <5>1. refresh'[job[g].at] = NoRefresh /\ refresh'[r] = NoRefresh
          BY <1>4, <4>2, <4>3
        <5> QED BY <1>3, <3>2, <5>1 DEF Exists
      <4>4. CASE code[k].client # c
        <5>1. refresh'[job[g].at] = refresh[job[g].at] /\ r \in Chain(k)'
          BY <1>5, <4>2, <4>4
        <5> QED BY <3>2, <3>4, <4>1, <4>2, <5>1 DEF Exists
      <4> QED BY <4>3, <4>4
    <3> QED BY <3>3, <3>4
  <2>4. job[g].pc = "rotate" => job[g].chain = {}
    BY <2>1 DEF WalkOK
  <2>5. WalkOK(g)'
    BY <1>1, <2>3, <2>4 DEF WalkOK
  <2> QED BY <2>2, <2>5
<1>8. LinkInv'
  BY <1>1, <1>6, <1>7 DEF LinkInv
<1>9. ASSUME NEW k \in CodeIds PROVE Bounded(k)'
  <2>1. CASE code[k].client # c
    <3>1. \A r \in RefreshIds : r \in Chain(k) \/ r \in Chain(k)' => refresh'[r] = refresh[r]
      BY <1>5, <2>1
    <3> QED BY <1>1, <1>2, <3>1, OtherChain
  <2>2. CASE code[k].client = c
    <3>1. Chain(k)' = {}
      BY <1>5, <2>2
    <3>2. ASSUME NEW g \in Handlers, Threat(g, k)' PROVE FALSE
      <4>1. job'[g] = job[g] /\ job'[g].pc = "replace" /\ Present(job[g])' /\ job[g].code = k
        BY <1>1, <3>1, <3>2 DEF Threat
      <4>2. JobOK(job[g]) /\ FollowsOK(job[g]) /\ k # None
        BY <1>1, JobTyped DEF IInv, JobsOK, CodeIds, None
      <4>3. Present(job[g])
        BY <1>2, <4>1, <4>2 DEF Present, JobOK, ForClient
      <4>4. job[g].client = c
        BY <2>2, <4>1, <4>2, <4>3 DEF FollowsOK, Follows, Issuing
      <4> QED BY <1>2, <4>1, <4>4 DEF Present
    <3>3. Threats(k)' = {} /\ UsableIn(k)' = {} /\ ~Revoked(k)'
      BY <3>1, <3>2 DEF Threats, UsableIn, Revoked
    <3>4. Bounded(k) /\ races' >= races
      BY <1>1 DEF ChainInv
    <3> QED BY <1>1, <3>3, <3>4, KeepsBound
  <2> QED BY <2>1, <2>2
<1> QED BY <1>8, <1>9

LEMMA OtherTurns ==
  ASSUME ChainInv, TypeOK',
         \/ \E c \in Clients : Disable(c) \/ \E scopes \in ScopeSets : Update(c, scopes)
         \/ Crash \/ Tick \/ UNCHANGED vars
  PROVE  LinkInv' /\ \A k \in CodeIds : Bounded(k)'
<1>1. TypeOK /\ given \subseteq 1..refreshes /\ races \in Nat
  BY DEF ChainInv, IInv, LinkInv, TypeOK
<1>2. refresh' = refresh /\ refreshes' = refreshes /\ given' = given /\ races' = races
  BY DEF Disable, Update, Administer, Crash, Tick, tokens, vars
<1>3. \A c \in Clients : client[c] = "deleted" => client'[c] = "deleted"
  <2>1. ASSUME NEW c \in Clients, Disable(c), NEW d \in Clients, client[d] = "deleted"
        PROVE  client'[d] = "deleted"
    BY <1>1, <2>1 DEF Disable, TypeOK
  <2> QED BY <2>1 DEF Update, Crash, Tick, clients, vars
<1>4. ASSUME NEW g \in Handlers
      PROVE  job'[g] = job[g] \/ (HeardOf(job[g])' /\ WalkOK(g)' /\ \A k \in CodeIds : ~Threat(g, k)')
  <2>1. CASE Crash
    <3>1. job'[g] = Idle
      BY <2>1 DEF Crash
    <3> QED BY <3>1, IdleHeardOf, NotTurning
  <2>2. CASE ~Crash
    BY <2>2 DEF Disable, Update, Administer, Tick, vars
  <2> QED BY <2>1, <2>2
<1> QED BY <1>1, <1>2, <1>3, <1>4, TurnStep

LEMMA NextChain == ASSUME ChainInv, [Next]_vars PROVE ChainInv'
<1>1. IInv' /\ TypeOK'
  BY NextKeeps DEF ChainInv, IInv
<1> DEFINE Goal == LinkInv' /\ \A k \in CodeIds : Bounded(k)'
<1>2. ASSUME NEW h \in Handlers, Step(h) PROVE Goal
  BY <1>1, <1>2, CalmTurns, MintRefreshTurns, RotateTurns, ReplaceTurns, WalkTurns, RevokeChainTurns DEF Step
<1>3. ASSUME NEW h \in Handlers, Start(h) \/ Fails(h) PROVE Goal
  BY <1>1, <1>3, StartTurns, CalmTurns
<1>4. ASSUME NEW c \in Clients, Delete(c) PROVE Goal
  BY <1>1, <1>4, DeleteTurns
<1>5. ASSUME \/ \E c \in Clients : Disable(c) \/ \E scopes \in ScopeSets : Update(c, scopes)
             \/ Crash \/ Tick \/ UNCHANGED vars
      PROVE  Goal
  BY <1>1, <1>5, OtherTurns
<1> HIDE DEF Goal
<1>6. Goal
  BY <1>2, <1>3, <1>4, <1>5 DEF Next
<1> QED BY <1>1, <1>6 DEF ChainInv, Goal

LEMMA InitChain == ASSUME Init PROVE ChainInv
<1>1. IInv /\ TypeOK
  BY InitIInv DEF IInv
<1>2. \A h \in Handlers : job[h] = Idle
  BY DEF Init
<1>3. \A k : Chain(k) = {}
  BY DEF Init, Chain, Exists, NoRefresh
<1>4. LinkInv
  <2>1. \A h \in Handlers : HeardOf(job[h]) /\ WalkOK(h)
    BY <1>2 DEF Init, HeardOf, WalkOK, Idle, None
  <2> QED BY <1>3, <2>1 DEF Init, LinkInv, LinksOK
<1>5. ASSUME NEW k \in CodeIds PROVE Bounded(k)
  <2>1. Threats(k) = {} /\ Sounds(k) = {}
    BY <1>2 DEF Threats, Threat, Sounds, Idle
  <2>2. UsableIn(k) = {} /\ ~Revoked(k)
    BY <1>3 DEF UsableIn, Revoked
  <2>3. Cardinality({}) = 0
    BY FS_EmptySet
  <2> QED BY <2>1, <2>2, <2>3 DEF Bounded, Risk, Flag, Init
<1> QED BY <1>1, <1>4, <1>5 DEF ChainInv

\* In every interleaving, the tokens that are usable and those that the requests
\* under way can still make usable are bounded together.
THEOREM ChainInvariant == Spec => []ChainInv
BY InitChain, NextChain, PTL DEF Spec

\* In every interleaving, a chain has one token that can be rotated, and none after
\* one of it was revoked, but for one more at most for every request that began
\* while another was under way.
THEOREM Bound == Spec => []UsableBounded
<1>1. ASSUME ChainInv PROVE UsableBounded
  <2>1. ASSUME NEW k \in CodeIds PROVE Cardinality(UsableIn(k)) <= races + IF Revoked(k) THEN 0 ELSE 1
    <3>1. TypeOK /\ Bounded(k)
      BY <1>1 DEF ChainInv, IInv
    <3>2. PICK u, f, x : u = Cardinality(UsableIn(k)) /\ f = Flag(k) /\ x = Risk(Threats(k), Sounds(k))
      OBVIOUS
    <3>3. u \in Nat /\ f \in {0, 1} /\ x \in Nat /\ races \in Nat /\ u + f + x <= races + 1
      BY <3>1, <3>2, Counted DEF Bounded
    <3>4. f = IF Revoked(k) THEN 1 ELSE 0
      BY <3>2 DEF Flag
    <3>5. u <= races + IF Revoked(k) THEN 0 ELSE 1
      BY <3>3, <3>4
    <3> QED BY <3>2, <3>5
  <2> QED BY <2>1 DEF UsableBounded
<1> QED BY <1>1, ChainInvariant, PTL

\* As long as no two requests overlap, a replay revokes the chain: no token of it is
\* usable any more.
THEOREM ReplayRevokes == Spec => [](races = 0 => ReplayEndsChain)
<1>1. ASSUME ChainInv, UsableBounded, races = 0 PROVE ReplayEndsChain
  <2>1. ASSUME NEW k \in CodeIds, NEW r \in Chain(k), Revoked(k), Usable(r) PROVE FALSE
    <3>1. TypeOK /\ r \in UsableIn(k)
      BY <1>1, <2>1 DEF ChainInv, IInv, UsableIn
    <3>2. IsFiniteSet(UsableIn(k)) /\ Cardinality(UsableIn(k)) \in Nat
      BY <3>1, Counted
    <3>3. Cardinality(UsableIn(k)) <= 0
      BY <1>1, <2>1 DEF UsableBounded
    <3>4. UsableIn(k) = {}
      BY <3>2, <3>3, FS_EmptySet
    <3> QED BY <3>1, <3>4
  <2> QED BY <2>1 DEF ReplayEndsChain
<1> QED BY <1>1, ChainInvariant, Bound, PTL
=============================================================================
