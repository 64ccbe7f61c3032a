----------------------- MODULE LlmProxyAccess_proofs -----------------------
(***************************************************************************)
(* What the rules of granting and revoking keep true of the proxy's tokens *)
(* and of the flag User.allows_llm_proxy.  While handlers do not overlap,  *)
(* a user never has two active tokens, the flag follows the tokens and a   *)
(* rotation ends what it replaces; when they overlap, the tokens of a user *)
(* stay bounded and the startup still converges.                           *)
(***************************************************************************)
EXTENDS LlmProxyAccess, FiniteSetTheorems, WellFoundedInduction, TLAPS

(* The token table *)

LEMMA MonthStartIsNat ==
  ASSUME NEW d \in Nat
  PROVE  UtcMonthStart(d) \in Nat
<1>1. MonthLength \in Nat /\ MonthLength > 0
  BY TokensAssumption
<1>2. d \div MonthLength \in Nat
  BY <1>1
<1>3. ASSUME NEW a \in Nat, NEW b \in Nat PROVE a * b \in Nat
  BY Z3
<1> QED BY <1>1, <1>2, <1>3 DEF UtcMonthStart

LEMMA SetRevokedAtKeeps ==
  ASSUME TokOK, NEW t \in TokenIds, SetRevokedAt(t)
  PROVE  TokOK'
<1>1. [tok[t] EXCEPT !.revoked = TRUE] \in Row
  BY DEF Row, TokOK
<1> QED BY <1>1 DEF SetRevokedAt, TokOK

LEMMA SmallestMember ==
  ASSUME NEW S, S \subseteq Nat, S # {}
  PROVE  \E t \in S : \A s \in S : t <= s
<1>1. PICK t \in S : \A s \in S : ~ (<<s, t>> \in OpToRel(<, Nat))
  BY NatLessThanWellFounded, WFMin
<1>2. ASSUME NEW s \in S PROVE t <= s
  <2>1. s < t => <<s, t>> \in OpToRel(<, Nat)
    BY DEF OpToRel
  <2>2. ~ (s < t)
    BY <1>1, <2>1
  <2> QED BY <2>2
<1> QED BY <1>2

LEMMA LargestId ==
  ASSUME NEW S, S \subseteq TokenIds, S # {}
  PROVE  \E t \in S : \A s \in S : s <= t
<1> DEFINE D == {MaxTokenId - t : t \in S}
<1>1. \A t \in S : t \in Nat /\ t <= MaxTokenId
  BY TokensAssumption DEF TokenIds
<1>2. D \subseteq Nat /\ D # {}
  BY <1>1, TokensAssumption
<1>3. PICK d \in D : \A e \in D : d <= e
  BY <1>2, SmallestMember
<1>4. PICK t \in S : d = MaxTokenId - t
  BY <1>3
<1>5. ASSUME NEW s \in S PROVE s <= t
  <2>1. MaxTokenId - t <= MaxTokenId - s
    BY <1>3, <1>4
  <2> QED BY <1>1, <2>1, TokensAssumption
<1> QED BY <1>5

\* The find returns an active token of the user when there is one.
LEMMA FindActiveFinds ==
  ASSUME NEW u
  PROVE  /\ ActiveTokens(u) = {} => FindActiveForUser(u) = NoToken
         /\ ActiveTokens(u) # {} => FindActiveForUser(u) \in ActiveTokens(u)
         /\ FindActiveForUser(u) # NoToken => /\ FindActiveForUser(u) \in ActiveTokens(u)
                                             /\ FindActiveForUser(u) \in TokenIds
         /\ FindActiveForUser(u) \in TokenIds \cup {NoToken}
<1>1. ActiveTokens(u) \subseteq TokenIds
  BY DEF ActiveTokens
<1>2. CASE ActiveTokens(u) = {}
  BY <1>2 DEF FindActiveForUser
<1>3. CASE ActiveTokens(u) # {}
  <2>1. \E t \in ActiveTokens(u) : \A s \in ActiveTokens(u) : s <= t
    BY <1>1, <1>3, LargestId
  <2> QED BY <1>1, <1>3, <2>1 DEF FindActiveForUser
<1> QED BY <1>2, <1>3

LEMMA NextIdIsFree ==
  ASSUME FreeIds # {}
  PROVE  NextId \in FreeIds /\ NextId \in TokenIds
<1>1. FreeIds \subseteq Nat
  BY TokensAssumption DEF FreeIds, TokenIds
<1>2. \E t \in FreeIds : \A s \in FreeIds : t <= s
  BY <1>1, SmallestMember
<1> QED BY <1>2 DEF NextId, FreeIds

LEMMA CreateKeeps ==
  ASSUME TokOK, FreeIds # {}, NEW row \in Row, row.budget \in Budgets, Create(row)
  PROVE  TokOK'
BY NextIdIsFree DEF Create, TokOK

-----------------------------------------------------------------------------
(* The handlers' records *)

\* Handlers run one after the other.
Serial == \A g, h \in Handlers : g = h

LEMMA SetKeepsJobs ==
  ASSUME TypeOK, NEW h \in Handlers, NEW j, JobOK(j), Set(h, j)
  PROVE  /\ job' \in [Handlers -> Job]
         /\ \A g \in Handlers : JobOK(job'[g])
BY DEF TypeOK, Set, JobOK

LEMMA NoJobOK == JobOK(NoJob)
BY DEF NoJob, JobOK, Job, Points, Acting

LEMMA EndKeepsJobs ==
  ASSUME TypeOK, NEW h \in Handlers, End(h)
  PROVE  /\ job' \in [Handlers -> Job]
         /\ \A g \in Handlers : JobOK(job'[g])
BY SetKeepsJobs, NoJobOK DEF End

LEMMA ReturnKeepsJobs ==
  ASSUME TypeOK, NEW h \in Handlers, job[h].pc \in Acting, Return(h)
  PROVE  /\ job' \in [Handlers -> Job]
         /\ \A g \in Handlers : JobOK(job'[g])
<1>1. CASE job[h].then = "idle"
  BY <1>1, EndKeepsJobs DEF Return
<1>2. CASE job[h].then # "idle"
  <2> DEFINE j == [job[h] EXCEPT !.pc = job[h].then, !.then = "idle"]
  <2>1. job[h] \in Job /\ job[h].user \in Users
    BY DEF TypeOK, JobOK
  <2>2. JobOK(j)
    BY <2>1 DEF JobOK, Job, Points
  <2>3. Set(h, j)
    BY <1>2 DEF Return
  <2> HIDE DEF j
  <2> QED BY <2>2, <2>3, SetKeepsJobs
<1> QED BY <1>1, <1>2

LEMMA ThrowKeepsJobs ==
  ASSUME TypeOK, NEW h \in Handlers, job[h].pc \in Acting, Throw(h)
  PROVE  /\ job' \in [Handlers -> Job]
         /\ \A g \in Handlers : JobOK(job'[g])
BY EndKeepsJobs, ReturnKeepsJobs DEF Throw

\* Where only a bulk loop's member can be given up, the handler may be anywhere.
LEMMA FailureKeepsJobs ==
  ASSUME TypeOK, NEW h \in Handlers, Fails(h)
  PROVE  /\ job' \in [Handlers -> Job]
         /\ \A g \in Handlers : JobOK(job'[g])
<1>1. CASE job[h].then \in {"bulkGrant", "bulkRevoke"}
  <2> DEFINE j == [job[h] EXCEPT !.pc = job[h].then, !.then = "idle"]
  <2>1. job[h] \in Job
    BY DEF TypeOK
  <2>2. j \in Job /\ j.pc = job[h].then
    BY <1>1, <2>1 DEF Job, Points
  <2>3. Set(h, j)
    BY <1>1 DEF Fails, Throw, Return
  <2> HIDE DEF j
  <2>4. JobOK(j)
    BY <1>1, <2>2 DEF JobOK, Acting
  <2> QED BY <2>3, <2>4, SetKeepsJobs
<1>2. CASE job[h].then \notin {"bulkGrant", "bulkRevoke"}
  BY <1>2, EndKeepsJobs DEF Fails, Throw
<1> QED BY <1>1, <1>2

\* The records that the steps of a handler make of its record.
LEMMA JobUpdates ==
  ASSUME NEW j \in Job
  PROVE  /\ j.user \in Users => /\ JobOK([j EXCEPT !.pc = "mint"])
                                /\ JobOK([j EXCEPT !.pc = "ensure"])
                                /\ JobOK([j EXCEPT !.pc = "grant"])
                                /\ JobOK([j EXCEPT !.pc = "revoke"])
                                /\ JobOK([j EXCEPT !.pc = "revoke", !.then = "grant"])
                                /\ JobOK([j EXCEPT !.pc = "revoke", !.then = "ensure"])
                                /\ \A t \in TokenIds :
                                     /\ JobOK([j EXCEPT !.pc = "drop", !.token = t])
                                     /\ JobOK([j EXCEPT !.pc = "setFlag", !.token = t])
<1> SUFFICES ASSUME j.user \in Users
             PROVE  /\ JobOK([j EXCEPT !.pc = "mint"])
                    /\ JobOK([j EXCEPT !.pc = "ensure"])
                    /\ JobOK([j EXCEPT !.pc = "grant"])
                    /\ JobOK([j EXCEPT !.pc = "revoke"])
                    /\ JobOK([j EXCEPT !.pc = "revoke", !.then = "grant"])
                    /\ JobOK([j EXCEPT !.pc = "revoke", !.then = "ensure"])
                    /\ \A t \in TokenIds :
                         /\ JobOK([j EXCEPT !.pc = "drop", !.token = t])
                         /\ JobOK([j EXCEPT !.pc = "setFlag", !.token = t])
  OBVIOUS
<1>1. JobOK([j EXCEPT !.pc = "mint"]) /\ JobOK([j EXCEPT !.pc = "ensure"])
  BY DEF JobOK, Job, Points
<1>2. JobOK([j EXCEPT !.pc = "grant"]) /\ JobOK([j EXCEPT !.pc = "revoke"])
  BY DEF JobOK, Job, Points
<1>3. JobOK([j EXCEPT !.pc = "revoke", !.then = "grant"])
  BY DEF JobOK, Job, Points
<1>4. JobOK([j EXCEPT !.pc = "revoke", !.then = "ensure"])
  BY DEF JobOK, Job, Points
<1>5. ASSUME NEW t \in TokenIds
      PROVE  /\ JobOK([j EXCEPT !.pc = "drop", !.token = t])
             /\ JobOK([j EXCEPT !.pc = "setFlag", !.token = t])
  BY DEF JobOK, Job, Points
<1> QED BY <1>1, <1>2, <1>3, <1>4, <1>5

\* The records that the loops make.
LEMMA LoopUpdates ==
  ASSUME NEW j \in Job, j.pc \notin Acting
  PROVE  /\ \A u \in Users : JobOK([j EXCEPT !.todo = @ \ {u}])
         /\ \A u \in Users, pc \in {"grant", "revoke"}, then \in {"bulkGrant", "bulkRevoke", "allowed"} :
              JobOK([j EXCEPT !.pc = pc, !.user = u, !.then = then, !.todo = @ \ {u}])
         /\ \A s \in SUBSET Users : JobOK([j EXCEPT !.pc = "live", !.todo = s])
<1>1. ASSUME NEW u \in Users PROVE JobOK([j EXCEPT !.todo = @ \ {u}])
  <2>1. [j EXCEPT !.todo = @ \ {u}] \in Job
    BY DEF Job
  <2>2. [j EXCEPT !.todo = @ \ {u}].pc = j.pc
    BY DEF Job
  <2>3. ASSUME NEW l \in Job, l.pc = j.pc PROVE JobOK(l)
    BY <2>3 DEF JobOK, Acting
  <2> QED BY <2>1, <2>2, <2>3
<1>2. ASSUME NEW u \in Users, NEW pc \in {"grant", "revoke"},
             NEW then \in {"bulkGrant", "bulkRevoke", "allowed"}
      PROVE  JobOK([j EXCEPT !.pc = pc, !.user = u, !.then = then, !.todo = @ \ {u}])
  BY DEF JobOK, Job, Points
<1>3. ASSUME NEW s \in SUBSET Users PROVE JobOK([j EXCEPT !.pc = "live", !.todo = s])
  <2>1. [j EXCEPT !.pc = "live", !.todo = s] \in Job
    BY DEF Job, Points
  <2>2. [j EXCEPT !.pc = "live", !.todo = s].pc = "live"
    BY DEF Job
  <2>3. ASSUME NEW l \in Job, l.pc = "live" PROVE JobOK(l)
    BY <2>3 DEF JobOK, Acting
  <2> QED BY <2>1, <2>2, <2>3
<1> QED BY <1>1, <1>2, <1>3

-----------------------------------------------------------------------------
(* Type correctness *)

\* What a step of a handler that writes no table keeps.
LEMMA TablesKept ==
  ASSUME TypeOK, UNCHANGED <<tok, flag, world>>,
         job' \in [Handlers -> Job], \A g \in Handlers : JobOK(job'[g])
  PROVE  TypeOK'
BY DEF TypeOK, TokOK, world, JobOK

LEMMA InitTypeOK == ASSUME Init PROVE TypeOK
<1>1. \A u \in Users, e \in Ttls : LegacyRow(u, e) \in Row /\ LegacyRow(u, e).budget \in Budgets
  BY AccessAssumption, TokensAssumption DEF LegacyRow, Row
<1>2. EmptyRow \in Row /\ EmptyRow.budget = NoBudget
  BY DEF EmptyRow, Row
<1>3. TokOK
  BY <1>1, <1>2 DEF Init, TokOK
<1>4. NoJob \in Job
  BY NoJobOK DEF JobOK
<1>5. now \in Instants
  BY TokensAssumption DEF Init, Instants
<1> QED BY <1>3, <1>4, <1>5, NoJobOK DEF Init, TypeOK

\* The user a handler at a point of Acting acts on, and its record.
LEMMA ActingJob ==
  ASSUME TypeOK, NEW h \in Handlers, job[h].pc \in Acting
  PROVE  job[h] \in Job /\ job[h].user \in Users
BY DEF TypeOK, JobOK

LEMMA GrantCheckTypeOK ==
  ASSUME TypeOK, NEW h \in Handlers, GrantCheck(h) PROVE TypeOK'
<1>1. job[h].pc \in Acting
  BY DEF GrantCheck, At, Acting
<1>2. job' \in [Handlers -> Job] /\ \A g \in Handlers : JobOK(job'[g])
  <2>1. CASE Throw(h)
    BY <1>1, <2>1, ThrowKeepsJobs
  <2>2. CASE Set(h, [job[h] EXCEPT !.pc = "mint"])
    BY <1>1, <2>2, ActingJob, JobUpdates, SetKeepsJobs
  <2> QED BY <2>1, <2>2 DEF GrantCheck
<1> QED BY <1>2, TablesKept DEF GrantCheck

LEMMA NewRowIsRow ==
  ASSUME TypeOK, NEW u \in Users, NEW d \in Nat
  PROVE  NewRow(u, d) \in Row /\ NewRow(u, d).budget \in Budgets
<1>1. now \in Nat /\ now + d \in Nat
  BY TokensAssumption DEF TypeOK, Instants
<1>2. UtcMonthStart(now) \in Nat
  BY <1>1, MonthStartIsNat
<1>3. DefaultBudget \in Nat /\ DefaultBudget \in Budgets /\ TokenLimit \in Nat
  BY AccessAssumption, TokensAssumption
<1> QED BY <1>1, <1>2, <1>3 DEF NewRow, Row

LEMMA GrantMintTypeOK ==
  ASSUME TypeOK, NEW h \in Handlers, GrantMint(h) PROVE TypeOK'
<1>1. job[h].pc \in Acting
  BY DEF GrantMint, At, Acting
<1>2. job' \in [Handlers -> Job] /\ \A g \in Handlers : JobOK(job'[g])
  BY <1>1, ReturnKeepsJobs DEF GrantMint
<1>3. TokOK'
  <2>1. job[h].user \in Users /\ job[h].ttl \in Nat
    BY <1>1, ActingJob DEF Job
  <2> QED BY <2>1, NewRowIsRow, CreateKeeps DEF GrantMint, TypeOK
<1> QED BY <1>2, <1>3 DEF GrantMint, TypeOK, world

LEMMA RevokeFindTypeOK ==
  ASSUME TypeOK, NEW h \in Handlers, RevokeFind(h) PROVE TypeOK'
<1> DEFINE t == FindActiveForUser(job[h].user)
<1>1. job[h].pc \in Acting
  BY DEF RevokeFind, At, Acting
<1>2. job' \in [Handlers -> Job] /\ \A g \in Handlers : JobOK(job'[g])
  <2>1. CASE Throw(h)
    BY <1>1, <2>1, ThrowKeepsJobs
  <2>2. CASE t # NoToken /\ Set(h, [job[h] EXCEPT !.pc = "drop", !.token = t])
    <3>1. t \in TokenIds
      BY <2>2, FindActiveFinds
    <3> HIDE DEF t
    <3> QED BY <1>1, <2>2, <3>1, ActingJob, JobUpdates, SetKeepsJobs
  <2> QED BY <2>1, <2>2 DEF RevokeFind
<1> QED BY <1>2, TablesKept DEF RevokeFind

LEMMA RevokeDropTypeOK ==
  ASSUME TypeOK, NEW h \in Handlers, RevokeDrop(h) PROVE TypeOK'
<1>1. job[h].pc \in Acting /\ job[h].token \in TokenIds
  BY DEF RevokeDrop, At, Acting, TypeOK, JobOK
<1>2. job' \in [Handlers -> Job] /\ \A g \in Handlers : JobOK(job'[g])
  BY <1>1, ReturnKeepsJobs DEF RevokeDrop
<1>3. TokOK'
  BY <1>1, SetRevokedAtKeeps DEF RevokeDrop, TypeOK
<1> QED BY <1>2, <1>3 DEF RevokeDrop, TypeOK, world

LEMMA EnsureFindTypeOK ==
  ASSUME TypeOK, NEW h \in Handlers, EnsureFind(h) PROVE TypeOK'
<1> DEFINE t == FindActiveForUser(job[h].user)
<1>1. job[h].pc \in Acting
  BY DEF EnsureFind, At, Acting
<1>2. job' \in [Handlers -> Job] /\ \A g \in Handlers : JobOK(job'[g])
  <2>1. CASE t # NoToken /\ Set(h, [job[h] EXCEPT !.pc = "setFlag", !.token = t])
    <3>1. t \in TokenIds
      BY <2>1, FindActiveFinds
    <3> HIDE DEF t
    <3> QED BY <1>1, <2>1, <3>1, ActingJob, JobUpdates, SetKeepsJobs
  <2>2. CASE Set(h, [job[h] EXCEPT !.pc = "revoke", !.then = "grant"])
    BY <1>1, <2>2, ActingJob, JobUpdates, SetKeepsJobs
  <2>3. CASE Set(h, [job[h] EXCEPT !.pc = "grant"])
    BY <1>1, <2>3, ActingJob, JobUpdates, SetKeepsJobs
  <2> QED BY <2>1, <2>2, <2>3 DEF EnsureFind
<1> QED BY <1>2, TablesKept DEF EnsureFind

LEMMA EnsureFlagTypeOK ==
  ASSUME TypeOK, NEW h \in Handlers, EnsureFlag(h) PROVE TypeOK'
<1>1. job' \in [Handlers -> Job] /\ \A g \in Handlers : JobOK(job'[g])
  BY EndKeepsJobs DEF EnsureFlag
<1> QED BY <1>1 DEF EnsureFlag, TypeOK, TokOK, world

LEMMA RotateFindTypeOK ==
  ASSUME TypeOK, NEW h \in Handlers, RotateFind(h) PROVE TypeOK'
<1>1. job[h].pc \in Acting
  BY DEF RotateFind, At, Acting
<1>2. job' \in [Handlers -> Job] /\ \A g \in Handlers : JobOK(job'[g])
  <2>1. CASE Set(h, [job[h] EXCEPT !.pc = "revoke", !.then = "ensure"])
    BY <1>1, <2>1, ActingJob, JobUpdates, SetKeepsJobs
  <2>2. CASE Set(h, [job[h] EXCEPT !.pc = "ensure"])
    BY <1>1, <2>2, ActingJob, JobUpdates, SetKeepsJobs
  <2> QED BY <2>1, <2>2 DEF RotateFind
<1> QED BY <1>2, TablesKept DEF RotateFind

LEMMA PermitTypeOK ==
  ASSUME TypeOK, NEW h \in Handlers, Permit(h) PROVE TypeOK'
<1>1. job[h].pc \in Acting
  BY DEF Permit, At, Acting
<1>2. job[h] \in Job /\ job[h].user \in Users
  BY <1>1, ActingJob
<1>3. job' \in [Handlers -> Job] /\ \A g \in Handlers : JobOK(job'[g])
  <2>1. CASE Set(h, [job[h] EXCEPT !.pc = "grant"])
    BY <1>2, <2>1, JobUpdates, SetKeepsJobs
  <2>2. CASE Set(h, [job[h] EXCEPT !.pc = "revoke"])
    BY <1>2, <2>2, JobUpdates, SetKeepsJobs
  <2>3. CASE End(h)
    BY <2>3, EndKeepsJobs
  <2> QED BY <2>1, <2>2, <2>3 DEF Permit
<1>4. flag' \in [Users -> BOOLEAN]
  BY <1>2 DEF Permit, TypeOK, Job
<1> QED BY <1>3, <1>4 DEF Permit, TypeOK, TokOK, world

LEMMA BulkNextTypeOK ==
  ASSUME TypeOK, NEW h \in Handlers, NEW u \in Users, BulkNext(h, u) PROVE TypeOK'
<1>1. job[h] \in Job
  BY DEF TypeOK
<1>2. job[h].pc \in {"bulkGrant", "bulkRevoke"} /\ job[h].pc \notin Acting
  BY DEF BulkNext, At, Acting
<1>3. job' \in [Handlers -> Job] /\ \A g \in Handlers : JobOK(job'[g])
  <2>1. CASE \E pc \in {"grant", "revoke"} :
               Set(h, [job[h] EXCEPT !.pc = pc, !.user = u, !.then = job[h].pc, !.todo = @ \ {u}])
    BY <1>1, <1>2, <2>1, LoopUpdates, SetKeepsJobs
  <2>2. CASE Set(h, [job[h] EXCEPT !.todo = @ \ {u}])
    BY <1>1, <1>2, <2>2, LoopUpdates, SetKeepsJobs
  <2> QED BY <2>1, <2>2 DEF BulkNext
<1> QED BY <1>3, TablesKept DEF BulkNext

LEMMA AllowedNextTypeOK ==
  ASSUME TypeOK, NEW h \in Handlers, NEW u \in Users, AllowedNext(h, u) PROVE TypeOK'
<1>1. job[h] \in Job
  BY DEF TypeOK
<1>2. job[h].pc \notin Acting
  BY DEF AllowedNext, At, Acting
<1>3. job' \in [Handlers -> Job] /\ \A g \in Handlers : JobOK(job'[g])
  <2>1. CASE Set(h, [job[h] EXCEPT !.pc = "grant", !.user = u, !.then = "allowed", !.todo = @ \ {u}])
    BY <1>1, <1>2, <2>1, LoopUpdates, SetKeepsJobs
  <2>2. CASE Set(h, [job[h] EXCEPT !.todo = @ \ {u}])
    BY <1>1, <1>2, <2>2, LoopUpdates, SetKeepsJobs
  <2> QED BY <2>1, <2>2 DEF AllowedNext
<1> QED BY <1>3, TablesKept DEF AllowedNext

LEMMA LiveNextTypeOK ==
  ASSUME TypeOK, NEW h \in Handlers, NEW u \in Users, LiveNext(h, u) PROVE TypeOK'
<1>1. job[h] \in Job
  BY DEF TypeOK
<1>2. job[h].pc \notin Acting
  BY DEF LiveNext, At, Acting
<1>3. job' \in [Handlers -> Job] /\ \A g \in Handlers : JobOK(job'[g])
  BY <1>1, <1>2, LoopUpdates, SetKeepsJobs DEF LiveNext
<1> QED BY <1>3 DEF LiveNext, TypeOK, TokOK, world

\* The loops' ends: the second loop begins, the server listens, the group's
\* members have been visited.
LEMMA LoopEndTypeOK ==
  ASSUME TypeOK, NEW h \in Handlers, AllowedDone(h) \/ LiveDone(h) \/ BulkDone(h) PROVE TypeOK'
<1>1. CASE AllowedDone(h)
  <2>1. job[h] \in Job /\ job[h].pc \notin Acting
    BY <1>1 DEF TypeOK, AllowedDone, At, Acting
  <2>2. {u \in Users : ActiveTokens(u) # {}} \in SUBSET Users
    OBVIOUS
  <2>3. JobOK([job[h] EXCEPT !.pc = "live", !.todo = {u \in Users : ActiveTokens(u) # {}}])
    BY <2>1, <2>2, LoopUpdates
  <2>4. job' \in [Handlers -> Job] /\ \A g \in Handlers : JobOK(job'[g])
    BY <1>1, <2>2, <2>3, SetKeepsJobs DEF AllowedDone
  <2> QED BY <1>1, <2>4, TablesKept DEF AllowedDone
<1>2. CASE LiveDone(h)
  BY <1>2, EndKeepsJobs DEF LiveDone, TypeOK, TokOK
<1>3. CASE BulkDone(h)
  BY <1>3, EndKeepsJobs, TablesKept DEF BulkDone
<1> QED BY <1>1, <1>2, <1>3

LEMMA JobStepTypeOK ==
  ASSUME TypeOK, NEW h \in Handlers, JobStep(h) PROVE TypeOK'
BY GrantCheckTypeOK, GrantMintTypeOK, RevokeFindTypeOK, RevokeDropTypeOK, EnsureFindTypeOK,
   EnsureFlagTypeOK, RotateFindTypeOK, PermitTypeOK, BulkNextTypeOK, AllowedNextTypeOK,
   LiveNextTypeOK, LoopEndTypeOK DEF JobStep

\* A request that only begins a handler.
LEMMA BeginTypeOK ==
  ASSUME TypeOK, NEW h \in Handlers, NEW op, NEW j, JobOK(j), Begin(h, op, j), UNCHANGED tables
  PROVE  TypeOK'
<1>1. job' \in [Handlers -> Job] /\ \A g \in Handlers : JobOK(job'[g])
  BY SetKeepsJobs DEF Begin
<1> QED BY <1>1 DEF TypeOK, TokOK, tables, Begin

\* The records of new handlers.
LEMMA NewJobs ==
  ASSUME NEW ttl \in Nat, NEW s \in SUBSET Users
  PROVE  /\ \A u \in Users :
              /\ JobOK([NoJob EXCEPT !.pc = "grant", !.user = u, !.ttl = ttl])
              /\ JobOK([NoJob EXCEPT !.pc = "revoke", !.user = u])
              /\ JobOK([NoJob EXCEPT !.pc = "ensure", !.user = u, !.ttl = ttl])
              /\ \A old \in SUBSET TokenIds :
                   JobOK([NoJob EXCEPT !.pc = "rotate", !.user = u, !.ttl = ttl, !.old = old])
              /\ \A was, to \in BOOLEAN :
                   JobOK([NoJob EXCEPT !.pc = "permit", !.user = u, !.ttl = ttl, !.was = was, !.to = to])
         /\ \A op \in {"bulkGrant", "bulkRevoke"} :
              JobOK([NoJob EXCEPT !.pc = op, !.ttl = ttl, !.todo = s])
         /\ \A at \in Nat :
              JobOK([NoJob EXCEPT !.pc = "allowed", !.todo = s, !.ttl = ttl, !.since = at])
<1>1. ASSUME NEW u \in Users
      PROVE  /\ JobOK([NoJob EXCEPT !.pc = "grant", !.user = u, !.ttl = ttl])
             /\ JobOK([NoJob EXCEPT !.pc = "revoke", !.user = u])
             /\ JobOK([NoJob EXCEPT !.pc = "ensure", !.user = u, !.ttl = ttl])
  BY DEF NoJob, JobOK, Job, Points
<1>2. ASSUME NEW u \in Users, NEW old \in SUBSET TokenIds
      PROVE  JobOK([NoJob EXCEPT !.pc = "rotate", !.user = u, !.ttl = ttl, !.old = old])
  BY DEF NoJob, JobOK, Job, Points
<1>3. ASSUME NEW u \in Users, NEW was \in BOOLEAN, NEW to \in BOOLEAN
      PROVE  JobOK([NoJob EXCEPT !.pc = "permit", !.user = u, !.ttl = ttl, !.was = was, !.to = to])
  BY DEF NoJob, JobOK, Job, Points
<1>4. ASSUME NEW op \in {"bulkGrant", "bulkRevoke"}
      PROVE  JobOK([NoJob EXCEPT !.pc = op, !.ttl = ttl, !.todo = s])
  BY DEF NoJob, JobOK, Job, Points, Acting
<1>5. ASSUME NEW at \in Nat
      PROVE  JobOK([NoJob EXCEPT !.pc = "allowed", !.todo = s, !.ttl = ttl, !.since = at])
  BY DEF NoJob, JobOK, Job, Points, Acting
<1> QED BY <1>1, <1>2, <1>3, <1>4, <1>5

LEMMA MergeTokensKeeps ==
  ASSUME TokOK, NEW s \in Users, NEW n \in Users, MergeTokens(s, n)
  PROVE  TokOK'
<1> DEFINE st == FindActiveForUser(s)
           nt == FindActiveForUser(n)
           both == st # NoToken /\ nt # NoToken
           row(t) == [tok[t] EXCEPT !.user = IF @ = n THEN s ELSE @,
                                    !.revoked = @ \/ (both /\ t = nt),
                                    !.used = IF both /\ t = st THEN @ + tok[nt].used ELSE @]
<1>1. both => tok[nt].used \in Nat
  BY FindActiveFinds DEF TokOK, Row
<1>2. ASSUME NEW t \in TokenIds PROVE row(t) \in Row /\ row(t).budget = tok[t].budget
  <2>1. tok[t] \in Row
    BY DEF TokOK
  <2>2. (IF tok[t].user = n THEN s ELSE tok[t].user) \in Users \cup {NoUser}
    BY <2>1 DEF Row
  <2>3. (tok[t].revoked \/ (both /\ t = nt)) \in BOOLEAN
    BY <2>1 DEF Row
  <2>4. (IF both /\ t = st THEN tok[t].used + tok[nt].used ELSE tok[t].used) \in Nat
    BY <1>1, <2>1 DEF Row
  <2> HIDE DEF both, st, nt
  <2> QED BY <2>1, <2>2, <2>3, <2>4 DEF Row
<1>3. tok' = [t \in TokenIds |-> row(t)]
  BY DEF MergeTokens
<1> HIDE DEF row
<1> QED BY <1>2, <1>3 DEF TokOK

LEMMA RequestTypeOK ==
  ASSUME TypeOK, NEW h \in Handlers, Request(h) PROVE TypeOK'
<1>1. \A ttl \in Ttls \cup {AutoTtl} : ttl \in Nat
  BY AccessAssumption
<1>2. CASE \E u \in Users, ttl \in Ttls : BeginGrant(h, u, ttl)
  BY <1>1, <1>2, NewJobs, BeginTypeOK DEF BeginGrant
<1>3. CASE \E u \in Users : BeginRevoke(h, u)
  BY <1>1, <1>3, NewJobs, BeginTypeOK DEF BeginRevoke
<1>4. CASE \E u \in Users : BeginIssue(h, u)
  BY <1>1, <1>4, NewJobs, BeginTypeOK DEF BeginIssue
<1>5. CASE \E u \in Users : BeginRotate(h, u)
  <2>1. PICK u \in Users : BeginRotate(h, u)
    BY <1>5
  <2>2. ActiveTokens(u) \in SUBSET TokenIds
    BY DEF ActiveTokens
  <2>3. JobOK([NoJob EXCEPT !.pc = "rotate", !.user = u, !.ttl = AutoTtl, !.old = ActiveTokens(u)])
    BY <1>1, <2>2, NewJobs
  <2> QED BY <2>1, <2>3, BeginTypeOK DEF BeginRotate
<1>6. CASE \E u \in Users, v \in BOOLEAN : BeginPermit(h, u, v)
  <2>1. PICK u \in Users, v \in BOOLEAN : BeginPermit(h, u, v)
    BY <1>6
  <2>2. flag[u] \in BOOLEAN
    BY DEF TypeOK
  <2>3. JobOK([NoJob EXCEPT !.pc = "permit", !.user = u, !.ttl = AutoTtl, !.was = flag[u], !.to = v])
    BY <1>1, <2>2, NewJobs
  <2> QED BY <2>1, <2>3, BeginTypeOK DEF BeginPermit
<1>7. CASE \E op \in {"bulkGrant", "bulkRevoke"}, m \in SUBSET Users, ttl \in Ttls :
             BeginBulk(h, op, m, ttl)
  BY <1>1, <1>7, NewJobs, BeginTypeOK DEF BeginBulk
<1>8. CASE \E u \in Users : Deactivate(h, u)
  <2>1. job' \in [Handlers -> Job] /\ \A g \in Handlers : JobOK(job'[g])
    BY <1>8, NoJobOK, SetKeepsJobs DEF Deactivate, Begin
  <2> QED BY <1>8, <2>1 DEF Deactivate, Begin, TypeOK, TokOK
<1>9. CASE \E s, n \in Users : Merge(h, s, n)
  <2>1. PICK s \in Users, n \in Users : Merge(h, s, n)
    BY <1>9
  <2>2. job' \in [Handlers -> Job] /\ \A g \in Handlers : JobOK(job'[g])
    BY <2>1, NoJobOK, SetKeepsJobs DEF Merge, Begin
  <2>3. TokOK'
    BY <2>1, MergeTokensKeeps DEF Merge, TypeOK
  <2>4. flag' \in [Users -> BOOLEAN]
    BY <2>1 DEF Merge, TypeOK
  <2>5. decided' \subseteq SUBSET Users
    BY <2>1 DEF Merge, TypeOK
  <2> QED BY <2>1, <2>2, <2>3, <2>4, <2>5 DEF Merge, Begin, TypeOK
<1> QED BY <1>2, <1>3, <1>4, <1>5, <1>6, <1>7, <1>8, <1>9 DEF Request

LEMMA NextTypeOK ==
  ASSUME TypeOK, [Next]_vars PROVE TypeOK'
<1>1. CASE \E h \in Handlers : Boot(h)
  <2>1. PICK h \in Handlers : Boot(h)
    BY <1>1
  <2>2. now \in Nat /\ AutoTtl \in Nat
    BY TokensAssumption, AccessAssumption DEF TypeOK, Instants
  <2>3. job' \in [Handlers -> Job] /\ \A g \in Handlers : JobOK(job'[g])
    BY <2>1, <2>2, NewJobs, SetKeepsJobs DEF Boot
  <2> QED BY <2>1, <2>3 DEF Boot, TypeOK, TokOK
<1>2. CASE \E h \in Handlers : Request(h)
  BY <1>2, RequestTypeOK
<1>3. CASE \E h \in Handlers : JobStep(h)
  BY <1>3, JobStepTypeOK
<1>4. CASE Crash
  BY <1>4, NoJobOK DEF Crash, TypeOK, TokOK, JobOK
<1>5. CASE Tick
  BY <1>5, TokensAssumption DEF Tick, TypeOK, TokOK, Instants
<1>6. CASE UNCHANGED vars
  BY <1>6 DEF vars, TypeOK, TokOK
<1>7. CASE \E h \in Handlers : Fails(h)
  BY <1>7, FailureKeepsJobs DEF Fails, TypeOK, TokOK
<1> QED BY <1>1, <1>2, <1>3, <1>4, <1>5, <1>6, <1>7 DEF Next

\* Every variable keeps its type, whatever handlers run and however they
\* overlap; a handler always has the user and the token its next statement
\* needs.
THEOREM AccessTypeCorrect == Spec => []TypeOK
<1>1. Init => TypeOK
  BY InitTypeOK
<1>2. TypeOK /\ [Next]_vars => TypeOK'
  BY NextTypeOK
<1> QED BY <1>1, <1>2, PTL DEF Spec

-----------------------------------------------------------------------------
(* One handler at a time *)

IInv ==
  /\ TypeOK
  /\ AtMostOneActive
  /\ MintsForTokenless

LEMMA NoTokenNotId == NoToken \notin TokenIds
BY DEF NoToken, TokenIds

LEMMA NoneFound ==
  ASSUME NEW u, FindActiveForUser(u) = NoToken
  PROVE  ActiveTokens(u) = {}
BY FindActiveFinds, NoTokenNotId DEF ActiveTokens

\* A step that makes no token active and leaves no grant about to mint.
LEMMA ShrinkKeeps ==
  ASSUME Serial, AtMostOneActive, NEW h \in Handlers, job'[h].pc # "mint",
         \A u \in Users : ActiveTokens(u)' \subseteq ActiveTokens(u)
  PROVE  AtMostOneActive' /\ MintsForTokenless'
<1>1. AtMostOneActive'
  <2> SUFFICES ASSUME NEW u \in Users, NEW a \in ActiveTokens(u)', NEW b \in ActiveTokens(u)'
               PROVE  a = b
    BY DEF AtMostOneActive
  <2> QED BY DEF AtMostOneActive
<1>2. MintsForTokenless'
  BY DEF MintsForTokenless, Serial, At
<1> QED BY <1>1, <1>2

LEMMA SameTokens ==
  ASSUME UNCHANGED <<tok, now>>
  PROVE  \A u \in Users : ActiveTokens(u)' \subseteq ActiveTokens(u)
BY DEF ActiveTokens, Active

\* Only the check of a grant brings a handler to the point of minting.
LEMMA EndNotMint ==
  ASSUME TypeOK, NEW h \in Handlers, End(h) PROVE job'[h].pc # "mint"
BY DEF End, Set, TypeOK, NoJob

LEMMA SetNotMint ==
  ASSUME TypeOK, NEW h \in Handlers, NEW j, Set(h, j), j.pc # "mint" PROVE job'[h].pc # "mint"
BY DEF Set, TypeOK

LEMMA ReturnNotMint ==
  ASSUME TypeOK, NEW h \in Handlers, Return(h) PROVE job'[h].pc # "mint"
<1>1. job[h] \in Job
  BY DEF TypeOK
<1>2. CASE job[h].then = "idle"
  BY <1>2, EndNotMint DEF Return
<1>3. CASE job[h].then # "idle"
  <2>1. Set(h, [job[h] EXCEPT !.pc = job[h].then, !.then = "idle"])
    BY <1>3 DEF Return
  <2>2. [job[h] EXCEPT !.pc = job[h].then, !.then = "idle"].pc # "mint"
    BY <1>1 DEF Job
  <2> QED BY <2>1, <2>2, SetNotMint
<1> QED BY <1>2, <1>3

LEMMA GrantCheckKeeps ==
  ASSUME IInv, Serial, NEW h \in Handlers, GrantCheck(h) PROVE IInv'
<1>1. TypeOK'
  BY GrantCheckTypeOK DEF IInv
<1>2. CASE Throw(h)
  <2>1. job'[h].pc # "mint"
    BY <1>2, EndNotMint, ReturnNotMint DEF Throw, IInv
  <2> QED BY <1>1, <2>1, SameTokens, ShrinkKeeps DEF GrantCheck, IInv, world
<1>3. CASE FindActiveForUser(job[h].user) = NoToken /\ Set(h, [job[h] EXCEPT !.pc = "mint"])
  <2>1. \A u : ActiveTokens(u)' = ActiveTokens(u)
    BY DEF GrantCheck, world, ActiveTokens, Active
  <2>2. AtMostOneActive'
    BY <2>1 DEF IInv, AtMostOneActive
  <2>3. job'[h].user = job[h].user
    BY <1>3 DEF Set, IInv, TypeOK, Job
  <2>4. ActiveTokens(job[h].user) = {}
    BY <1>3, NoneFound
  <2>5. MintsForTokenless'
    BY <2>1, <2>3, <2>4 DEF MintsForTokenless, Serial
  <2> QED BY <1>1, <2>2, <2>5 DEF IInv
<1> QED BY <1>2, <1>3 DEF GrantCheck

LEMMA GrantMintKeeps ==
  ASSUME IInv, Serial, NEW h \in Handlers, GrantMint(h) PROVE IInv'
<1> PICK u : u = job[h].user
  OBVIOUS
<1> DEFINE row == NewRow(u, job[h].ttl)
<1>1. TypeOK'
  BY GrantMintTypeOK DEF IInv
<1>2. job'[h].pc # "mint"
  BY ReturnNotMint DEF GrantMint, IInv
<1>3. MintsForTokenless'
  BY <1>2 DEF MintsForTokenless, Serial, At
<1>4. ActiveTokens(u) = {}
  BY DEF GrantMint, IInv, MintsForTokenless
<1>5. tok' = [tok EXCEPT ![NextId] = row] /\ now' = now /\ NextId \in TokenIds
  BY NextIdIsFree DEF GrantMint, Create, world
<1>6. row.user = u
  BY DEF NewRow
<1>7. tok \in [TokenIds -> Row]
  BY DEF IInv, TypeOK, TokOK
<1> HIDE DEF row
<1>8. ActiveTokens(u)' \subseteq {NextId}
  BY <1>4, <1>5, <1>7 DEF ActiveTokens, Active
<1>9. ASSUME NEW v \in Users, v # u PROVE ActiveTokens(v)' \subseteq ActiveTokens(v)
  BY <1>5, <1>6, <1>7, <1>9 DEF ActiveTokens, Active
<1>10. AtMostOneActive'
  <2> SUFFICES ASSUME NEW v \in Users, NEW a \in ActiveTokens(v)', NEW b \in ActiveTokens(v)'
               PROVE  a = b
    BY DEF AtMostOneActive
  <2>1. CASE v = u
    BY <1>8, <2>1
  <2>2. CASE v # u
    BY <1>9, <2>2 DEF IInv, AtMostOneActive
  <2> QED BY <2>1, <2>2
<1> QED BY <1>1, <1>3, <1>10 DEF IInv

LEMMA RevokeDropKeeps ==
  ASSUME IInv, Serial, NEW h \in Handlers, RevokeDrop(h) PROVE IInv'
<1>1. TypeOK'
  BY RevokeDropTypeOK DEF IInv
<1>2. job'[h].pc # "mint"
  BY ReturnNotMint DEF RevokeDrop, IInv
<1>3. now' = now /\ job[h].token \in TokenIds /\ tok \in [TokenIds -> Row]
  BY DEF RevokeDrop, At, world, IInv, TypeOK, JobOK, TokOK
<1>4. \A t \in TokenIds : tok'[t].user = tok[t].user /\ tok'[t].expires = tok[t].expires
                            /\ (tok[t].revoked => tok'[t].revoked)
  BY <1>3 DEF RevokeDrop, SetRevokedAt, Row
<1>5. \A u \in Users : ActiveTokens(u)' \subseteq ActiveTokens(u)
  BY <1>3, <1>4 DEF ActiveTokens, Active
<1> QED BY <1>1, <1>2, <1>5, ShrinkKeeps DEF IInv

\* The steps of a handler that write no token, and leave it not about to mint.
LEMMA OtherStepNotMint ==
  ASSUME TypeOK, NEW h \in Handlers, JobStep(h), ~GrantCheck(h), ~GrantMint(h), ~RevokeDrop(h)
  PROVE  job'[h].pc # "mint" /\ UNCHANGED <<tok, now>>
<1>1. UNCHANGED <<tok, now>>
  BY DEF JobStep, RevokeFind, EnsureFind, EnsureFlag, RotateFind, Permit, BulkNext, BulkDone, AllowedNext,
         AllowedDone, LiveNext, LiveDone, world
<1> SUFFICES job'[h].pc # "mint"
  BY <1>1
<1>2. job[h] \in Job /\ TypeOK
  BY DEF TypeOK
<1>3. CASE RevokeFind(h)
  <2>1. CASE Throw(h)
    BY <1>2, <2>1, EndNotMint, ReturnNotMint DEF Throw
  <2>2. CASE \E t : Set(h, [job[h] EXCEPT !.pc = "drop", !.token = t])
    BY <1>2, <2>2, SetNotMint DEF Job
  <2> QED BY <1>3, <2>1, <2>2 DEF RevokeFind
<1>4. CASE EnsureFind(h)
  BY <1>2, <1>4, SetNotMint DEF EnsureFind, Job
<1>5. CASE EnsureFlag(h) \/ BulkDone(h) \/ LiveDone(h)
  BY <1>2, <1>5, EndNotMint DEF EnsureFlag, BulkDone, LiveDone
<1>6. CASE RotateFind(h)
  BY <1>2, <1>6, SetNotMint DEF RotateFind, Job
<1>7. CASE Permit(h)
  BY <1>2, <1>7, SetNotMint, EndNotMint DEF Permit, Job
<1>8. CASE \E u \in Users : BulkNext(h, u)
  BY <1>2, <1>8, SetNotMint DEF BulkNext, At, Job
<1>9. CASE \E u \in Users : AllowedNext(h, u)
  BY <1>2, <1>9, SetNotMint DEF AllowedNext, At, Job
<1>10. CASE AllowedDone(h)
  BY <1>2, <1>10, SetNotMint DEF AllowedDone, Job
<1>11. CASE \E u \in Users : LiveNext(h, u)
  BY <1>2, <1>11, SetNotMint DEF LiveNext, At, Job
<1> QED BY <1>3, <1>4, <1>5, <1>6, <1>7, <1>8, <1>9, <1>10, <1>11 DEF JobStep

LEMMA OtherStepKeeps ==
  ASSUME IInv, Serial, NEW h \in Handlers, JobStep(h), ~GrantCheck(h), ~GrantMint(h), ~RevokeDrop(h)
  PROVE  IInv'
<1>1. TypeOK'
  BY JobStepTypeOK DEF IInv
<1>2. job'[h].pc # "mint" /\ UNCHANGED <<tok, now>>
  BY OtherStepNotMint DEF IInv
<1> QED BY <1>1, <1>2, SameTokens, ShrinkKeeps DEF IInv

LEMMA JobStepKeeps ==
  ASSUME IInv, Serial, NEW h \in Handlers, JobStep(h) PROVE IInv'
BY GrantCheckKeeps, GrantMintKeeps, RevokeDropKeeps, OtherStepKeeps

\* A merge: of two active tokens one is revoked, the other becomes the
\* survivor's.
LEMMA MergeShifts ==
  ASSUME TypeOK, NEW s \in Users, NEW n \in Users, s # n, MergeTokens(s, n), now' = now
  PROVE  /\ \A v \in Users : v # s => ActiveTokens(v)' \subseteq ActiveTokens(v)
         /\ ActiveTokens(s)' \subseteq ActiveTokens(s) \cup ActiveTokens(n)
         /\ FindActiveForUser(s) # NoToken /\ FindActiveForUser(n) # NoToken =>
              \A t : t = FindActiveForUser(n) => t \notin ActiveTokens(s)'
<1> DEFINE st == FindActiveForUser(s)
           nt == FindActiveForUser(n)
           both == st # NoToken /\ nt # NoToken
<1>1. tok \in [TokenIds -> Row] /\ NoUser \notin Users
  BY TokensAssumption DEF TypeOK, TokOK
<1>2. \A t \in TokenIds :
        /\ tok'[t].user = IF tok[t].user = n THEN s ELSE tok[t].user
        /\ (tok[t].revoked \/ (both /\ t = nt)) => tok'[t].revoked
        /\ tok'[t].expires = tok[t].expires
  <2>1. \A t \in TokenIds :
          tok'[t] = [tok[t] EXCEPT !.user = IF @ = n THEN s ELSE @,
                                   !.revoked = @ \/ (both /\ t = nt),
                                   !.used = IF both /\ t = st THEN @ + tok[nt].used ELSE @]
    BY DEF MergeTokens
  <2>2. ASSUME NEW r \in Row, NEW x, NEW y, NEW z
        PROVE  LET q == [r EXCEPT !.user = x, !.revoked = y, !.used = z]
               IN  q.user = x /\ q.revoked = y /\ q.expires = r.expires
    BY DEF Row
  <2> HIDE DEF both, st, nt
  <2>3. ASSUME NEW t \in TokenIds
        PROVE  /\ tok'[t].user = IF tok[t].user = n THEN s ELSE tok[t].user
               /\ tok'[t].revoked = (tok[t].revoked \/ (both /\ t = nt))
               /\ tok'[t].expires = tok[t].expires
    <3> DEFINE x == IF tok[t].user = n THEN s ELSE tok[t].user
               y == tok[t].revoked \/ (both /\ t = nt)
               z == IF both /\ t = st THEN tok[t].used + tok[nt].used ELSE tok[t].used
    <3>1. tok[t] \in Row /\ tok'[t] = [tok[t] EXCEPT !.user = x, !.revoked = y, !.used = z]
      BY <1>1, <2>1
    <3> HIDE DEF x, y, z
    <3>2. tok'[t].user = x /\ tok'[t].revoked = y /\ tok'[t].expires = tok[t].expires
      BY <2>2, <3>1
    <3> QED BY <3>2 DEF x, y
  <2> QED BY <2>3
<1>3. ASSUME NEW v \in Users, v # s PROVE ActiveTokens(v)' \subseteq ActiveTokens(v)
  BY <1>1, <1>2, <1>3 DEF ActiveTokens, Active
<1>4. ActiveTokens(s)' \subseteq ActiveTokens(s) \cup ActiveTokens(n)
  BY <1>1, <1>2 DEF ActiveTokens, Active
<1>5. both => \A t : t = nt => t \notin ActiveTokens(s)'
  BY <1>2, FindActiveFinds DEF ActiveTokens, Active
<1> QED BY <1>3, <1>4, <1>5

\* Each of them had at most one, and of two the merge drops one.
LEMMA MergeActive ==
  ASSUME TypeOK, AtMostOneActive, NEW s \in Users, NEW n \in Users, s # n, MergeTokens(s, n),
         now' = now
  PROVE  AtMostOneActive'
<1> DEFINE nt == FindActiveForUser(n)
           both == FindActiveForUser(s) # NoToken /\ nt # NoToken
<1>1. \A v \in Users : v # s => ActiveTokens(v)' \subseteq ActiveTokens(v)
  BY MergeShifts
<1>2. ActiveTokens(s)' \subseteq ActiveTokens(s) \cup ActiveTokens(n)
  BY MergeShifts
<1>3. both => \A t : t = nt => t \notin ActiveTokens(s)'
  BY MergeShifts
<1>4. ASSUME NEW a \in ActiveTokens(s)', NEW b \in ActiveTokens(s)',
             a \in ActiveTokens(s), b \in ActiveTokens(n)
      PROVE  FALSE
  <2>1. both
    BY <1>4, NoneFound
  <2>2. nt \in ActiveTokens(n)
    BY <2>1, FindActiveFinds
  <2>3. b = nt
    BY <1>4, <2>2 DEF AtMostOneActive
  <2> QED BY <1>3, <1>4, <2>1, <2>3
<1> SUFFICES ASSUME NEW v \in Users, NEW a \in ActiveTokens(v)', NEW b \in ActiveTokens(v)'
             PROVE  a = b
  BY DEF AtMostOneActive
<1>5. CASE v # s
  BY <1>1, <1>5 DEF AtMostOneActive
<1>6. CASE v = s
  <2>1. a \in ActiveTokens(s)' /\ b \in ActiveTokens(s)'
    BY <1>6
  <2>2. ~(a \in ActiveTokens(s) /\ b \in ActiveTokens(n))
    BY <1>4, <2>1
  <2>3. ~(b \in ActiveTokens(s) /\ a \in ActiveTokens(n))
    BY <1>4, <2>1
  <2>4. \/ a \in ActiveTokens(s) /\ b \in ActiveTokens(s)
        \/ a \in ActiveTokens(n) /\ b \in ActiveTokens(n)
    BY <1>2, <2>1, <2>2, <2>3
  <2> QED BY <2>4 DEF AtMostOneActive
<1> QED BY <1>5, <1>6

LEMMA RequestKeeps ==
  ASSUME IInv, Serial, NEW h \in Handlers, Request(h) PROVE IInv'
<1>1. TypeOK'
  BY RequestTypeOK DEF IInv
<1>2. \A j : Set(h, j) => job'[h] = j
  BY DEF Set, IInv, TypeOK
<1>3. job'[h].pc # "mint"
  <2>1. CASE \E u \in Users, ttl \in Ttls : BeginGrant(h, u, ttl)
    BY <1>2, <2>1 DEF BeginGrant, Begin, NoJob
  <2>2. CASE \E u \in Users : BeginRevoke(h, u)
    BY <1>2, <2>2 DEF BeginRevoke, Begin, NoJob
  <2>3. CASE \E u \in Users : BeginIssue(h, u) \/ BeginRotate(h, u)
    BY <1>2, <2>3 DEF BeginIssue, BeginRotate, Begin, NoJob
  <2>4. CASE \E u \in Users, v \in BOOLEAN : BeginPermit(h, u, v)
    BY <1>2, <2>4 DEF BeginPermit, Begin, NoJob
  <2>5. CASE \E op \in {"bulkGrant", "bulkRevoke"}, m \in SUBSET Users, ttl \in Ttls :
               BeginBulk(h, op, m, ttl)
    BY <1>2, <2>5 DEF BeginBulk, Begin, NoJob
  <2>6. CASE \E u \in Users : Deactivate(h, u)
    BY <1>2, <2>6 DEF Deactivate, Begin, NoJob
  <2>7. CASE \E s, n \in Users : Merge(h, s, n)
    BY <1>2, <2>7 DEF Merge, Begin, NoJob
  <2> QED BY <2>1, <2>2, <2>3, <2>4, <2>5, <2>6, <2>7 DEF Request
<1>4. CASE \E s, n \in Users : Merge(h, s, n)
  <2>1. AtMostOneActive'
    BY <1>4, MergeActive DEF Merge, IInv
  <2>2. MintsForTokenless'
    BY <1>3 DEF MintsForTokenless, Serial, At
  <2> QED BY <1>1, <2>1, <2>2 DEF IInv
<1>5. CASE ~ \E s, n \in Users : Merge(h, s, n)
  <2>1. UNCHANGED <<tok, now>>
    BY <1>5 DEF Request, BeginGrant, BeginRevoke, BeginIssue, BeginRotate, BeginPermit, BeginBulk,
                Deactivate, tables
  <2> QED BY <1>1, <1>3, <2>1, SameTokens, ShrinkKeeps DEF IInv
<1> QED BY <1>4, <1>5

LEMMA InitIInv == ASSUME Init PROVE IInv
<1>1. TypeOK
  BY InitTypeOK
<1>2. AtMostOneActive
  <2> SUFFICES ASSUME NEW u \in Users, NEW a \in ActiveTokens(u), NEW b \in ActiveTokens(u)
               PROVE  a = b
    BY DEF AtMostOneActive
  <2>1. /\ a \in TokenIds /\ tok[a].user = u /\ tok[a].user # NoUser
        /\ b \in TokenIds /\ tok[b].user = u /\ tok[b].user # NoUser
    BY DEF ActiveTokens, Active
  <2>2. a \in LegacyTokens /\ b \in LegacyTokens
    BY <2>1 DEF Init, Exists
  <2> QED BY <2>1, <2>2 DEF Init
<1>3. MintsForTokenless
  BY DEF Init, MintsForTokenless, At, NoJob
<1> QED BY <1>1, <1>2, <1>3 DEF IInv

LEMMA NextKeeps ==
  ASSUME IInv, Serial, [Next]_vars PROVE IInv'
<1>1. TypeOK'
  BY NextTypeOK DEF IInv
<1>2. CASE \E h \in Handlers : Boot(h)
  <2>1. PICK h \in Handlers : Boot(h)
    BY <1>2
  <2>2. job'[h].pc # "mint"
    BY <2>1, SetNotMint DEF Boot, IInv, NoJob
  <2> QED BY <1>1, <2>1, <2>2, SameTokens, ShrinkKeeps DEF Boot, IInv
<1>3. CASE \E h \in Handlers : Request(h)
  BY <1>3, RequestKeeps
<1>4. CASE \E h \in Handlers : JobStep(h)
  BY <1>4, JobStepKeeps
<1>5. CASE Crash
  <2>1. MintsForTokenless'
    BY <1>5 DEF Crash, MintsForTokenless, At, NoJob
  <2>2. AtMostOneActive'
    BY <1>5 DEF Crash, IInv, AtMostOneActive, ActiveTokens, Active
  <2> QED BY <1>1, <2>1, <2>2 DEF IInv
<1>6. CASE Tick
  <2>1. now \in Nat /\ now' = now + 1 /\ tok' = tok /\ job' = job
    BY <1>6, TokensAssumption DEF Tick, IInv, TypeOK, Instants
  <2>2. \A t \in TokenIds : tok[t].expires \in Nat
    BY DEF IInv, TypeOK, TokOK, Row
  <2>3. \A u : ActiveTokens(u)' \subseteq ActiveTokens(u)
    BY <2>1, <2>2 DEF ActiveTokens, Active
  <2>4. AtMostOneActive'
    BY <2>3 DEF IInv, AtMostOneActive
  <2>5. MintsForTokenless'
    BY <2>1, <2>3 DEF IInv, MintsForTokenless, At
  <2> QED BY <1>1, <2>4, <2>5 DEF IInv
<1>7. CASE UNCHANGED vars
  BY <1>1, <1>7 DEF vars, IInv, AtMostOneActive, MintsForTokenless, ActiveTokens, Active, At
<1>8. CASE \E h \in Handlers : Fails(h)
  <2>1. PICK h \in Handlers : Fails(h)
    BY <1>8
  <2>2. job'[h].pc # "mint"
    BY <2>1, EndNotMint, ReturnNotMint DEF Fails, Throw, IInv
  <2> QED BY <1>1, <2>1, <2>2, SameTokens, ShrinkKeeps DEF Fails, IInv
<1> QED BY <1>2, <1>3, <1>4, <1>5, <1>6, <1>7, <1>8 DEF Next

\* One handler at a time, a user never has two active tokens: the check that
\* grant makes outside its transaction is enough as long as nothing runs
\* between the two, and neither rotations, merges, expiry, failing statements,
\* crashes nor the startup's grants break it.
THEOREM SerialAtMostOneActive ==
  ASSUME Serial PROVE Spec => []AtMostOneActive
<1>1. Init => IInv
  BY InitIInv
<1>2. IInv /\ [Next]_vars => IInv'
  BY NextKeeps
<1>3. IInv => AtMostOneActive
  BY DEF IInv
<1> QED BY <1>1, <1>2, <1>3, PTL DEF Spec

-----------------------------------------------------------------------------
(* The flag, one handler at a time *)

\* Users who have a token and whom the group view denies it.
Doubtful == {u \in Users : ActiveTokens(u) # {} /\ ~flag[u]}

\* The startup's points are passed while the server starts.
StartupPoint(h) ==
  At(h, "allowed") \/ At(h, "live") \/ job[h].then = "allowed" => up = "starting"

\* A revoke about to drop a token drops the only one the user has.
DropsTheOnly(h) == At(h, "drop") => ActiveTokens(job[h].user) \subseteq {job[h].token}

\* The flag that setPermissions read is the flag it writes over.
PermitIsFresh(h) == At(h, "permit") => job[h].was = flag[job[h].user]

\* The startup's second loop has yet to visit whoever is in doubt.
LiveCovers(h) == At(h, "live") => Doubtful \subseteq job[h].todo

\* While the server listens and nothing has failed, a user is in doubt only
\* while a handler revokes.
DoubtIsRevoked ==
  up = "serving" /\ fails = 0 =>
    \A u \in Doubtful : \E h \in Handlers : job[h].user = u /\ job[h].pc \in {"revoke", "drop"}

FlagInv ==
  /\ IInv
  /\ \A h \in Handlers : /\ StartupPoint(h)
                         /\ DropsTheOnly(h)
                         /\ PermitIsFresh(h)
                         /\ LiveCovers(h)
  /\ DoubtIsRevoked

\* Where a handler is when a grant or a revoke is over.
LEMMA Landing ==
  ASSUME TypeOK, NEW h \in Handlers, Return(h) \/ Throw(h) \/ End(h)
  PROVE  /\ job'[h].then = "idle"
         /\ \/ job'[h] = NoJob
            \/ /\ job'[h].pc = job[h].then
               /\ job[h].then \in {"grant", "ensure", "bulkGrant", "bulkRevoke", "allowed"}
               /\ job'[h].user = job[h].user
               /\ job'[h].old = job[h].old
<1>1. CASE End(h)
  BY <1>1 DEF End, Set, TypeOK, NoJob
<1>2. CASE job[h].then # "idle" /\ Set(h, [job[h] EXCEPT !.pc = job[h].then, !.then = "idle"])
  <2> DEFINE j == [job[h] EXCEPT !.pc = job[h].then, !.then = "idle"]
  <2>1. job[h] \in Job /\ job'[h] = j
    BY <1>2 DEF Set, TypeOK
  <2>2. /\ j.then = "idle" /\ j.pc = job[h].then /\ j.user = job[h].user /\ j.old = job[h].old
        /\ job[h].then \in {"grant", "ensure", "bulkGrant", "bulkRevoke", "allowed"}
    BY <1>2, <2>1 DEF Job
  <2> HIDE DEF j
  <2> QED BY <2>1, <2>2
<1> QED BY <1>1, <1>2 DEF Return, Throw

LEMMA Thrown ==
  ASSUME TypeOK, NEW h \in Handlers, Throw(h)
  PROVE  job'[h].then = "idle" /\ job'[h].pc \in {"idle", "bulkGrant", "bulkRevoke"}
<1>1. CASE job[h].then \in {"bulkGrant", "bulkRevoke"}
  <2>1. Return(h) /\ job[h].then # "idle" /\ job[h] \in Job
    BY <1>1 DEF Throw, TypeOK
  <2>2. job'[h] = [job[h] EXCEPT !.pc = job[h].then, !.then = "idle"]
    BY <2>1 DEF Return, Set, TypeOK
  <2> QED BY <1>1, <2>1, <2>2 DEF Job
<1>2. CASE job[h].then \notin {"bulkGrant", "bulkRevoke"}
  BY <1>2 DEF Throw, End, Set, TypeOK, NoJob
<1> QED BY <1>1, <1>2

\* With one handler, what holds of it holds of all.
LEMMA FlagAtOne ==
  ASSUME Serial, NEW h \in Handlers, IInv', StartupPoint(h)', DropsTheOnly(h)', PermitIsFresh(h)',
         LiveCovers(h)',
         up' = "serving" /\ fails' = 0 =>
           Doubtful' \subseteq {u \in Users : job'[h].user = u /\ job'[h].pc \in {"revoke", "drop"}}
  PROVE  FlagInv'
<1>1. \A g \in Handlers : g = h
  BY DEF Serial
<1>2. \A g \in Handlers : /\ StartupPoint(g)'
                          /\ DropsTheOnly(g)'
                          /\ PermitIsFresh(g)'
                          /\ LiveCovers(g)'
  BY <1>1
<1>3. DoubtIsRevoked'
  BY DEF DoubtIsRevoked
<1> QED BY <1>2, <1>3 DEF FlagInv

\* A handler that is not revoking leaves nobody in doubt.
LEMMA NobodyInDoubt ==
  ASSUME FlagInv, Serial, NEW h \in Handlers, job[h].pc \notin {"revoke", "drop"},
         up = "serving", fails = 0
  PROVE  Doubtful = {}
<1>1. \A g \in Handlers : g = h
  BY DEF Serial
<1>2. \A u \in Doubtful : \E g \in Handlers : job[g].pc \in {"revoke", "drop"}
  BY DEF FlagInv, DoubtIsRevoked
<1> QED BY <1>1, <1>2

\* A step that leaves nobody in doubt while the server listens.
LEMMA QuietStep ==
  ASSUME Serial, NEW h \in Handlers, IInv', job'[h].pc \notin {"drop", "permit", "live"},
         job'[h].pc = "allowed" \/ job'[h].then = "allowed" => up' = "starting",
         up' = "serving" /\ fails' = 0 => Doubtful' = {}
  PROVE  FlagInv'
<1>1. StartupPoint(h)' /\ DropsTheOnly(h)' /\ PermitIsFresh(h)' /\ LiveCovers(h)'
  BY DEF StartupPoint, DropsTheOnly, PermitIsFresh, LiveCovers, At
<1> QED BY <1>1, FlagAtOne

\* What the startup's points say of a handler that returns.
LEMMA LandsWell ==
  ASSUME FlagInv, NEW h \in Handlers, Return(h) \/ Throw(h) \/ End(h), up' = up
  PROVE  /\ job'[h].pc \notin {"drop", "permit", "live", "mint"}
         /\ job'[h].pc = "allowed" \/ job'[h].then = "allowed" => up' = "starting"
<1>1. TypeOK /\ (job[h].then = "allowed" => up = "starting")
  BY DEF FlagInv, IInv, StartupPoint
<1> QED BY <1>1, Landing DEF NoJob

LEMMA SameDoubt ==
  ASSUME UNCHANGED <<tok, now, flag>>
  PROVE  Doubtful' = Doubtful /\ \A u : ActiveTokens(u)' = ActiveTokens(u)
BY DEF Doubtful, ActiveTokens, Active

LEMMA GrantCheckFlag ==
  ASSUME FlagInv, Serial, IInv', NEW h \in Handlers, GrantCheck(h) PROVE FlagInv'
<1>1. up' = up /\ fails' = fails /\ Doubtful' = Doubtful
  BY SameDoubt DEF GrantCheck, world
<1>2. up = "serving" /\ fails = 0 => Doubtful = {}
  BY NobodyInDoubt DEF GrantCheck, At
<1>3. CASE Throw(h)
  BY <1>1, <1>2, <1>3, LandsWell, QuietStep
<1>4. CASE Set(h, [job[h] EXCEPT !.pc = "mint"])
  <2>1. job'[h].pc = "mint" /\ job'[h].then = job[h].then
    BY <1>4 DEF Set, FlagInv, IInv, TypeOK, Job
  <2>2. job[h].then = "allowed" => up = "starting"
    BY DEF FlagInv, StartupPoint
  <2> QED BY <1>1, <1>2, <2>1, <2>2, QuietStep
<1> QED BY <1>3, <1>4 DEF GrantCheck

\* Raising a user's flag, and giving the user a token, brings nobody in doubt.
LEMMA RaisedFlag ==
  ASSUME TypeOK, NEW u \in Users, flag' = [flag EXCEPT ![u] = TRUE],
         \A v \in Users : v # u => ActiveTokens(v)' \subseteq ActiveTokens(v)
  PROVE  Doubtful' \subseteq Doubtful \ {u}
BY DEF Doubtful, TypeOK

LEMMA GrantMintActive ==
  ASSUME TypeOK, NEW h \in Handlers, GrantMint(h)
  PROVE  \A v \in Users : v # job[h].user => ActiveTokens(v)' \subseteq ActiveTokens(v)
<1> DEFINE row == NewRow(job[h].user, job[h].ttl)
<1>1. tok' = [tok EXCEPT ![NextId] = row] /\ now' = now /\ NextId \in TokenIds
  BY NextIdIsFree DEF GrantMint, Create, world
<1>2. row.user = job[h].user
  BY DEF NewRow
<1>3. tok \in [TokenIds -> Row]
  BY DEF TypeOK, TokOK
<1> HIDE DEF row
<1> QED BY <1>1, <1>2, <1>3 DEF ActiveTokens, Active

LEMMA GrantMintFlag ==
  ASSUME FlagInv, Serial, IInv', NEW h \in Handlers, GrantMint(h) PROVE FlagInv'
<1>1. TypeOK /\ job[h].user \in Users /\ up' = up /\ fails' = fails
  BY DEF FlagInv, IInv, TypeOK, JobOK, GrantMint, At, Acting, world
<1>2. Doubtful' \subseteq Doubtful
  BY <1>1, GrantMintActive, RaisedFlag DEF GrantMint
<1>3. up = "serving" /\ fails = 0 => Doubtful = {}
  BY NobodyInDoubt DEF GrantMint, At
<1> QED BY <1>1, <1>2, <1>3, LandsWell, QuietStep DEF GrantMint

LEMMA RevokeFindFlag ==
  ASSUME FlagInv, Serial, IInv', NEW h \in Handlers, RevokeFind(h) PROVE FlagInv'
<1> DEFINE t == FindActiveForUser(job[h].user)
<1>1. TypeOK /\ job[h] \in Job /\ job[h].user \in Users /\ up' = up /\ fails' = fails
  BY DEF FlagInv, IInv, TypeOK, JobOK, RevokeFind, At, Acting, world
<1>2. Doubtful' = Doubtful /\ \A u : ActiveTokens(u)' = ActiveTokens(u)
  BY SameDoubt DEF RevokeFind, world
<1>3. up = "serving" /\ fails = 0 => Doubtful \subseteq {job[h].user}
  BY DEF FlagInv, DoubtIsRevoked, Serial
<1>4. CASE t = NoToken /\ Throw(h)
  <2>1. job[h].user \notin Doubtful
    BY <1>4, NoneFound DEF Doubtful
  <2>2. up = "serving" /\ fails = 0 => Doubtful = {}
    BY <1>3, <2>1
  <2> QED BY <1>1, <1>2, <1>4, <2>2, LandsWell, QuietStep
<1>5. CASE t # NoToken /\ Set(h, [job[h] EXCEPT !.pc = "drop", !.token = t])
  <2>1. t \in ActiveTokens(job[h].user)
    BY <1>5, FindActiveFinds
  <2>2. ActiveTokens(job[h].user) \subseteq {t}
    BY <1>1, <2>1 DEF FlagInv, IInv, AtMostOneActive
  <2> HIDE DEF t
  <2>3. job'[h].pc = "drop" /\ job'[h].token = t /\ job'[h].user = job[h].user /\ job'[h].then = job[h].then
    BY <1>1, <1>5 DEF Set, TypeOK, Job
  <2>4. job[h].then = "allowed" => up = "starting"
    BY DEF FlagInv, StartupPoint
  <2>5. StartupPoint(h)' /\ DropsTheOnly(h)' /\ PermitIsFresh(h)' /\ LiveCovers(h)'
    BY <1>1, <1>2, <2>2, <2>3, <2>4 DEF StartupPoint, DropsTheOnly, PermitIsFresh, LiveCovers, At
  <2>6. Doubtful' \subseteq Users
    BY DEF Doubtful
  <2> QED BY <1>1, <1>2, <1>3, <2>3, <2>5, <2>6, FlagAtOne
<1> QED BY <1>4, <1>5 DEF RevokeFind

LEMMA DropRevivesNone ==
  ASSUME TypeOK, NEW h \in Handlers, RevokeDrop(h), NEW t \in TokenIds
  PROVE  /\ tok'[t].user = tok[t].user
         /\ Active(tok'[t], now') => Active(tok[t], now)
<1>1. now' = now /\ job[h].token \in TokenIds /\ tok \in [TokenIds -> Row]
  BY DEF RevokeDrop, At, world, TypeOK, JobOK, TokOK
<1>2. tok'[t].user = tok[t].user /\ tok'[t].expires = tok[t].expires /\ (tok[t].revoked => tok'[t].revoked)
  BY <1>1 DEF RevokeDrop, SetRevokedAt, Row
<1> QED BY <1>1, <1>2 DEF Active

LEMMA DropShrinks ==
  ASSUME TypeOK, NEW h \in Handlers, RevokeDrop(h)
  PROVE  \A v : ActiveTokens(v)' \subseteq ActiveTokens(v)
BY DropRevivesNone DEF ActiveTokens

\* The drop leaves its user without a token.
LEMMA DropEmpties ==
  ASSUME TypeOK, NEW h \in Handlers, DropsTheOnly(h), RevokeDrop(h)
  PROVE  \A v : v = job[h].user => ActiveTokens(v)' = {}
<1>1. job[h].token \in TokenIds /\ tok \in [TokenIds -> Row]
  BY DEF RevokeDrop, At, TypeOK, JobOK, TokOK
<1>2. \A v, t : t = job[h].token => t \notin ActiveTokens(v)'
  BY <1>1 DEF RevokeDrop, SetRevokedAt, Row, ActiveTokens, Active
<1>3. ActiveTokens(job[h].user) \subseteq {job[h].token}
  BY DEF DropsTheOnly, RevokeDrop
<1> QED BY <1>2, <1>3, DropShrinks

LEMMA RevokeDropFlag ==
  ASSUME FlagInv, Serial, IInv', NEW h \in Handlers, RevokeDrop(h) PROVE FlagInv'
<1>1. TypeOK /\ job[h].user \in Users /\ up' = up /\ fails' = fails /\ DropsTheOnly(h)
  BY DEF FlagInv, IInv, TypeOK, JobOK, RevokeDrop, At, Acting, world
<1>2. up = "serving" /\ fails = 0 => Doubtful \subseteq {job[h].user}
  BY DEF FlagInv, DoubtIsRevoked, Serial
<1>3. Doubtful' \subseteq Doubtful \ {job[h].user}
  <2>1. \A v \in Users : v # job[h].user => flag'[v] = flag[v]
    BY <1>1 DEF RevokeDrop, TypeOK
  <2>2. /\ \A v : v = job[h].user => ActiveTokens(v)' = {}
        /\ \A v : ActiveTokens(v)' \subseteq ActiveTokens(v)
    BY <1>1, DropEmpties, DropShrinks
  <2> QED BY <2>1, <2>2 DEF Doubtful
<1> QED BY <1>1, <1>2, <1>3, LandsWell, QuietStep DEF RevokeDrop

\* Going on without touching token or flag.
LEMMA SetsQuietly ==
  ASSUME FlagInv, Serial, IInv', NEW h \in Handlers, UNCHANGED <<tok, flag, world>>,
         job[h].pc \notin {"revoke", "drop"}, job'[h].pc \notin {"drop", "permit", "live"},
         job'[h].pc = "allowed" \/ job'[h].then = "allowed" =>
           job[h].pc = "allowed" \/ job[h].then = "allowed"
  PROVE  FlagInv'
<1>1. up' = up /\ fails' = fails /\ Doubtful' = Doubtful
  BY SameDoubt DEF world
<1>2. up = "serving" /\ fails = 0 => Doubtful = {}
  BY NobodyInDoubt
<1>3. job[h].pc = "allowed" \/ job[h].then = "allowed" => up = "starting"
  BY DEF FlagInv, StartupPoint, At
<1> QED BY <1>1, <1>2, <1>3, QuietStep

LEMMA EnsureFindFlag ==
  ASSUME FlagInv, Serial, IInv', NEW h \in Handlers, EnsureFind(h) PROVE FlagInv'
<1>1. job[h] \in Job /\ \A j : Set(h, j) => job'[h] = j
  BY DEF FlagInv, IInv, TypeOK, Set
<1>2. \/ \E t : Set(h, [job[h] EXCEPT !.pc = "setFlag", !.token = t])
      \/ Set(h, [job[h] EXCEPT !.pc = "revoke", !.then = "grant"])
      \/ Set(h, [job[h] EXCEPT !.pc = "grant"])
  BY DEF EnsureFind
<1>3. /\ job'[h].pc \in {"setFlag", "revoke", "grant"}
      /\ job'[h].then \in {job[h].then, "grant"}
  BY <1>1, <1>2 DEF Job
<1> QED BY <1>3, SetsQuietly DEF EnsureFind, At

LEMMA RotateFindFlag ==
  ASSUME FlagInv, Serial, IInv', NEW h \in Handlers, RotateFind(h) PROVE FlagInv'
<1>1. job[h] \in Job /\ \A j : Set(h, j) => job'[h] = j
  BY DEF FlagInv, IInv, TypeOK, Set
<1>2. /\ job'[h].pc \in {"revoke", "ensure"}
      /\ job'[h].then \in {job[h].then, "ensure"}
  BY <1>1 DEF RotateFind, Job
<1> QED BY <1>2, SetsQuietly DEF RotateFind, At

LEMMA BulkNextFlag ==
  ASSUME FlagInv, Serial, IInv', NEW h \in Handlers, NEW u \in Users, BulkNext(h, u) PROVE FlagInv'
<1>1. job[h] \in Job /\ \A j : Set(h, j) => job'[h] = j
  BY DEF FlagInv, IInv, TypeOK, Set
<1>2. job[h].pc \in {"bulkGrant", "bulkRevoke"}
  BY DEF BulkNext, At
<1>3. /\ job'[h].pc \in {"grant", "revoke", "bulkGrant", "bulkRevoke"}
      /\ job'[h].then \in {job[h].then, "bulkGrant", "bulkRevoke"}
  BY <1>1, <1>2 DEF BulkNext, Job
<1> QED BY <1>2, <1>3, SetsQuietly DEF BulkNext

LEMMA BulkDoneFlag ==
  ASSUME FlagInv, Serial, IInv', NEW h \in Handlers, BulkDone(h) PROVE FlagInv'
<1>1. job'[h] = NoJob
  BY DEF FlagInv, IInv, TypeOK, BulkDone, End, Set
<1> QED BY <1>1, SetsQuietly DEF BulkDone, At, NoJob

LEMMA AllowedNextFlag ==
  ASSUME FlagInv, Serial, IInv', NEW h \in Handlers, NEW u \in Users, AllowedNext(h, u) PROVE FlagInv'
<1>1. job[h] \in Job /\ \A j : Set(h, j) => job'[h] = j
  BY DEF FlagInv, IInv, TypeOK, Set
<1>2. job[h].pc = "allowed"
  BY DEF AllowedNext, At
<1>3. job'[h].pc \in {"grant", "allowed"}
  BY <1>1, <1>2 DEF AllowedNext, Job
<1> QED BY <1>2, <1>3, SetsQuietly DEF AllowedNext

LEMMA AllowedDoneFlag ==
  ASSUME FlagInv, Serial, IInv', NEW h \in Handlers, AllowedDone(h) PROVE FlagInv'
<1> DEFINE holders == {u \in Users : ActiveTokens(u) # {}}
<1>1. up' = up /\ fails' = fails /\ Doubtful' = Doubtful
  BY SameDoubt DEF AllowedDone, world
<1>2. up = "starting"
  BY DEF FlagInv, StartupPoint, AllowedDone
<1>3. job'[h].pc = "live" /\ job'[h].todo = holders
  <2>1. job'[h] = [job[h] EXCEPT !.pc = "live", !.todo = holders]
    BY DEF AllowedDone, Set, FlagInv, IInv, TypeOK
  <2>2. job[h] \in Job
    BY DEF FlagInv, IInv, TypeOK
  <2> HIDE DEF holders
  <2> QED BY <2>1, <2>2 DEF Job
<1>4. Doubtful \subseteq holders
  BY DEF Doubtful
<1> HIDE DEF holders
<1>5. StartupPoint(h)' /\ DropsTheOnly(h)' /\ PermitIsFresh(h)' /\ LiveCovers(h)'
  BY <1>1, <1>2, <1>3, <1>4 DEF StartupPoint, DropsTheOnly, PermitIsFresh, LiveCovers, At
<1> QED BY <1>1, <1>2, <1>5, FlagAtOne

LEMMA LiveNextFlag ==
  ASSUME FlagInv, Serial, IInv', NEW h \in Handlers, NEW u \in Users, LiveNext(h, u) PROVE FlagInv'
<1>1. TypeOK /\ job[h] \in Job /\ up' = up
  BY DEF FlagInv, IInv, TypeOK, LiveNext, world
<1>2. up = "starting" /\ Doubtful \subseteq job[h].todo
  BY DEF FlagInv, StartupPoint, LiveCovers, LiveNext
<1>3. job'[h].pc = "live" /\ job'[h].todo = job[h].todo \ {u}
  BY <1>1 DEF LiveNext, At, Set, TypeOK, Job
<1>4. Doubtful' \subseteq Doubtful \ {u}
  BY <1>1, RaisedFlag DEF LiveNext, world, ActiveTokens, Active
<1>5. StartupPoint(h)' /\ DropsTheOnly(h)' /\ PermitIsFresh(h)' /\ LiveCovers(h)'
  BY <1>1, <1>2, <1>3, <1>4 DEF StartupPoint, DropsTheOnly, PermitIsFresh, LiveCovers, At
<1> QED BY <1>1, <1>2, <1>5, FlagAtOne

LEMMA LiveDoneFlag ==
  ASSUME FlagInv, Serial, IInv', NEW h \in Handlers, LiveDone(h) PROVE FlagInv'
<1>1. job'[h] = NoJob
  BY DEF FlagInv, IInv, TypeOK, LiveDone, End, Set
<1>2. Doubtful' = {}
  <2>1. Doubtful \subseteq job[h].todo /\ job[h].todo = {}
    BY DEF FlagInv, LiveCovers, LiveDone
  <2>2. Doubtful' = Doubtful
    BY SameDoubt DEF LiveDone
  <2> QED BY <2>1, <2>2
<1> QED BY <1>1, <1>2, QuietStep DEF NoJob

LEMMA EnsureFlagFlag ==
  ASSUME FlagInv, Serial, IInv', NEW h \in Handlers, EnsureFlag(h) PROVE FlagInv'
<1>1. TypeOK /\ job[h].user \in Users /\ up' = up /\ fails' = fails
  BY DEF FlagInv, IInv, TypeOK, JobOK, EnsureFlag, At, Acting, world
<1>2. Doubtful' \subseteq Doubtful
  BY <1>1, RaisedFlag DEF EnsureFlag, world, ActiveTokens, Active
<1>3. up = "serving" /\ fails = 0 => Doubtful = {}
  BY NobodyInDoubt DEF EnsureFlag, At
<1> QED BY <1>1, <1>2, <1>3, LandsWell, QuietStep DEF EnsureFlag

\* setPermissions writes the flag first: who loses it is in doubt until the
\* revoke that it starts has dropped the token.
LEMMA PermitFlag ==
  ASSUME FlagInv, Serial, IInv', NEW h \in Handlers, Permit(h) PROVE FlagInv'
<1> PICK u : u = job[h].user
  OBVIOUS
<1>1. TypeOK /\ job[h] \in Job /\ u \in Users /\ up' = up /\ fails' = fails
  BY DEF FlagInv, IInv, TypeOK, JobOK, Permit, At, Acting, world
<1>2. \A j : Set(h, j) => job'[h] = j
  BY <1>1 DEF Set, TypeOK
<1>3. up = "serving" /\ fails = 0 => Doubtful = {}
  BY NobodyInDoubt DEF Permit, At
<1>4. job[h].was = flag[u] /\ (job[h].then = "allowed" => up = "starting")
  BY DEF FlagInv, PermitIsFresh, StartupPoint, Permit
<1>5. flag' = [flag EXCEPT ![u] = job[h].to] /\ \A v : ActiveTokens(v)' = ActiveTokens(v)
  BY DEF Permit, world, ActiveTokens, Active
<1>6. CASE job[h].was /\ ~job[h].to
  <2>1. job'[h].pc = "revoke" /\ job'[h].user = u /\ job'[h].then = job[h].then
    BY <1>1, <1>2, <1>6 DEF Permit, Job
  <2>2. Doubtful' \subseteq Doubtful \cup {u}
    BY <1>1, <1>5 DEF Doubtful, TypeOK
  <2>3. StartupPoint(h)' /\ DropsTheOnly(h)' /\ PermitIsFresh(h)' /\ LiveCovers(h)'
    BY <1>1, <1>4, <2>1 DEF StartupPoint, DropsTheOnly, PermitIsFresh, LiveCovers, At
  <2> QED BY <1>1, <1>3, <2>1, <2>2, <2>3, FlagAtOne
<1>7. CASE ~(job[h].was /\ ~job[h].to)
  <2>1. Doubtful' \subseteq Doubtful
    <3>1. job[h].was \in BOOLEAN /\ job[h].to \in BOOLEAN
      BY <1>1 DEF Job
    <3>2. \A v \in Users : flag[v] => flag'[v]
      BY <1>1, <1>4, <1>5, <1>7, <3>1 DEF TypeOK
    <3> QED BY <1>5, <3>2 DEF Doubtful
  <2>2. CASE Set(h, [job[h] EXCEPT !.pc = "grant"])
    <3>1. job'[h].pc = "grant" /\ job'[h].then = job[h].then
      BY <1>1, <1>2, <2>2 DEF Job
    <3> QED BY <1>1, <1>3, <1>4, <2>1, <3>1, QuietStep
  <2>3. CASE End(h)
    BY <1>1, <1>3, <2>1, <2>3, LandsWell, QuietStep
  <2> QED BY <1>7, <2>2, <2>3 DEF Permit
<1> QED BY <1>6, <1>7

LEMMA JobStepFlag ==
  ASSUME FlagInv, Serial, NEW h \in Handlers, JobStep(h) PROVE FlagInv'
<1>1. IInv'
  BY JobStepKeeps DEF FlagInv
<1> QED BY <1>1, GrantCheckFlag, GrantMintFlag, RevokeFindFlag, RevokeDropFlag, EnsureFindFlag,
           EnsureFlagFlag, RotateFindFlag, PermitFlag, BulkNextFlag, BulkDoneFlag, AllowedNextFlag,
           AllowedDoneFlag, LiveNextFlag, LiveDoneFlag DEF JobStep

\* How a request leaves its handler.
LEMMA Begun ==
  ASSUME TypeOK, NEW h \in Handlers, Request(h)
  PROVE  /\ job[h].pc = "idle" /\ up = "serving" /\ up' = up /\ fails' = fails /\ now' = now
         /\ job'[h].then = "idle"
         /\ job'[h].pc \in {"idle", "grant", "revoke", "ensure", "rotate", "permit", "bulkGrant",
                            "bulkRevoke"}
         /\ job'[h].pc = "idle" => job'[h] = NoJob
         /\ job'[h].pc = "permit" => /\ job'[h].user \in Users
                                     /\ job'[h].was = flag[job'[h].user]
                                     /\ flag' = flag
         /\ job'[h].pc # "rotate" => job'[h].old = {}
         /\ job'[h].pc = "rotate" => job'[h].old = ActiveTokens(job'[h].user)
         /\ \/ UNCHANGED <<tok, flag>>
            \/ \E s, n \in Users : Merge(h, s, n)
<1>1. \A j : Set(h, j) => job'[h] = j
  BY DEF Set, TypeOK
<1>2. CASE \E u \in Users, ttl \in Ttls : BeginGrant(h, u, ttl)
  <2>1. job'[h].pc = "grant" /\ job'[h].then = "idle" /\ job'[h].old = {}
    BY <1>1, <1>2 DEF BeginGrant, Begin, NoJob
  <2> QED BY <1>2, <2>1 DEF BeginGrant, Begin, At, tables
<1>3. CASE \E u \in Users : BeginRevoke(h, u)
  <2>1. job'[h].pc = "revoke" /\ job'[h].then = "idle" /\ job'[h].old = {}
    BY <1>1, <1>3 DEF BeginRevoke, Begin, NoJob
  <2> QED BY <1>3, <2>1 DEF BeginRevoke, Begin, At, tables
<1>4. CASE \E u \in Users : BeginIssue(h, u)
  <2>1. job'[h].pc = "ensure" /\ job'[h].then = "idle" /\ job'[h].old = {}
    BY <1>1, <1>4 DEF BeginIssue, Begin, NoJob
  <2> QED BY <1>4, <2>1 DEF BeginIssue, Begin, At, tables
<1>5. CASE \E u \in Users : BeginRotate(h, u)
  <2>1. PICK u \in Users : BeginRotate(h, u)
    BY <1>5
  <2>2. /\ job'[h].pc = "rotate" /\ job'[h].then = "idle" /\ job'[h].user = u
        /\ job'[h].old = ActiveTokens(u)
    BY <1>1, <2>1 DEF BeginRotate, Begin, NoJob
  <2> QED BY <2>1, <2>2 DEF BeginRotate, Begin, At, tables
<1>6. CASE \E u \in Users, v \in BOOLEAN : BeginPermit(h, u, v)
  <2>1. PICK u \in Users, v \in BOOLEAN : BeginPermit(h, u, v)
    BY <1>6
  <2>2. /\ job'[h].pc = "permit" /\ job'[h].then = "idle" /\ job'[h].user = u
        /\ job'[h].old = {} /\ job'[h].was = flag[u]
    BY <1>1, <2>1 DEF BeginPermit, Begin, NoJob
  <2> QED BY <2>1, <2>2 DEF BeginPermit, Begin, At, tables
<1>7. CASE \E op \in {"bulkGrant", "bulkRevoke"}, m \in SUBSET Users, ttl \in Ttls :
             BeginBulk(h, op, m, ttl)
  <2>1. PICK op \in {"bulkGrant", "bulkRevoke"}, m \in SUBSET Users, ttl \in Ttls :
               BeginBulk(h, op, m, ttl)
    BY <1>7
  <2>2. job'[h] = [NoJob EXCEPT !.pc = op, !.ttl = ttl, !.todo = m]
    BY <1>1, <2>1 DEF BeginBulk, Begin
  <2>3. job'[h].pc = op /\ job'[h].then = "idle" /\ job'[h].old = {}
    BY <2>2 DEF NoJob
  <2> QED BY <2>1, <2>3 DEF BeginBulk, Begin, At, tables
<1>8. CASE \E u \in Users : Deactivate(h, u)
  BY <1>1, <1>8 DEF Deactivate, Begin, NoJob, At
<1>9. CASE \E s, n \in Users : Merge(h, s, n)
  <2>1. /\ job[h].pc = "idle" /\ up = "serving" /\ up' = up /\ fails' = fails /\ now' = now
        /\ job'[h] = NoJob
    BY <1>1, <1>9 DEF Merge, Begin, At
  <2> QED BY <1>9, <2>1 DEF NoJob
<1> QED BY <1>2, <1>3, <1>4, <1>5, <1>6, <1>7, <1>8, <1>9 DEF Request

\* A merge gives the survivor the flag with the tokens.
LEMMA MergeDoubt ==
  ASSUME TypeOK, NEW h \in Handlers, NEW s \in Users, NEW n \in Users, Merge(h, s, n), Doubtful = {}
  PROVE  Doubtful' = {}
<1>1. /\ \A v \in Users : v # s => ActiveTokens(v)' \subseteq ActiveTokens(v)
      /\ ActiveTokens(s)' \subseteq ActiveTokens(s) \cup ActiveTokens(n)
  BY MergeShifts DEF Merge
<1>2. /\ \A v \in Users : v # s => flag'[v] = flag[v]
      /\ flag'[s] = (flag[s] \/ flag[n])
  BY DEF Merge, TypeOK
<1>3. \A v \in Users : ActiveTokens(v) = {} \/ flag[v]
  BY DEF Doubtful
<1>4. ASSUME NEW v \in Users PROVE ActiveTokens(v)' = {} \/ flag'[v]
  <2>1. CASE v = s
    BY <1>1, <1>2, <1>3, <2>1
  <2>2. CASE v # s
    BY <1>1, <1>2, <1>3, <2>2
  <2> QED BY <2>1, <2>2
<1> QED BY <1>4 DEF Doubtful

LEMMA RequestFlag ==
  ASSUME FlagInv, Serial, NEW h \in Handlers, Request(h) PROVE FlagInv'
<1>1. TypeOK /\ IInv'
  BY RequestKeeps DEF FlagInv, IInv
<1>2. /\ job[h].pc = "idle" /\ up = "serving" /\ up' = up /\ fails' = fails /\ now' = now
      /\ job'[h].then = "idle"
      /\ job'[h].pc \in {"idle", "grant", "revoke", "ensure", "rotate", "permit", "bulkGrant",
                         "bulkRevoke"}
      /\ job'[h].pc = "permit" => /\ job'[h].was = flag[job'[h].user]
                                  /\ flag' = flag
      /\ UNCHANGED <<tok, flag>> \/ \E s, n \in Users : Merge(h, s, n)
  BY <1>1, Begun
<1>3. fails = 0 => Doubtful' = {}
  <2>1. fails = 0 => Doubtful = {}
    BY <1>2, NobodyInDoubt
  <2> QED BY <1>1, <1>2, <2>1, SameDoubt, MergeDoubt
<1>4. StartupPoint(h)' /\ DropsTheOnly(h)' /\ LiveCovers(h)'
  BY <1>2 DEF StartupPoint, DropsTheOnly, LiveCovers, At
<1>5. PermitIsFresh(h)'
  BY <1>2 DEF PermitIsFresh, At
<1> QED BY <1>1, <1>2, <1>3, <1>4, <1>5, FlagAtOne

LEMMA TickActive ==
  ASSUME TypeOK, Tick
  PROVE  \A u : ActiveTokens(u)' \subseteq ActiveTokens(u)
<1>1. now \in Nat /\ now' = now + 1 /\ tok' = tok
  BY TokensAssumption DEF Tick, TypeOK, Instants
<1>2. \A t \in TokenIds : tok[t].expires \in Nat
  BY DEF TypeOK, TokOK, Row
<1> QED BY <1>1, <1>2 DEF ActiveTokens, Active

LEMMA TickFlag ==
  ASSUME FlagInv, Serial, Tick PROVE FlagInv'
<1>1. TypeOK /\ IInv'
  BY NextKeeps DEF FlagInv, IInv, Next
<1>2. UNCHANGED <<tok, flag, active, decided, up, job, ops, crashes, fails>>
  BY DEF Tick
<1>3. \A u : ActiveTokens(u)' \subseteq ActiveTokens(u)
  BY <1>1, TickActive
<1>4. Doubtful' \subseteq Doubtful
  BY <1>2, <1>3 DEF Doubtful
<1>5. ASSUME NEW h \in Handlers
      PROVE  StartupPoint(h)' /\ DropsTheOnly(h)' /\ PermitIsFresh(h)' /\ LiveCovers(h)'
  <2>1. StartupPoint(h) /\ DropsTheOnly(h) /\ PermitIsFresh(h) /\ LiveCovers(h)
    BY DEF FlagInv
  <2> QED BY <1>2, <1>3, <1>4, <2>1 DEF StartupPoint, DropsTheOnly, PermitIsFresh, LiveCovers, At
<1>6. DoubtIsRevoked'
  BY <1>2, <1>4 DEF FlagInv, DoubtIsRevoked
<1> QED BY <1>1, <1>5, <1>6 DEF FlagInv

LEMMA NextFlag ==
  ASSUME FlagInv, Serial, [Next]_vars PROVE FlagInv'
<1>1. IInv' /\ TypeOK
  BY NextKeeps DEF FlagInv, IInv
<1>2. CASE \E h \in Handlers : Boot(h)
  <2>1. PICK h \in Handlers : Boot(h)
    BY <1>2
  <2>2. job'[h].pc = "allowed" /\ up' = "starting"
    BY <1>1, <2>1 DEF Boot, Set, TypeOK, NoJob
  <2> QED BY <1>1, <2>2, QuietStep
<1>3. CASE \E h \in Handlers : Request(h)
  BY <1>3, RequestFlag
<1>4. CASE \E h \in Handlers : JobStep(h)
  BY <1>4, JobStepFlag
<1>5. CASE \E h \in Handlers : Fails(h)
  <2>1. PICK h \in Handlers : Fails(h)
    BY <1>5
  <2>2. job'[h].then = "idle" /\ job'[h].pc \in {"idle", "bulkGrant", "bulkRevoke"}
    BY <1>1, <2>1, Thrown DEF Fails
  <2>3. fails' # 0
    BY <1>1, <2>1 DEF Fails, TypeOK
  <2> QED BY <1>1, <2>2, <2>3, QuietStep
<1>6. CASE Crash
  <2>1. up' = "down" /\ \A h \in Handlers : job'[h] = NoJob
    BY <1>6 DEF Crash
  <2>2. \A h \in Handlers : StartupPoint(h)' /\ DropsTheOnly(h)' /\ PermitIsFresh(h)' /\ LiveCovers(h)'
    BY <2>1 DEF StartupPoint, DropsTheOnly, PermitIsFresh, LiveCovers, At, NoJob
  <2>3. DoubtIsRevoked'
    BY <2>1 DEF DoubtIsRevoked
  <2> QED BY <1>1, <2>2, <2>3 DEF FlagInv
<1>7. CASE Tick
  BY <1>7, TickFlag
<1>8. CASE UNCHANGED vars
  BY <1>1, <1>8 DEF vars, FlagInv, StartupPoint, DropsTheOnly, PermitIsFresh, LiveCovers,
     DoubtIsRevoked, Doubtful, ActiveTokens, Active, At
<1> QED BY <1>2, <1>3, <1>4, <1>5, <1>6, <1>7, <1>8 DEF Next

LEMMA InitFlag == ASSUME Init PROVE FlagInv
<1>1. IInv
  BY InitIInv
<1>2. up = "down" /\ \A h \in Handlers : job[h] = NoJob
  BY DEF Init
<1>3. \A h \in Handlers : StartupPoint(h) /\ DropsTheOnly(h) /\ PermitIsFresh(h) /\ LiveCovers(h)
  BY <1>2 DEF StartupPoint, DropsTheOnly, PermitIsFresh, LiveCovers, At, NoJob
<1>4. DoubtIsRevoked
  BY <1>2 DEF DoubtIsRevoked
<1> QED BY <1>1, <1>3, <1>4 DEF FlagInv

\* One handler at a time, and as long as no statement has failed, the flag is
\* in lockstep with the tokens whenever the server listens and nothing is under
\* way: whatever the flags said before the first start, and after every merge,
\* expiry, crash and restart.  (A startup whose statement fails listens without
\* having reconciled: then it need not be.)
THEOREM FlagFollows ==
  ASSUME Serial PROVE Spec => [](fails = 0 => FlagFollowsToken)
<1>1. Init => FlagInv
  BY InitFlag
<1>2. FlagInv /\ [Next]_vars => FlagInv'
  BY NextFlag
<1>3. FlagInv => (fails = 0 => FlagFollowsToken)
  BY DEF FlagInv, DoubtIsRevoked, Doubtful, FlagFollowsToken, At
<1> QED BY <1>1, <1>2, <1>3, PTL DEF Spec

-----------------------------------------------------------------------------
(* Rotations, one handler at a time *)

Looping == {"bulkGrant", "bulkRevoke", "allowed", "live"}

\* What a rotation is to replace belongs to its user until it is revoked, and
\* only a rotation replaces anything.
OldGoes(h) ==
  /\ \A t \in job[h].old :
       /\ t \in TokenIds /\ Exists(t)
       /\ Active(tok[t], now) => /\ tok[t].user = job[h].user
                                 /\ job[h].pc \in {"rotate", "revoke", "drop"}
  /\ job[h].pc \in Looping \/ job[h].then \in Looping => job[h].old = {}

RotationInv ==
  /\ FlagInv
  /\ \A h \in Handlers : OldGoes(h)

LEMMA RotationAtOne ==
  ASSUME Serial, FlagInv', NEW h \in Handlers, OldGoes(h)'
  PROVE  RotationInv'
BY DEF Serial, RotationInv

\* A handler that goes on with nothing to replace.
LEMMA NothingOld ==
  ASSUME Serial, FlagInv', NEW h \in Handlers, job'[h].old = {}
  PROVE  RotationInv'
BY RotationAtOne DEF OldGoes

\* Rows never go away, and what is revoked or expired stays so.
LEMMA OldStays ==
  ASSUME RotationInv, Serial, FlagInv', NEW h \in Handlers,
         job'[h].old = job[h].old, job'[h].user = job[h].user,
         \A t \in job[h].old : /\ tok'[t].user = tok[t].user
                               /\ Active(tok'[t], now') => Active(tok[t], now),
         \/ job'[h].pc \in {"rotate", "revoke", "drop"}
         \/ \A t \in job[h].old : ~Active(tok'[t], now'),
         job'[h].pc \in Looping \/ job'[h].then \in Looping =>
           job[h].pc \in Looping \/ job[h].then \in Looping
  PROVE  RotationInv'
<1>1. OldGoes(h)
  BY DEF RotationInv
<1>2. ASSUME NEW t \in job[h].old
      PROVE  /\ t \in TokenIds /\ Exists(t)'
             /\ Active(tok'[t], now') => /\ tok'[t].user = job'[h].user
                                        /\ job'[h].pc \in {"rotate", "revoke", "drop"}
  BY <1>1, <1>2 DEF OldGoes, Exists
<1>3. job'[h].pc \in Looping \/ job'[h].then \in Looping => job'[h].old = {}
  BY <1>1 DEF OldGoes
<1>4. OldGoes(h)'
  BY <1>2, <1>3 DEF OldGoes
<1> QED BY <1>4, RotationAtOne

\* Where nothing of the old is active.
LEMMA OldAreGone ==
  ASSUME RotationInv, NEW h \in Handlers,
         \/ job[h].pc \notin {"rotate", "revoke", "drop"}
         \/ ActiveTokens(job[h].user) = {}
  PROVE  \A t \in job[h].old : ~Active(tok[t], now)
BY DEF RotationInv, OldGoes, ActiveTokens

LEMMA SetsRotation ==
  ASSUME RotationInv, Serial, FlagInv', NEW h \in Handlers, UNCHANGED <<tok, now>>,
         job'[h].old = job[h].old, job'[h].user = job[h].user,
         \/ job[h].pc \notin {"rotate", "revoke", "drop"}
         \/ job'[h].pc \in {"rotate", "revoke", "drop"}
         \/ ActiveTokens(job[h].user) = {},
         job'[h].pc \in Looping \/ job'[h].then \in Looping =>
           job[h].pc \in Looping \/ job[h].then \in Looping
  PROVE  RotationInv'
<1>1. \A t : Active(tok'[t], now') <=> Active(tok[t], now)
  BY DEF Active
<1>2. \/ job'[h].pc \in {"rotate", "revoke", "drop"}
      \/ \A t \in job[h].old : ~Active(tok'[t], now')
  BY <1>1, OldAreGone
<1> QED BY <1>1, <1>2, OldStays

\* A handler that returns without having written a token.
LEMMA ReturnsRotation ==
  ASSUME RotationInv, Serial, FlagInv', NEW h \in Handlers, UNCHANGED <<tok, now>>,
         Return(h) \/ Throw(h) \/ End(h),
         \/ job[h].pc \notin {"rotate", "revoke", "drop"}
         \/ ActiveTokens(job[h].user) = {}
  PROVE  RotationInv'
<1>1. TypeOK
  BY DEF RotationInv, FlagInv, IInv
<1>2. CASE job'[h] = NoJob
  BY <1>2, NothingOld DEF NoJob
<1>3. CASE job'[h] # NoJob
  <2>1. /\ job'[h].then = "idle" /\ job'[h].pc = job[h].then
        /\ job'[h].user = job[h].user /\ job'[h].old = job[h].old
    BY <1>1, <1>3, Landing
  <2>2. job'[h].pc \in Looping \/ job'[h].then \in Looping =>
          job[h].pc \in Looping \/ job[h].then \in Looping
    BY <2>1 DEF Looping
  <2> QED BY <2>1, <2>2, SetsRotation
<1> QED BY <1>2, <1>3

LEMMA GrantMintOld ==
  ASSUME RotationInv, NEW h \in Handlers, GrantMint(h)
  PROVE  \A t \in job[h].old : tok'[t] = tok[t] /\ ~Active(tok'[t], now')
<1>1. NextId \in FreeIds /\ now' = now /\ tok \in [TokenIds -> Row]
  BY NextIdIsFree DEF GrantMint, world, RotationInv, FlagInv, IInv, TypeOK, TokOK
<1>2. \A t \in job[h].old : ~Active(tok[t], now) /\ t \in TokenIds /\ Exists(t)
  BY OldAreGone DEF RotationInv, OldGoes, GrantMint, At
<1>3. \A t \in job[h].old : tok'[t] = tok[t]
  BY <1>1, <1>2 DEF GrantMint, Create, FreeIds
<1> QED BY <1>1, <1>2, <1>3 DEF Active

LEMMA GrantMintRotation ==
  ASSUME RotationInv, Serial, FlagInv', NEW h \in Handlers, GrantMint(h) PROVE RotationInv'
<1>1. TypeOK
  BY DEF RotationInv, FlagInv, IInv
<1>2. CASE job'[h] = NoJob
  BY <1>2, NothingOld DEF NoJob
<1>3. CASE job'[h] # NoJob
  <2>1. /\ job'[h].then = "idle" /\ job'[h].pc = job[h].then
        /\ job'[h].user = job[h].user /\ job'[h].old = job[h].old
    BY <1>1, <1>3, Landing DEF GrantMint
  <2>2. job'[h].pc \in Looping \/ job'[h].then \in Looping =>
          job[h].pc \in Looping \/ job[h].then \in Looping
    BY <2>1 DEF Looping
  <2> QED BY <2>1, <2>2, GrantMintOld, OldStays
<1> QED BY <1>2, <1>3

LEMMA RevokeDropRotation ==
  ASSUME RotationInv, Serial, FlagInv', NEW h \in Handlers, RevokeDrop(h) PROVE RotationInv'
<1>1. TypeOK /\ DropsTheOnly(h) /\ OldGoes(h)
  BY DEF RotationInv, FlagInv, IInv
<1>2. CASE job'[h] = NoJob
  BY <1>2, NothingOld DEF NoJob
<1>3. CASE job'[h] # NoJob
  <2>1. /\ job'[h].then = "idle" /\ job'[h].pc = job[h].then
        /\ job'[h].user = job[h].user /\ job'[h].old = job[h].old
    BY <1>1, <1>3, Landing DEF RevokeDrop
  <2>2. job'[h].pc \in Looping \/ job'[h].then \in Looping =>
          job[h].pc \in Looping \/ job[h].then \in Looping
    BY <2>1 DEF Looping
  <2>3. \A t \in TokenIds : /\ tok'[t].user = tok[t].user
                            /\ Active(tok'[t], now') => Active(tok[t], now)
    BY <1>1, DropRevivesNone
  <2>4. \A v : v = job[h].user => ActiveTokens(v)' = {}
    BY <1>1, DropEmpties
  <2>5. ASSUME NEW t \in job[h].old PROVE ~Active(tok'[t], now')
    <3>1. SUFFICES ASSUME Active(tok'[t], now') PROVE FALSE
      OBVIOUS
    <3>2. t \in TokenIds /\ tok'[t].user = job[h].user
      BY <1>1, <2>3, <3>1 DEF OldGoes
    <3>3. \A v : v = job[h].user => t \in ActiveTokens(v)'
      BY <3>1, <3>2 DEF ActiveTokens
    <3> QED BY <2>4, <3>3
  <2>6. \A t \in job[h].old : t \in TokenIds
    BY <1>1 DEF OldGoes
  <2> QED BY <2>1, <2>2, <2>3, <2>5, <2>6, OldStays
<1> QED BY <1>2, <1>3

\* The steps of a handler that write no token.
LEMMA OtherRotation ==
  ASSUME RotationInv, Serial, FlagInv', NEW h \in Handlers, JobStep(h), ~GrantMint(h), ~RevokeDrop(h)
  PROVE  RotationInv'
<1>1. TypeOK /\ job[h] \in Job /\ \A j : Set(h, j) => job'[h] = j
  BY DEF RotationInv, FlagInv, IInv, TypeOK, Set
<1>2. UNCHANGED <<tok, now>>
  BY DEF JobStep, GrantCheck, RevokeFind, EnsureFind, EnsureFlag, RotateFind, Permit, BulkNext, BulkDone,
         AllowedNext, AllowedDone, LiveNext, LiveDone, world
<1>3. CASE GrantCheck(h)
  <2>1. CASE Throw(h)
    BY <1>2, <1>3, <2>1, ReturnsRotation DEF GrantCheck, At
  <2>2. CASE Set(h, [job[h] EXCEPT !.pc = "mint"])
    <3>1. /\ job'[h].pc = "mint" /\ job'[h].then = job[h].then
          /\ job'[h].old = job[h].old /\ job'[h].user = job[h].user
      BY <1>1, <2>2 DEF Job
    <3> QED BY <1>2, <1>3, <3>1, SetsRotation DEF GrantCheck, At, Looping
  <2> QED BY <1>3, <2>1, <2>2 DEF GrantCheck
<1>4. CASE RevokeFind(h)
  <2>1. CASE FindActiveForUser(job[h].user) = NoToken /\ Throw(h)
    BY <1>2, <2>1, NoneFound, ReturnsRotation
  <2>2. CASE \E t : Set(h, [job[h] EXCEPT !.pc = "drop", !.token = t])
    <3>1. /\ job'[h].pc = "drop" /\ job'[h].then = job[h].then
          /\ job'[h].old = job[h].old /\ job'[h].user = job[h].user
      BY <1>1, <2>2 DEF Job
    <3> QED BY <1>2, <3>1, SetsRotation DEF Looping
  <2> QED BY <1>4, <2>1, <2>2 DEF RevokeFind
<1>5. CASE EnsureFind(h)
  <2>1. \/ \E t : Set(h, [job[h] EXCEPT !.pc = "setFlag", !.token = t])
        \/ Set(h, [job[h] EXCEPT !.pc = "revoke", !.then = "grant"])
        \/ Set(h, [job[h] EXCEPT !.pc = "grant"])
    BY <1>5 DEF EnsureFind
  <2>2. /\ job'[h].pc \in {"setFlag", "revoke", "grant"}
        /\ job'[h].then \in {job[h].then, "grant"}
        /\ job'[h].old = job[h].old /\ job'[h].user = job[h].user
    BY <1>1, <2>1 DEF Job
  <2> QED BY <1>2, <1>5, <2>2, SetsRotation DEF EnsureFind, At, Looping
<1>6. CASE EnsureFlag(h)
  BY <1>2, <1>6, ReturnsRotation DEF EnsureFlag, At
<1>7. CASE RotateFind(h)
  <2>1. CASE Set(h, [job[h] EXCEPT !.pc = "revoke", !.then = "ensure"])
    <3>1. /\ job'[h].pc = "revoke" /\ job'[h].then = "ensure"
          /\ job'[h].old = job[h].old /\ job'[h].user = job[h].user
      BY <1>1, <2>1 DEF Job
    <3> QED BY <1>2, <3>1, SetsRotation DEF Looping
  <2>2. CASE FindActiveForUser(job[h].user) = NoToken /\ Set(h, [job[h] EXCEPT !.pc = "ensure"])
    <3>1. /\ job'[h].pc = "ensure" /\ job'[h].then = job[h].then
          /\ job'[h].old = job[h].old /\ job'[h].user = job[h].user
      BY <1>1, <2>2 DEF Job
    <3> QED BY <1>2, <2>2, <3>1, NoneFound, SetsRotation DEF Looping
  <2> QED BY <1>7, <2>1, <2>2 DEF RotateFind
<1>8. CASE Permit(h)
  <2>1. CASE \E pc \in {"grant", "revoke"} : Set(h, [job[h] EXCEPT !.pc = pc])
    <3>1. /\ job'[h].pc \in {"grant", "revoke"} /\ job'[h].then = job[h].then
          /\ job'[h].old = job[h].old /\ job'[h].user = job[h].user
      BY <1>1, <2>1 DEF Job
    <3> QED BY <1>2, <1>8, <3>1, SetsRotation DEF Permit, At, Looping
  <2>2. CASE End(h)
    BY <1>2, <1>8, <2>2, ReturnsRotation DEF Permit, At
  <2> QED BY <1>8, <2>1, <2>2 DEF Permit
<1>9. CASE BulkDone(h) \/ LiveDone(h)
  BY <1>2, <1>9, ReturnsRotation DEF BulkDone, LiveDone, At
<1>10. CASE job[h].pc \in Looping /\ job'[h].old = job[h].old
  BY <1>10, NothingOld DEF RotationInv, OldGoes
<1>11. CASE \E u \in Users : BulkNext(h, u)
  <2>1. PICK u \in Users : BulkNext(h, u)
    BY <1>11
  <2>2. \/ \E pc : Set(h, [job[h] EXCEPT !.pc = pc, !.user = u, !.then = job[h].pc, !.todo = @ \ {u}])
        \/ Set(h, [job[h] EXCEPT !.todo = @ \ {u}])
    BY <2>1 DEF BulkNext
  <2>3. job'[h].old = job[h].old
    BY <1>1, <2>2 DEF Job
  <2> QED BY <1>10, <2>1, <2>3 DEF BulkNext, At, Looping
<1>12. CASE \E u \in Users : AllowedNext(h, u) \/ LiveNext(h, u)
  <2>1. job'[h].old = job[h].old
    BY <1>1, <1>12 DEF AllowedNext, LiveNext, Job
  <2> QED BY <1>10, <1>12, <2>1 DEF AllowedNext, LiveNext, At, Looping
<1>13. CASE AllowedDone(h)
  <2>1. job'[h].old = job[h].old
    BY <1>1, <1>13 DEF AllowedDone, Job
  <2> QED BY <1>10, <1>13, <2>1 DEF AllowedDone, At, Looping
<1> QED BY <1>3, <1>4, <1>5, <1>6, <1>7, <1>8, <1>9, <1>11, <1>12, <1>13 DEF JobStep

LEMMA RequestRotation ==
  ASSUME RotationInv, Serial, FlagInv', NEW h \in Handlers, Request(h) PROVE RotationInv'
<1>1. TypeOK
  BY DEF RotationInv, FlagInv, IInv
<1>2. /\ now' = now /\ job'[h].then = "idle"
      /\ job'[h].pc # "rotate" => job'[h].old = {}
      /\ job'[h].pc = "rotate" => job'[h].old = ActiveTokens(job'[h].user)
      /\ UNCHANGED tok \/ \E s, n \in Users : Merge(h, s, n)
  BY <1>1, Begun
<1>3. CASE job'[h].pc # "rotate"
  BY <1>2, <1>3, NothingOld
<1>4. CASE job'[h].pc = "rotate"
  <2>1. tok' = tok
    <3>1. ASSUME NEW s \in Users, NEW n \in Users, Merge(h, s, n) PROVE FALSE
      BY <1>1, <1>4, <3>1 DEF Merge, Begin, Set, TypeOK, NoJob
    <3> QED BY <1>2, <3>1
  <2>2. OldGoes(h)'
    BY <1>2, <1>4, <2>1 DEF OldGoes, ActiveTokens, Active, Exists, Looping
  <2> QED BY <2>2, RotationAtOne
<1> QED BY <1>3, <1>4

LEMMA NextRotation ==
  ASSUME RotationInv, Serial, [Next]_vars PROVE RotationInv'
<1>1. FlagInv' /\ TypeOK
  BY NextFlag DEF RotationInv, FlagInv, IInv
<1>2. CASE \E h \in Handlers : Boot(h)
  <2>1. PICK h \in Handlers : Boot(h)
    BY <1>2
  <2>2. job'[h].old = {}
    BY <1>1, <2>1 DEF Boot, Set, TypeOK, NoJob
  <2> QED BY <1>1, <2>2, NothingOld
<1>3. CASE \E h \in Handlers : Request(h)
  BY <1>1, <1>3, RequestRotation
<1>4. CASE \E h \in Handlers : JobStep(h)
  BY <1>1, <1>4, GrantMintRotation, RevokeDropRotation, OtherRotation
<1>5. CASE \E h \in Handlers : Fails(h)
  <2>1. PICK h \in Handlers : Fails(h)
    BY <1>5
  <2>2. CASE job'[h] = NoJob
    BY <1>1, <2>2, NothingOld DEF NoJob
  <2>3. CASE job'[h] # NoJob
    <3>1. /\ job[h].then \in Looping /\ job'[h].old = job[h].old
      BY <1>1, <2>1, <2>3, Landing, Thrown DEF Fails, Looping, NoJob
    <3> QED BY <1>1, <3>1, NothingOld DEF RotationInv, OldGoes
  <2> QED BY <2>2, <2>3
<1>6. CASE Crash
  <2>1. \A h \in Handlers : job'[h] = NoJob
    BY <1>6 DEF Crash
  <2>2. \A h \in Handlers : OldGoes(h)'
    BY <2>1 DEF OldGoes, NoJob, Looping
  <2> QED BY <1>1, <2>2 DEF RotationInv
<1>7. CASE Tick
  <2>1. tok' = tok /\ job' = job /\ \A t \in TokenIds : Active(tok'[t], now') => Active(tok[t], now)
    <3>1. now \in Nat /\ now' = now + 1 /\ tok' = tok /\ job' = job
      BY <1>1, <1>7, TokensAssumption DEF Tick, TypeOK, Instants
    <3>2. \A t \in TokenIds : tok[t].expires \in Nat
      BY <1>1 DEF TypeOK, TokOK, Row
    <3> QED BY <3>1, <3>2 DEF Active
  <2>2. ASSUME NEW h \in Handlers PROVE OldGoes(h)'
    <3>1. OldGoes(h)
      BY DEF RotationInv
    <3> QED BY <2>1, <3>1 DEF OldGoes, Exists
  <2> QED BY <1>1, <2>2 DEF RotationInv
<1>8. CASE UNCHANGED vars
  BY <1>1, <1>8 DEF vars, RotationInv, OldGoes, Exists, Active
<1> QED BY <1>2, <1>3, <1>4, <1>5, <1>6, <1>7, <1>8 DEF Next

\* One handler at a time, a rotation ends what it replaces: when it answers,
\* with the token it minted or with one it found, no token that its user had
\* when it began is accepted any more, however the handler got there (the token
\* expired on the way, it was an old one without a plaintext, a statement failed).
THEOREM RotationReplaces ==
  ASSUME Serial PROVE Spec => RotateReplaces
<1>1. Init => RotationInv
  <2>1. SUFFICES ASSUME Init PROVE RotationInv
    OBVIOUS
  <2>2. \A h \in Handlers : OldGoes(h)
    BY <2>1 DEF Init, OldGoes, NoJob, Looping
  <2> QED BY <2>1, <2>2, InitFlag DEF RotationInv
<1>2. RotationInv /\ [Next]_vars => RotationInv'
  BY NextRotation
<1>3. RotationInv => \A h \in Handlers : EnsureFlag(h) \/ (GrantMint(h) /\ job[h].then = "idle") =>
                       \A t \in job[h].old : ~Active(tok'[t], now')
  <2>1. SUFFICES ASSUME RotationInv, NEW h \in Handlers, EnsureFlag(h) \/ GrantMint(h)
                 PROVE  \A t \in job[h].old : ~Active(tok'[t], now')
    OBVIOUS
  <2>2. CASE EnsureFlag(h)
    <3>1. \A t \in job[h].old : ~Active(tok[t], now)
      BY <2>1, <2>2, OldAreGone DEF EnsureFlag, At
    <3> QED BY <2>2, <3>1 DEF EnsureFlag, world
  <2>3. CASE GrantMint(h)
    BY <2>1, <2>3, GrantMintOld
  <2> QED BY <2>1, <2>2, <2>3
<1> QED BY <1>1, <1>2, <1>3, PTL DEF Spec, RotateReplaces

-----------------------------------------------------------------------------
(* Handlers that overlap *)

\* A step of one handler leaves the others where they are.
LEMMA OthersStay ==
  ASSUME TypeOK, NEW h \in Handlers, JobStep(h) \/ Request(h) \/ Boot(h) \/ Fails(h)
  PROVE  \A g \in Handlers : g # h => job'[g] = job[g]
<1>1. ASSUME \E j : Set(h, j) PROVE \A g \in Handlers : g # h => job'[g] = job[g]
  BY <1>1 DEF Set, TypeOK
<1>2. CASE End(h) \/ Return(h) \/ Throw(h)
  BY <1>1, <1>2 DEF End, Return, Throw
<1>3. CASE JobStep(h)
  <2>1. CASE GrantCheck(h) \/ GrantMint(h)
    BY <1>1, <1>2, <2>1 DEF GrantCheck, GrantMint
  <2>2. CASE RevokeFind(h) \/ RevokeDrop(h)
    BY <1>1, <1>2, <2>2 DEF RevokeFind, RevokeDrop
  <2>3. CASE EnsureFind(h) \/ EnsureFlag(h) \/ RotateFind(h)
    BY <1>1, <1>2, <2>3 DEF EnsureFind, EnsureFlag, RotateFind
  <2>4. CASE Permit(h)
    BY <1>1, <1>2, <2>4 DEF Permit
  <2>5. CASE \E u \in Users : BulkNext(h, u)
    BY <1>1, <2>5 DEF BulkNext
  <2>6. CASE BulkDone(h) \/ AllowedDone(h) \/ LiveDone(h)
    BY <1>1, <1>2, <2>6 DEF BulkDone, AllowedDone, LiveDone
  <2>7. CASE \E u \in Users : AllowedNext(h, u) \/ LiveNext(h, u)
    BY <1>1, <2>7 DEF AllowedNext, LiveNext
  <2> QED BY <1>3, <2>1, <2>2, <2>3, <2>4, <2>5, <2>6, <2>7 DEF JobStep
<1>4. CASE Request(h)
  <2>1. \E op, j : Begin(h, op, j)
    BY <1>4 DEF Request, BeginGrant, BeginRevoke, BeginIssue, BeginRotate, BeginPermit, BeginBulk,
                Deactivate, Merge
  <2> QED BY <1>1, <2>1 DEF Begin
<1>5. CASE Boot(h)
  BY <1>1, <1>5 DEF Boot
<1>6. CASE Fails(h)
  BY <1>2, <1>6 DEF Fails
<1> QED BY <1>3, <1>4, <1>5, <1>6

\* The handlers about to mint a token for u.
Minting(u) == {h \in Handlers : At(h, "mint") /\ job[h].user = u}

BoundInv ==
  /\ TypeOK
  /\ \A u \in Users :
       Cardinality(ActiveTokens(u)) + Cardinality(Minting(u)) <= Cardinality(Handlers)

LEMMA FiniteSides ==
  ASSUME IsFiniteSet(Handlers), NEW u
  PROVE  /\ IsFiniteSet(ActiveTokens(u)) /\ Cardinality(ActiveTokens(u)) \in Nat
         /\ IsFiniteSet(Minting(u)) /\ Cardinality(Minting(u)) \in Nat
         /\ Cardinality(Handlers) \in Nat
         /\ IsFiniteSet(ActiveTokens(u)') /\ Cardinality(ActiveTokens(u)') \in Nat
         /\ IsFiniteSet(Minting(u)') /\ Cardinality(Minting(u)') \in Nat
<1>1. IsFiniteSet(TokenIds)
  BY FS_Interval, TokensAssumption DEF TokenIds
<1>2. ActiveTokens(u) \in SUBSET TokenIds /\ ActiveTokens(u)' \in SUBSET TokenIds
  BY DEF ActiveTokens
<1>3. Minting(u) \in SUBSET Handlers /\ Minting(u)' \in SUBSET Handlers
  BY DEF Minting
<1> QED BY <1>1, <1>2, <1>3, FS_Subset, FS_CardinalityType

\* No token becomes active and no handler comes to mint.
LEMMA BoundShrinks ==
  ASSUME IsFiniteSet(Handlers), BoundInv, TypeOK', NEW u \in Users,
         ActiveTokens(u)' \subseteq ActiveTokens(u), Minting(u)' \subseteq Minting(u)
  PROVE  Cardinality(ActiveTokens(u)') + Cardinality(Minting(u)') <= Cardinality(Handlers)
<1> DEFINE a == Cardinality(ActiveTokens(u))
           b == Cardinality(ActiveTokens(u)')
           c == Cardinality(Minting(u))
           d == Cardinality(Minting(u)')
           n == Cardinality(Handlers)
<1>1. a \in Nat /\ b \in Nat /\ c \in Nat /\ d \in Nat /\ n \in Nat
  BY FiniteSides
<1>2. b <= a /\ d <= c
  BY FiniteSides, FS_Subset
<1>3. a + c <= n
  BY DEF BoundInv
<1> HIDE DEF a, b, c, d, n
<1>4. b + d <= n
  BY <1>1, <1>2, <1>3
<1> QED BY <1>4 DEF b, d, n

\* A step after which its handler is not about to mint brings nobody to mint.
LEMMA FewerMint ==
  ASSUME TypeOK, NEW h \in Handlers, job'[h].pc # "mint",
         \A g \in Handlers : g # h => job'[g] = job[g]
  PROVE  \A u : Minting(u)' \subseteq Minting(u) \ {h}
BY DEF Minting, At

LEMMA GrantCheckBound ==
  ASSUME IsFiniteSet(Handlers), BoundInv, NEW h \in Handlers, GrantCheck(h), NEW u \in Users
  PROVE  Cardinality(ActiveTokens(u)') + Cardinality(Minting(u)') <= Cardinality(Handlers)
<1>1. TypeOK /\ TypeOK' /\ job[h] \in Job
  BY GrantCheckTypeOK DEF BoundInv, TypeOK
<1>2. ActiveTokens(u)' = ActiveTokens(u)
  BY SameDoubt DEF GrantCheck, world
<1>3. \A g \in Handlers : g # h => job'[g] = job[g]
  BY <1>1, OthersStay DEF JobStep
<1>4. CASE job'[h].pc = "mint" /\ job[h].user = u
  <2>1. ActiveTokens(u) = {}
    <3>1. CASE Throw(h)
      BY <1>1, <1>4, <3>1, Thrown
    <3>2. CASE FindActiveForUser(job[h].user) = NoToken
      BY <1>4, <3>2, NoneFound
    <3> QED BY <3>1, <3>2 DEF GrantCheck
  <2>2. Minting(u)' \in SUBSET Handlers
    BY DEF Minting
  <2>3. Cardinality(ActiveTokens(u)') = 0
    BY <1>2, <2>1, FS_EmptySet
  <2>4. Cardinality(Minting(u)') <= Cardinality(Handlers)
    BY <2>2, FS_Subset
  <2>5. Cardinality(Minting(u)') \in Nat
    BY FiniteSides
  <2> QED BY <2>3, <2>4, <2>5
<1>5. CASE ~(job'[h].pc = "mint" /\ job[h].user = u)
  <2>1. job'[h].pc = "mint" => job'[h].user = job[h].user
    <3>1. CASE Throw(h)
      BY <1>1, <3>1, Thrown
    <3>2. CASE Set(h, [job[h] EXCEPT !.pc = "mint"])
      BY <1>1, <3>2 DEF Set, TypeOK, Job
    <3> QED BY <3>1, <3>2 DEF GrantCheck
  <2>2. Minting(u)' \subseteq Minting(u)
    BY <1>3, <1>5, <2>1 DEF Minting, At
  <2> QED BY <1>1, <1>2, <2>2, BoundShrinks
<1> QED BY <1>4, <1>5

LEMMA GrantMintBound ==
  ASSUME IsFiniteSet(Handlers), BoundInv, NEW h \in Handlers, GrantMint(h), NEW u \in Users
  PROVE  Cardinality(ActiveTokens(u)') + Cardinality(Minting(u)') <= Cardinality(Handlers)
<1>1. TypeOK /\ TypeOK'
  BY GrantMintTypeOK DEF BoundInv
<1>2. \A v : Minting(v)' \subseteq Minting(v) \ {h}
  <2>1. \A g \in Handlers : g # h => job'[g] = job[g]
    BY <1>1, OthersStay DEF JobStep
  <2>2. job'[h].pc # "mint"
    BY <1>1, ReturnNotMint DEF GrantMint
  <2> QED BY <1>1, <2>1, <2>2, FewerMint
<1>3. CASE u # job[h].user
  BY <1>1, <1>2, <1>3, GrantMintActive, BoundShrinks
<1>4. CASE u = job[h].user
  <2>1. h \in Minting(u)
    BY <1>4 DEF Minting, GrantMint
  <2>2. ActiveTokens(u)' \subseteq ActiveTokens(u) \cup {NextId}
    <3>1. tok' = [tok EXCEPT ![NextId] = NewRow(job[h].user, job[h].ttl)] /\ now' = now
      BY DEF GrantMint, Create, world
    <3> QED BY <1>1, <3>1 DEF ActiveTokens, Active, TypeOK, TokOK
  <2> DEFINE a == Cardinality(ActiveTokens(u))
             b == Cardinality(ActiveTokens(u)')
             c == Cardinality(Minting(u))
             d == Cardinality(Minting(u)')
             n == Cardinality(Handlers)
  <2>3. a \in Nat /\ b \in Nat /\ c \in Nat /\ d \in Nat /\ n \in Nat
    BY FiniteSides
  <2>4. b <= a + 1
    <3>1. IsFiniteSet(ActiveTokens(u)) /\ Cardinality(ActiveTokens(u)) \in Nat
      BY FiniteSides
    <3>2. /\ IsFiniteSet(ActiveTokens(u) \cup {NextId})
          /\ \/ Cardinality(ActiveTokens(u) \cup {NextId}) = Cardinality(ActiveTokens(u))
             \/ Cardinality(ActiveTokens(u) \cup {NextId}) = Cardinality(ActiveTokens(u)) + 1
      BY <3>1, FS_AddElement, ZenonT(60)
    <3>3. Cardinality(ActiveTokens(u)') <= Cardinality(ActiveTokens(u) \cup {NextId})
      BY <2>2, <3>2, FS_Subset
    <3>4. Cardinality(ActiveTokens(u) \cup {NextId}) \in Nat
      BY <3>2, FS_CardinalityType
    <3> QED BY <2>3, <3>1, <3>2, <3>3, <3>4
  <2>5. d <= c - 1
    <3>1. IsFiniteSet(Minting(u)) /\ Cardinality(Minting(u)) \in Nat
      BY FiniteSides
    <3>2. /\ IsFiniteSet(Minting(u) \ {h})
          /\ Cardinality(Minting(u) \ {h}) = Cardinality(Minting(u)) - 1
      BY <2>1, <3>1, FS_RemoveElement
    <3>3. Cardinality(Minting(u)') <= Cardinality(Minting(u) \ {h})
      BY <1>2, <3>2, FS_Subset
    <3> QED BY <3>2, <3>3
  <2>6. a + c <= n
    BY DEF BoundInv
  <2> HIDE DEF a, b, c, d, n
  <2>7. b + d <= n
    BY <2>3, <2>4, <2>5, <2>6
  <2> QED BY <2>7 DEF b, d, n
<1> QED BY <1>3, <1>4

LEMMA NextBound ==
  ASSUME IsFiniteSet(Handlers), "merge" \notin Ops, BoundInv, [Next]_vars
  PROVE  BoundInv'
<1>1. TypeOK /\ TypeOK'
  BY NextTypeOK DEF BoundInv
<1> SUFFICES ASSUME NEW u \in Users
             PROVE  Cardinality(ActiveTokens(u)') + Cardinality(Minting(u)') <= Cardinality(Handlers)
  BY <1>1 DEF BoundInv
<1>2. ASSUME NEW h \in Handlers, job'[h].pc # "mint", \A g \in Handlers : g # h => job'[g] = job[g],
             ActiveTokens(u)' \subseteq ActiveTokens(u)
      PROVE  Cardinality(ActiveTokens(u)') + Cardinality(Minting(u)') <= Cardinality(Handlers)
  BY <1>1, <1>2, FewerMint, BoundShrinks
<1>3. CASE \E h \in Handlers : Boot(h)
  <2>1. PICK h \in Handlers : Boot(h)
    BY <1>3
  <2>2. job'[h].pc # "mint" /\ ActiveTokens(u)' \subseteq ActiveTokens(u)
    BY <1>1, <2>1, SameTokens DEF Boot, Set, TypeOK, NoJob
  <2> QED BY <1>1, <1>2, <2>1, <2>2, OthersStay
<1>4. CASE \E h \in Handlers : Request(h)
  <2>1. PICK h \in Handlers : Request(h)
    BY <1>4
  <2>2. ~ \E s, n \in Users : Merge(h, s, n)
    BY DEF Merge, Begin
  <2>3. job'[h].pc # "mint" /\ ActiveTokens(u)' \subseteq ActiveTokens(u)
    BY <1>1, <2>1, <2>2, Begun, SameTokens
  <2> QED BY <1>1, <1>2, <2>1, <2>3, OthersStay
<1>5. CASE \E h \in Handlers : JobStep(h)
  <2>1. PICK h \in Handlers : JobStep(h)
    BY <1>5
  <2>2. CASE GrantCheck(h)
    BY <2>2, GrantCheckBound
  <2>3. CASE GrantMint(h)
    BY <2>3, GrantMintBound
  <2>4. CASE RevokeDrop(h)
    <3>1. ActiveTokens(u)' \subseteq ActiveTokens(u)
      BY <1>1, <2>4, DropShrinks
    <3>2. job'[h].pc # "mint"
      BY <1>1, <2>4, ReturnNotMint DEF RevokeDrop
    <3> QED BY <1>1, <1>2, <2>1, <3>1, <3>2, OthersStay
  <2>5. CASE ~GrantCheck(h) /\ ~GrantMint(h) /\ ~RevokeDrop(h)
    <3>1. job'[h].pc # "mint" /\ ActiveTokens(u)' \subseteq ActiveTokens(u)
      BY <1>1, <2>1, <2>5, OtherStepNotMint, SameTokens
    <3> QED BY <1>1, <1>2, <2>1, <3>1, OthersStay
  <2> QED BY <2>2, <2>3, <2>4, <2>5
<1>6. CASE \E h \in Handlers : Fails(h)
  <2>1. PICK h \in Handlers : Fails(h)
    BY <1>6
  <2>2. job'[h].pc # "mint" /\ ActiveTokens(u)' \subseteq ActiveTokens(u)
    BY <1>1, <2>1, Thrown, SameTokens DEF Fails
  <2> QED BY <1>1, <1>2, <2>1, <2>2, OthersStay
<1>7. CASE Crash
  <2>1. Minting(u)' \subseteq Minting(u) /\ ActiveTokens(u)' \subseteq ActiveTokens(u)
    BY <1>7, SameTokens DEF Crash, Minting, At, NoJob
  <2> QED BY <1>1, <2>1, BoundShrinks
<1>8. CASE Tick
  <2>1. Minting(u)' \subseteq Minting(u) /\ ActiveTokens(u)' \subseteq ActiveTokens(u)
    BY <1>1, <1>8, TickActive DEF Tick, Minting, At
  <2> QED BY <1>1, <2>1, BoundShrinks
<1>9. CASE UNCHANGED vars
  <2>1. Minting(u)' \subseteq Minting(u) /\ ActiveTokens(u)' \subseteq ActiveTokens(u)
    BY <1>9, SameTokens DEF vars, Minting, At
  <2> QED BY <1>1, <2>1, BoundShrinks
<1> QED BY <1>3, <1>4, <1>5, <1>6, <1>7, <1>8, <1>9 DEF Next

LEMMA InitBound ==
  ASSUME IsFiniteSet(Handlers), Handlers # {}, Init
  PROVE  BoundInv
<1>1. TypeOK
  BY InitTypeOK
<1> SUFFICES ASSUME NEW u \in Users
             PROVE  Cardinality(ActiveTokens(u)) + Cardinality(Minting(u)) <= Cardinality(Handlers)
  BY <1>1 DEF BoundInv
<1>2. Minting(u) = {}
  BY DEF Init, Minting, At, NoJob
<1>3. \A s, t \in ActiveTokens(u) : s = t
  BY InitIInv DEF IInv, AtMostOneActive
<1>4. ActiveTokens(u) = {} \/ \E t : ActiveTokens(u) = {t}
  BY <1>3
<1>5. Cardinality(ActiveTokens(u)) \in {0, 1}
  BY <1>4, FS_EmptySet, FS_Singleton
<1>6. Cardinality(Handlers) \in Nat /\ Cardinality(Handlers) # 0
  BY FS_CardinalityType, FS_EmptySet
<1>7. Cardinality(Minting(u)) = 0
  BY <1>2, FS_EmptySet
<1> QED BY <1>5, <1>6, <1>7

\* When handlers overlap, the check outside the transaction bounds what it lets
\* through: as long as accounts are not merged, a user never has more active
\* tokens than handlers can be under way at once.  A handler about to mint
\* stands for a token to come; a grant that is checked is checked against
\* none.
THEOREM OverlapBounded ==
  ASSUME IsFiniteSet(Handlers), Handlers # {}, "merge" \notin Ops
  PROVE  Spec => []ActiveTokensBounded
<1>1. Init => BoundInv
  BY InitBound
<1>2. BoundInv /\ [Next]_vars => BoundInv'
  BY NextBound
<1>3. BoundInv => ActiveTokensBounded
  <2>1. SUFFICES ASSUME BoundInv, NEW u \in Users
                 PROVE  Cardinality(ActiveTokens(u)) <= Cardinality(Handlers)
    BY DEF ActiveTokensBounded
  <2>2. /\ Cardinality(ActiveTokens(u)) \in Nat /\ Cardinality(Minting(u)) \in Nat
        /\ Cardinality(Handlers) \in Nat
    BY FiniteSides
  <2>3. Cardinality(ActiveTokens(u)) + Cardinality(Minting(u)) <= Cardinality(Handlers)
    BY <2>1 DEF BoundInv
  <2> QED BY <2>2, <2>3
<1> QED BY <1>1, <1>2, <1>3, PTL DEF Spec

-----------------------------------------------------------------------------
(* The startup *)

\* The tokens of u included one that was good at instant d.
HadToken(u, d) == \E t \in TokenIds : tok[t].user = u /\ Active(tok[t], d)

\* How far the startup's handler has come: an allowed user it has not visited
\* is in its list or is being granted a token, and its second loop visits only
\* users who have one.
Converging(h) ==
  /\ job[h].since <= now
  /\ job[h].ttl > 0
  /\ \/ At(h, "allowed") \/ At(h, "live")
     \/ job[h].pc \in {"grant", "mint"} /\ job[h].then = "allowed"
  /\ At(h, "live") => /\ Doubtful \subseteq job[h].todo
                      /\ \A u \in job[h].todo : HadToken(u, job[h].since)
  /\ \A u \in Users : flag[u] =>
       \/ At(h, "allowed") /\ u \in job[h].todo
       \/ job[h].pc \in {"grant", "mint"} /\ (u \in job[h].todo \/ u = job[h].user)
       \/ HadToken(u, job[h].since)

\* Before the server listens nothing but the startup's handler is under way.
StartupInv ==
  /\ TypeOK
  /\ \A h \in Handlers : At(h, "idle") => job[h] = NoJob
  /\ \A h \in Handlers : StartupPoint(h)
  /\ up = "down" => \A h \in Handlers : At(h, "idle")
  /\ up = "starting" => \A g, h \in Handlers : ~At(g, "idle") /\ ~At(h, "idle") => g = h
  /\ up = "starting" => \A h \in Handlers : At(h, "idle") \/ Converging(h)

\* Once the server listens, no handler comes to the startup's points.
LEMMA StartsNoMore ==
  ASSUME StartupInv, TypeOK', NEW h \in Handlers, up' = "serving",
         \A g \in Handlers : g # h => job'[g] = job[g],
         up = "serving" \/ \A g \in Handlers : g # h => At(g, "idle"),
         job'[h].pc \notin {"allowed", "live"}, job'[h].then # "allowed",
         job'[h].pc = "idle" => job'[h] = NoJob
  PROVE  StartupInv'
<1>1. ASSUME NEW g \in Handlers
      PROVE  (At(g, "idle")' => job'[g] = NoJob) /\ StartupPoint(g)'
  <2>1. CASE g = h
    BY <2>1 DEF At, StartupPoint
  <2>2. CASE g # h
    <3>1. job'[g] = job[g] /\ (At(g, "idle") => job[g] = NoJob) /\ StartupPoint(g)
      BY <2>2 DEF StartupInv
    <3>2. CASE up = "serving"
      BY <3>1, <3>2 DEF At, StartupPoint
    <3>3. CASE At(g, "idle")
      BY <3>1, <3>3 DEF At, StartupPoint, NoJob
    <3> QED BY <2>2, <3>2, <3>3
  <2> QED BY <2>1, <2>2
<1> QED BY <1>1 DEF StartupInv

\* Before, what the startup's handler does is all there is.
LEMMA StartsOn ==
  ASSUME StartupInv, TypeOK', NEW h \in Handlers, up = "starting", up' = "starting", ~At(h, "idle"),
         \A g \in Handlers : g # h => job'[g] = job[g],
         job'[h] = NoJob \/ (~At(h, "idle")' /\ Converging(h)')
  PROVE  StartupInv'
<1>1. ASSUME NEW g \in Handlers, g # h
      PROVE  At(g, "idle") /\ job'[g] = NoJob
  <2>1. At(g, "idle")
    BY <1>1 DEF StartupInv
  <2> QED BY <1>1, <2>1 DEF StartupInv
<1>2. \A g \in Handlers : (At(g, "idle")' => job'[g] = NoJob) /\ StartupPoint(g)'
  BY <1>1 DEF At, StartupPoint
<1>3. \A f, g \in Handlers : ~At(f, "idle")' /\ ~At(g, "idle")' => f = g
  BY <1>1 DEF At, NoJob
<1>4. \A g \in Handlers : At(g, "idle")' \/ Converging(g)'
  BY <1>1 DEF At, NoJob
<1> QED BY <1>2, <1>3, <1>4 DEF StartupInv

\* What the steps of a handler have in common.
LEMMA StepShape ==
  ASSUME TypeOK, NEW h \in Handlers, JobStep(h)
  PROVE  /\ job[h].pc # "idle"
         /\ job'[h].pc = "idle" => job'[h] = NoJob
         /\ job'[h].pc \in {"allowed", "live"} \/ job'[h].then = "allowed" =>
              job[h].pc \in {"allowed", "live"} \/ job[h].then = "allowed"
         /\ up' = up \/ LiveDone(h)
<1>1. job[h] \in Job /\ \A j : Set(h, j) => job'[h] = j
  BY DEF TypeOK, Set
<1>2. job[h].pc # "idle" /\ (up' = up \/ LiveDone(h))
  <2>1. CASE GrantCheck(h) \/ GrantMint(h) \/ RevokeFind(h) \/ RevokeDrop(h) \/ EnsureFind(h)
    BY <2>1 DEF GrantCheck, GrantMint, RevokeFind, RevokeDrop, EnsureFind, At, world
  <2>2. CASE EnsureFlag(h) \/ RotateFind(h) \/ Permit(h)
    BY <2>2 DEF EnsureFlag, RotateFind, Permit, At, world
  <2>3. CASE (\E u \in Users : BulkNext(h, u)) \/ BulkDone(h) \/ AllowedDone(h) \/ LiveDone(h)
    BY <2>3 DEF BulkNext, BulkDone, AllowedDone, LiveDone, At, world
  <2>4. CASE \E u \in Users : AllowedNext(h, u) \/ LiveNext(h, u)
    BY <2>4 DEF AllowedNext, LiveNext, At, world
  <2> QED BY <2>1, <2>2, <2>3, <2>4 DEF JobStep
<1> DEFINE Shape == /\ job'[h].pc = "idle" => job'[h] = NoJob
                    /\ job'[h].pc \in {"allowed", "live"} \/ job'[h].then = "allowed" =>
                         job[h].pc \in {"allowed", "live"} \/ job[h].then = "allowed"
<1> SUFFICES Shape
  BY <1>2
<1>3. ASSUME End(h) \/ Return(h) \/ Throw(h) PROVE Shape
  <2>1. CASE job'[h] = NoJob
    BY <2>1 DEF NoJob
  <2>2. CASE job'[h] # NoJob
    BY <1>3, <2>2, Landing
  <2> QED BY <2>1, <2>2
<1>4. ASSUME job'[h].pc \notin {"idle", "allowed", "live"}, job'[h].then \in {job[h].then, "grant", "ensure"}
      PROVE  Shape
  BY <1>4
<1>5. CASE GrantCheck(h)
  <2>1. CASE Set(h, [job[h] EXCEPT !.pc = "mint"])
    <3>1. job'[h].pc = "mint" /\ job'[h].then = job[h].then
      BY <1>1, <2>1 DEF Job
    <3> QED BY <1>4, <3>1
  <2> QED BY <1>3, <1>5, <2>1 DEF GrantCheck
<1>6. CASE GrantMint(h) \/ RevokeDrop(h) \/ EnsureFlag(h) \/ BulkDone(h) \/ LiveDone(h)
  BY <1>3, <1>6 DEF GrantMint, RevokeDrop, EnsureFlag, BulkDone, LiveDone
<1>7. CASE RevokeFind(h)
  <2>1. CASE \E t : Set(h, [job[h] EXCEPT !.pc = "drop", !.token = t])
    <3>1. job'[h].pc = "drop" /\ job'[h].then = job[h].then
      BY <1>1, <2>1 DEF Job
    <3> QED BY <1>4, <3>1
  <2> QED BY <1>3, <1>7, <2>1 DEF RevokeFind
<1>8. CASE EnsureFind(h)
  <2>1. \/ \E t : Set(h, [job[h] EXCEPT !.pc = "setFlag", !.token = t])
        \/ Set(h, [job[h] EXCEPT !.pc = "revoke", !.then = "grant"])
        \/ Set(h, [job[h] EXCEPT !.pc = "grant"])
    BY <1>8 DEF EnsureFind
  <2>2. job'[h].pc \in {"setFlag", "revoke", "grant"} /\ job'[h].then \in {job[h].then, "grant"}
    BY <1>1, <2>1 DEF Job
  <2> QED BY <1>4, <2>2
<1>9. CASE RotateFind(h)
  <2>1. job'[h].pc \in {"revoke", "ensure"} /\ job'[h].then \in {job[h].then, "ensure"}
    BY <1>1, <1>9 DEF RotateFind, Job
  <2> QED BY <1>4, <2>1
<1>10. CASE Permit(h)
  <2>1. CASE \E pc \in {"grant", "revoke"} : Set(h, [job[h] EXCEPT !.pc = pc])
    <3>1. job'[h].pc \in {"grant", "revoke"} /\ job'[h].then = job[h].then
      BY <1>1, <2>1 DEF Job
    <3> QED BY <1>4, <3>1
  <2> QED BY <1>3, <1>10, <2>1 DEF Permit
<1>11. CASE \E u \in Users : BulkNext(h, u)
  <2>1. PICK u \in Users : BulkNext(h, u)
    BY <1>11
  <2>2. job[h].pc \in {"bulkGrant", "bulkRevoke"}
    BY <2>1 DEF BulkNext, At
  <2>3. \/ job'[h] = [job[h] EXCEPT !.pc = "grant", !.user = u, !.then = job[h].pc,
                                   !.todo = @ \ {u}]
        \/ job'[h] = [job[h] EXCEPT !.pc = "revoke", !.user = u, !.then = job[h].pc,
                                   !.todo = @ \ {u}]
        \/ job'[h] = [job[h] EXCEPT !.todo = @ \ {u}]
    BY <1>1, <2>1 DEF BulkNext
  <2>4. /\ job'[h].pc \in {"grant", "revoke", "bulkGrant", "bulkRevoke"}
        /\ job'[h].then \in {job[h].then, "bulkGrant", "bulkRevoke"}
    BY <1>1, <2>2, <2>3 DEF Job
  <2> QED BY <2>4
<1>12. CASE \E u \in Users : AllowedNext(h, u) \/ LiveNext(h, u)
  <2>1. PICK u \in Users : AllowedNext(h, u) \/ LiveNext(h, u)
    BY <1>12
  <2>2. job[h].pc \in {"allowed", "live"}
    BY <2>1 DEF AllowedNext, LiveNext, At
  <2>3. job'[h].pc # "idle"
    BY <1>1, <2>1, <2>2 DEF AllowedNext, LiveNext, Job
  <2> QED BY <2>2, <2>3
<1>13. CASE AllowedDone(h)
  <2>1. job[h].pc = "allowed" /\ job'[h].pc = "live"
    BY <1>1, <1>13 DEF AllowedDone, At, Job
  <2> QED BY <2>1
<1> QED BY <1>5, <1>6, <1>7, <1>8, <1>9, <1>10, <1>11, <1>12, <1>13 DEF JobStep

\* A token that is active has been good since the startup began.
LEMMA ActiveWasGood ==
  ASSUME TypeOK, NEW u, ActiveTokens(u) # {}, NEW d \in Nat, d <= now
  PROVE  HadToken(u, d)
<1>1. PICK t \in TokenIds : tok[t].user = u /\ Active(tok[t], now)
  BY DEF ActiveTokens
<1>2. tok[t].expires \in Nat /\ now \in Nat
  BY TokensAssumption DEF TypeOK, TokOK, Row, Instants
<1>3. Active(tok[t], d)
  BY <1>1, <1>2 DEF Active
<1> QED BY <1>1, <1>3 DEF HadToken

\* A token that was good when the startup began is not lost to it.
LEMMA HadStays ==
  ASSUME NEW h \in Handlers, job'[h].since = job[h].since,
         \A t \in TokenIds : Exists(t) => tok'[t] = tok[t]
  PROVE  \A u : HadToken(u, job[h].since) => HadToken(u, job[h].since)'
BY DEF HadToken, Exists, Active

\* What is known of the startup's handler when it takes a step.
LEMMA ConvergingFacts ==
  ASSUME StartupInv, NEW h \in Handlers, up = "starting", ~At(h, "idle")
  PROVE  /\ TypeOK /\ job[h] \in Job /\ now \in Nat
         /\ \A k : Set(h, k) => job'[h] = k
         /\ job[h].since \in Nat /\ job[h].since <= now /\ job[h].ttl \in Nat /\ job[h].ttl > 0
         /\ \/ job[h].pc \in {"allowed", "live"}
            \/ job[h].pc \in {"grant", "mint"} /\ job[h].then = "allowed"
         /\ job[h].pc = "live" => /\ Doubtful \subseteq job[h].todo
                                  /\ \A u \in job[h].todo : HadToken(u, job[h].since)
         /\ \A u \in Users : flag[u] =>
              \/ job[h].pc = "allowed" /\ u \in job[h].todo
              \/ job[h].pc \in {"grant", "mint"} /\ (u \in job[h].todo \/ u = job[h].user)
              \/ HadToken(u, job[h].since)
<1>1. TypeOK /\ job[h] \in Job
  BY DEF StartupInv, TypeOK
<1>2. Converging(h)
  BY DEF StartupInv
<1>3. now \in Nat /\ job[h].since \in Nat /\ job[h].ttl \in Nat /\ \A k : Set(h, k) => job'[h] = k
  BY <1>1, TokensAssumption DEF TypeOK, Job, Instants, Set
<1> QED BY <1>1, <1>2, <1>3 DEF Converging, At

LEMMA GrantCheckConverges ==
  ASSUME StartupInv, NEW h \in Handlers, up = "starting", GrantCheck(h)
  PROVE  job'[h] = NoJob \/ (~At(h, "idle")' /\ Converging(h)')
<1>1. job[h].pc = "grant" /\ tok' = tok /\ flag' = flag /\ now' = now
  BY DEF GrantCheck, At, world
<1>2. ~At(h, "idle")
  BY <1>1 DEF At
<1>3. job[h] \in Job /\ \A k : Set(h, k) => job'[h] = k
  BY <1>2, ConvergingFacts
<1>4. /\ job[h].since <= now /\ job[h].ttl > 0 /\ job[h].then = "allowed"
      /\ \A u \in Users : flag[u] => \/ u \in job[h].todo \/ u = job[h].user
                                     \/ HadToken(u, job[h].since)
  BY <1>1, <1>2, ConvergingFacts
<1>5. CASE Throw(h)
  BY <1>3, <1>4, <1>5 DEF Throw, End
<1>6. CASE Set(h, [job[h] EXCEPT !.pc = "mint"])
  <2>1. /\ job'[h].pc = "mint" /\ job'[h].then = job[h].then /\ job'[h].since = job[h].since
        /\ job'[h].ttl = job[h].ttl /\ job'[h].todo = job[h].todo /\ job'[h].user = job[h].user
    BY <1>3, <1>6 DEF Job
  <2>2. \A u : HadToken(u, job[h].since) => HadToken(u, job[h].since)'
    BY <1>1, <2>1, HadStays
  <2>3. \A u \in Users : flag'[u] => \/ u \in job'[h].todo \/ u = job'[h].user
                                     \/ HadToken(u, job[h].since)'
    BY <1>1, <1>4, <2>1, <2>2
  <2> QED BY <1>1, <1>4, <2>1, <2>3 DEF Converging, At
<1> QED BY <1>5, <1>6 DEF GrantCheck

LEMMA GrantMintConverges ==
  ASSUME StartupInv, NEW h \in Handlers, up = "starting", GrantMint(h)
  PROVE  job'[h] = NoJob \/ (~At(h, "idle")' /\ Converging(h)')
<1> PICK v : v = job[h].user
  OBVIOUS
<1>1. job[h].pc = "mint" /\ now' = now
  BY DEF GrantMint, At, world
<1>2. ~At(h, "idle")
  BY <1>1 DEF At
<1>3. /\ TypeOK /\ job[h] \in Job /\ now \in Nat /\ \A k : Set(h, k) => job'[h] = k
      /\ job[h].since \in Nat /\ job[h].since <= now /\ job[h].ttl \in Nat /\ job[h].ttl > 0
  BY <1>2, ConvergingFacts
<1>4. job[h].then = "allowed" /\ \A u \in Users : flag[u] => \/ u \in job[h].todo \/ u = v
                                                             \/ HadToken(u, job[h].since)
  BY <1>1, <1>2, ConvergingFacts
<1>5. /\ job'[h].pc = "allowed" /\ job'[h].since = job[h].since /\ job'[h].ttl = job[h].ttl
      /\ job'[h].todo = job[h].todo
  <2>1. job'[h] = [job[h] EXCEPT !.pc = "allowed", !.then = "idle"]
    BY <1>3, <1>4 DEF GrantMint, Return
  <2> QED BY <1>3, <2>1 DEF Job
<1>6. v \in Users /\ flag' = [flag EXCEPT ![v] = TRUE]
  BY <1>1, <1>3 DEF GrantMint, TypeOK, JobOK, Acting
<1>7. NextId \in TokenIds /\ ~Exists(NextId) /\ tok' = [tok EXCEPT ![NextId] = NewRow(v, job[h].ttl)]
  BY NextIdIsFree DEF GrantMint, Create, FreeIds
<1>8. \A u : HadToken(u, job[h].since) => HadToken(u, job[h].since)'
  BY <1>3, <1>5, <1>7, HadStays DEF TypeOK, TokOK
<1>9. \A u : u = v => HadToken(u, job[h].since)'
  <2> DEFINE row == NewRow(v, job[h].ttl)
  <2>1. row.user = v /\ row.revoked = FALSE /\ row.expires = now + job[h].ttl
    BY DEF NewRow
  <2>2. now + job[h].ttl > job[h].since
    BY <1>3
  <2>3. Active(row, job[h].since) /\ v # NoUser
    BY <1>6, <2>1, <2>2, TokensAssumption DEF Active
  <2> HIDE DEF row
  <2>4. tok'[NextId] = row
    BY <1>3, <1>7 DEF TypeOK, TokOK, row
  <2> QED BY <1>5, <1>7, <2>1, <2>3, <2>4 DEF HadToken
<1>10. \A u \in Users : flag'[u] => u \in job'[h].todo \/ HadToken(u, job[h].since)'
  <2>1. \A u \in Users : flag'[u] => flag[u] \/ u = v
    BY <1>3, <1>6 DEF TypeOK
  <2> QED BY <1>4, <1>5, <1>8, <1>9, <2>1
<1> QED BY <1>1, <1>3, <1>5, <1>10 DEF Converging, At

LEMMA AllowedNextConverges ==
  ASSUME StartupInv, NEW h \in Handlers, up = "starting", NEW v \in Users, AllowedNext(h, v)
  PROVE  job'[h] = NoJob \/ (~At(h, "idle")' /\ Converging(h)')
<1>1. job[h].pc = "allowed" /\ tok' = tok /\ flag' = flag /\ now' = now /\ v \in job[h].todo
  BY DEF AllowedNext, At, world
<1>2. ~At(h, "idle")
  BY <1>1 DEF At
<1>3. /\ TypeOK /\ job[h] \in Job /\ \A k : Set(h, k) => job'[h] = k
      /\ job[h].since \in Nat /\ job[h].since <= now /\ job[h].ttl > 0
  BY <1>2, ConvergingFacts
<1>4. \A u \in Users : flag[u] => u \in job[h].todo \/ HadToken(u, job[h].since)
  BY <1>1, <1>2, ConvergingFacts
<1>5. CASE Set(h, [job[h] EXCEPT !.pc = "grant", !.user = v, !.then = "allowed", !.todo = @ \ {v}])
  <2>1. /\ job'[h].pc = "grant" /\ job'[h].then = "allowed" /\ job'[h].user = v
        /\ job'[h].since = job[h].since /\ job'[h].ttl = job[h].ttl /\ job'[h].todo = job[h].todo \ {v}
    BY <1>3, <1>5 DEF Job
  <2>2. \A u : HadToken(u, job[h].since) => HadToken(u, job[h].since)'
    BY <1>1, <2>1, HadStays
  <2>3. \A u \in Users : flag'[u] => \/ u \in job'[h].todo \/ u = job'[h].user
                                     \/ HadToken(u, job[h].since)'
    BY <1>1, <1>4, <2>1, <2>2
  <2> QED BY <1>1, <1>3, <2>1, <2>3 DEF Converging, At
<1>6. CASE FindActiveForUser(v) # NoToken /\ Set(h, [job[h] EXCEPT !.todo = @ \ {v}])
  <2>1. /\ job'[h].pc = "allowed" /\ job'[h].since = job[h].since /\ job'[h].ttl = job[h].ttl
        /\ job'[h].todo = job[h].todo \ {v}
    BY <1>1, <1>3, <1>6 DEF Job
  <2>2. \A u : HadToken(u, job[h].since) => HadToken(u, job[h].since)'
    BY <1>1, <2>1, HadStays
  <2>3. HadToken(v, job[h].since)
    BY <1>3, <1>6, FindActiveFinds, ActiveWasGood
  <2>4. \A u \in Users : flag'[u] => u \in job'[h].todo \/ HadToken(u, job[h].since)'
    BY <1>1, <1>4, <2>1, <2>2, <2>3
  <2> QED BY <1>1, <1>3, <2>1, <2>4 DEF Converging, At
<1> QED BY <1>5, <1>6 DEF AllowedNext

LEMMA AllowedDoneConverges ==
  ASSUME StartupInv, NEW h \in Handlers, up = "starting", AllowedDone(h)
  PROVE  job'[h] = NoJob \/ (~At(h, "idle")' /\ Converging(h)')
<1> DEFINE holders == {u \in Users : ActiveTokens(u) # {}}
<1>1. job[h].pc = "allowed" /\ tok' = tok /\ flag' = flag /\ now' = now /\ job[h].todo = {}
  BY DEF AllowedDone, At, world
<1>2. ~At(h, "idle")
  BY <1>1 DEF At
<1>3. /\ TypeOK /\ job[h] \in Job /\ \A k : Set(h, k) => job'[h] = k
      /\ job[h].since \in Nat /\ job[h].since <= now /\ job[h].ttl > 0
  BY <1>2, ConvergingFacts
<1>4. \A u \in Users : flag[u] => HadToken(u, job[h].since)
  BY <1>1, <1>2, ConvergingFacts
<1>5. \A u \in holders : HadToken(u, job[h].since)
  BY <1>3, ActiveWasGood
<1>6. Doubtful \subseteq holders /\ Doubtful' = Doubtful
  BY <1>1, SameDoubt DEF Doubtful
<1>7. Set(h, [job[h] EXCEPT !.pc = "live", !.todo = holders])
  BY DEF AllowedDone
<1> HIDE DEF holders
<1>8. /\ job'[h].pc = "live" /\ job'[h].since = job[h].since /\ job'[h].ttl = job[h].ttl
      /\ job'[h].todo = holders
  BY <1>3, <1>7 DEF Job
<1>9. \A u : HadToken(u, job[h].since) => HadToken(u, job[h].since)'
  BY <1>1, <1>8, HadStays
<1>10. \A u \in Users : flag'[u] => HadToken(u, job[h].since)'
  BY <1>1, <1>4, <1>9
<1>11. \A u \in job'[h].todo : HadToken(u, job[h].since)'
  BY <1>5, <1>8, <1>9
<1> QED BY <1>1, <1>3, <1>6, <1>8, <1>10, <1>11 DEF Converging, At

LEMMA LiveNextConverges ==
  ASSUME StartupInv, NEW h \in Handlers, up = "starting", NEW v \in Users, LiveNext(h, v)
  PROVE  job'[h] = NoJob \/ (~At(h, "idle")' /\ Converging(h)')
<1>1. job[h].pc = "live" /\ tok' = tok /\ now' = now /\ v \in job[h].todo
  BY DEF LiveNext, At, world
<1>2. ~At(h, "idle")
  BY <1>1 DEF At
<1>3. /\ TypeOK /\ job[h] \in Job /\ \A k : Set(h, k) => job'[h] = k
      /\ job[h].since <= now /\ job[h].ttl > 0
  BY <1>2, ConvergingFacts
<1>4. /\ Doubtful \subseteq job[h].todo
      /\ \A u \in job[h].todo : HadToken(u, job[h].since)
      /\ \A u \in Users : flag[u] => HadToken(u, job[h].since)
  BY <1>1, <1>2, ConvergingFacts
<1>5. /\ job'[h].pc = "live" /\ job'[h].since = job[h].since /\ job'[h].ttl = job[h].ttl
      /\ job'[h].todo = job[h].todo \ {v}
  BY <1>1, <1>3 DEF LiveNext, Job
<1>6. \A u : HadToken(u, job[h].since) => HadToken(u, job[h].since)'
  BY <1>1, <1>5, HadStays
<1>7. Doubtful' \subseteq Doubtful \ {v}
  BY <1>1, <1>3, RaisedFlag DEF LiveNext, ActiveTokens, Active
<1>8. \A u \in Users : flag'[u] => flag[u] \/ u = v
  BY <1>3 DEF LiveNext, TypeOK
<1>9. \A u \in Users : flag'[u] => HadToken(u, job[h].since)'
  BY <1>1, <1>4, <1>6, <1>8
<1>10. \A u \in job'[h].todo : HadToken(u, job[h].since)'
  BY <1>4, <1>5, <1>6
<1>11. Doubtful' \subseteq job'[h].todo
  BY <1>4, <1>5, <1>7
<1> QED BY <1>1, <1>3, <1>5, <1>9, <1>10, <1>11 DEF Converging, At

LEMMA JobStepStartup ==
  ASSUME StartupInv, TypeOK', NEW h \in Handlers, JobStep(h) PROVE StartupInv'
<1>1. TypeOK /\ \A g \in Handlers : g # h => job'[g] = job[g]
  BY OthersStay DEF StartupInv
<1>2. /\ job[h].pc # "idle"
      /\ job'[h].pc = "idle" => job'[h] = NoJob
      /\ job'[h].pc \in {"allowed", "live"} \/ job'[h].then = "allowed" =>
           job[h].pc \in {"allowed", "live"} \/ job[h].then = "allowed"
      /\ up' = up \/ LiveDone(h)
  BY <1>1, StepShape
<1>3. up # "down"
  BY <1>2 DEF StartupInv, At
<1>4. CASE up = "serving"
  <2>1. job[h].pc \notin {"allowed", "live"} /\ job[h].then # "allowed"
    BY <1>4 DEF StartupInv, StartupPoint, At
  <2>2. up' = "serving"
    BY <1>2, <1>4, <2>1 DEF LiveDone, At
  <2> QED BY <1>1, <1>2, <1>4, <2>1, <2>2, StartsNoMore
<1>5. CASE up = "starting" /\ LiveDone(h)
  <2>1. job'[h] = NoJob /\ up' = "serving"
    BY <1>1, <1>5 DEF LiveDone, End, Set, TypeOK
  <2>2. \A g \in Handlers : g # h => At(g, "idle")
    BY <1>2, <1>5 DEF StartupInv, At
  <2>3. job'[h].pc = "idle" /\ job'[h].then = "idle"
    BY <2>1 DEF NoJob
  <2> QED BY <1>1, <2>1, <2>2, <2>3, StartsNoMore
<1>6. CASE up = "starting" /\ ~LiveDone(h)
  <2>1. up' = "starting" /\ ~At(h, "idle")
    BY <1>2, <1>6 DEF At
  <2>2. \/ job[h].pc \in {"allowed", "live"}
        \/ job[h].pc \in {"grant", "mint"} /\ job[h].then = "allowed"
    BY <1>6, <2>1, ConvergingFacts
  <2>3. job'[h] = NoJob \/ (~At(h, "idle")' /\ Converging(h)')
    <3>1. \/ GrantCheck(h) \/ GrantMint(h) \/ AllowedDone(h)
          \/ \E u \in Users : AllowedNext(h, u) \/ LiveNext(h, u)
      BY <1>6, <2>2 DEF JobStep, RevokeFind, RevokeDrop, EnsureFind, EnsureFlag, RotateFind, Permit,
         BulkNext, BulkDone, At
    <3> QED BY <1>6, <3>1, GrantCheckConverges, GrantMintConverges, AllowedDoneConverges,
               AllowedNextConverges, LiveNextConverges
  <2> QED BY <1>1, <1>6, <2>1, <2>3, StartsOn
<1>7. up \in {"down", "starting", "serving"}
  BY <1>1 DEF TypeOK
<1> QED BY <1>3, <1>4, <1>5, <1>6, <1>7

LEMMA BootStartup ==
  ASSUME StartupInv, TypeOK', NEW h \in Handlers, Boot(h) PROVE StartupInv'
<1>1. TypeOK /\ \A g \in Handlers : At(g, "idle") /\ job[g] = NoJob
  BY DEF StartupInv, Boot
<1>2. \A g \in Handlers : g # h => job'[g] = NoJob
  BY <1>1, OthersStay
<1>3. /\ job'[h].pc = "allowed" /\ job'[h].todo = {u \in Users : flag[u]} /\ job'[h].since = now
      /\ job'[h].ttl = AutoTtl
  BY <1>1 DEF Boot, Set, TypeOK, NoJob
<1>4. up' = "starting" /\ now' = now /\ flag' = flag /\ now \in Nat /\ AutoTtl > 0
  BY <1>1, TokensAssumption, AccessAssumption DEF Boot, TypeOK, Instants
<1>5. Converging(h)' /\ StartupPoint(h)'
  BY <1>3, <1>4 DEF Converging, StartupPoint, At
<1>6. ASSUME NEW g \in Handlers
      PROVE  /\ At(g, "idle")' => job'[g] = NoJob
             /\ StartupPoint(g)'
             /\ At(g, "idle")' \/ Converging(g)'
             /\ g = h \/ At(g, "idle")'
  <2>1. CASE g = h
    BY <1>3, <1>5, <2>1 DEF At
  <2>2. CASE g # h
    <3>1. job'[g] = NoJob
      BY <1>2, <2>2
    <3>2. job'[g].pc = "idle" /\ job'[g].then = "idle"
      BY <3>1 DEF NoJob
    <3> QED BY <3>1, <3>2 DEF At, StartupPoint
  <2> QED BY <2>1, <2>2
<1> QED BY <1>4, <1>6 DEF StartupInv

LEMMA NextStartup ==
  ASSUME StartupInv, [Next]_vars PROVE StartupInv'
<1>1. TypeOK /\ TypeOK'
  BY NextTypeOK DEF StartupInv
<1>2. CASE \E h \in Handlers : Boot(h)
  BY <1>1, <1>2, BootStartup
<1>3. CASE \E h \in Handlers : Request(h)
  <2>1. PICK h \in Handlers : Request(h)
    BY <1>3
  <2>2. \A g \in Handlers : g # h => job'[g] = job[g]
    BY <1>1, <2>1, OthersStay
  <2> QED BY <1>1, <2>1, <2>2, Begun, StartsNoMore
<1>4. CASE \E h \in Handlers : JobStep(h)
  BY <1>1, <1>4, JobStepStartup
<1>5. CASE \E h \in Handlers : Fails(h)
  <2>1. PICK h \in Handlers : Fails(h)
    BY <1>5
  <2>2. \A g \in Handlers : g # h => job'[g] = job[g]
    BY <1>1, <2>1, OthersStay
  <2>3. job'[h].then = "idle" /\ job'[h].pc \in {"idle", "bulkGrant", "bulkRevoke"}
    BY <1>1, <2>1, Thrown DEF Fails
  <2>4. job'[h].pc = "idle" => job'[h] = NoJob
    BY <1>1, <2>1, Landing DEF Fails
  <2>5. up \in {"starting", "serving"} /\ up' = "serving"
    <3>1. up # "down"
      BY <2>1 DEF StartupInv, Fails
    <3> QED BY <1>1, <2>1, <3>1 DEF Fails, TypeOK
  <2>6. up = "serving" \/ \A g \in Handlers : g # h => At(g, "idle")
    BY <2>1, <2>5 DEF StartupInv, Fails
  <2> QED BY <1>1, <2>2, <2>3, <2>4, <2>5, <2>6, StartsNoMore
<1>6. CASE Crash
  <2>1. up' = "down" /\ \A h \in Handlers : job'[h] = NoJob
    BY <1>6 DEF Crash
  <2>2. \A h \in Handlers : job'[h].pc = "idle" /\ job'[h].then = "idle"
    BY <2>1 DEF NoJob
  <2> QED BY <1>1, <2>1, <2>2 DEF StartupInv, StartupPoint, At
<1>7. CASE Tick
  <2>1. /\ now \in Nat /\ now' = now + 1
        /\ UNCHANGED <<tok, flag, active, decided, up, job, ops, crashes, fails>>
    BY <1>1, <1>7, TokensAssumption DEF Tick, TypeOK, Instants
  <2>2. Doubtful' \subseteq Doubtful
    BY <1>1, <1>7, <2>1, TickActive DEF Doubtful
  <2>3. ASSUME NEW h \in Handlers, Converging(h) PROVE Converging(h)'
    <3>1. job[h].since \in Nat /\ job'[h] = job[h]
      BY <1>1, <2>1 DEF TypeOK, Job
    <3>2. \A u : HadToken(u, job[h].since) => HadToken(u, job[h].since)'
      BY <2>1, <3>1, HadStays
    <3> QED BY <2>1, <2>2, <2>3, <3>1, <3>2 DEF Converging, At
  <2> QED BY <1>1, <2>1, <2>3 DEF StartupInv, StartupPoint, At
<1>8. CASE UNCHANGED vars
  <2>1. UNCHANGED <<tok, flag, now, up, job>>
    BY <1>8 DEF vars
  <2>2. Doubtful' = Doubtful
    BY <2>1, SameDoubt
  <2>3. ASSUME NEW h \in Handlers, Converging(h) PROVE Converging(h)'
    BY <2>1, <2>2, <2>3 DEF Converging, At, HadToken
  <2> QED BY <1>1, <2>1, <2>3 DEF StartupInv, StartupPoint, At
<1> QED BY <1>2, <1>3, <1>4, <1>5, <1>6, <1>7, <1>8 DEF Next

\* A startup that reaches its end has converged flags and tokens, however many
\* handlers the server runs, whatever the flags said when it began and however
\* often it crashed before: when the server begins to listen, an allowed user
\* has a token that was good when the startup began, and a user with a token is
\* allowed.
THEOREM StartupConverges == Spec => ReconcileConverges
<1>1. Init => StartupInv
  <2>1. SUFFICES ASSUME Init PROVE StartupInv
    OBVIOUS
  <2>2. up = "down" /\ \A h \in Handlers : job[h] = NoJob
    BY <2>1 DEF Init
  <2>3. \A h \in Handlers : job[h].pc = "idle" /\ job[h].then = "idle"
    BY <2>2 DEF NoJob
  <2> QED BY <2>1, <2>2, <2>3, InitTypeOK DEF StartupInv, StartupPoint, At
<1>2. StartupInv /\ [Next]_vars => StartupInv'
  BY NextStartup
<1>3. StartupInv => \A h \in Handlers : LiveDone(h) =>
        \A u \in Users :
          /\ flag[u] => \E t \in TokenIds : tok[t].user = u /\ Active(tok[t], job[h].since)
          /\ ActiveTokens(u) # {} => flag[u]
  <2>1. SUFFICES ASSUME StartupInv, NEW h \in Handlers, LiveDone(h), NEW u \in Users
                 PROVE  /\ flag[u] => HadToken(u, job[h].since)
                        /\ ActiveTokens(u) # {} => flag[u]
    BY DEF HadToken
  <2>2. job[h].pc = "live" /\ job[h].todo = {}
    BY <2>1 DEF LiveDone, At
  <2>3. up = "starting" /\ ~At(h, "idle")
    BY <2>1, <2>2 DEF StartupInv, StartupPoint, At
  <2>4. /\ Doubtful \subseteq job[h].todo
        /\ flag[u] => HadToken(u, job[h].since)
    BY <2>1, <2>2, <2>3, ConvergingFacts
  <2> QED BY <2>2, <2>4 DEF Doubtful
<1> QED BY <1>1, <1>2, <1>3, PTL DEF Spec, ReconcileConverges
=============================================================================
