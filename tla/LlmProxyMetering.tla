------------------------- MODULE LlmProxyMetering -------------------------
(***************************************************************************)
(* A proxied LLM call from its bearer token to its accounting:             *)
(* LlmProxyTokenService.validate / assertUsable / rollPeriodIfNeeded, the  *)
(* forwarder's fetch and its outcomes, recordUsage, the administrator's    *)
(* budget changes and the job that prunes the request log.                 *)
(*                                                                         *)
(* A call is a record in req: pc says which statement of the handler comes *)
(* next, snap is the row as the handler last read it.  Handlers interleave *)
(* at every await; a statement or a $transaction is one step.              *)
(***************************************************************************)
EXTENDS LlmProxyTokens, FiniteSetsExt

CONSTANTS
  Requests,       \* calls that can be under way at the same time
  Admins,         \* budget changes that can be under way at the same time
  GrantBudgets,   \* budgets the tokens were granted with
  LegacyRows,     \* whether tokens from before there were budgets exist
  DefaultBudget,  \* LLM_PROXY_DEFAULT_BUDGET_USD
  MaxCost,        \* the most one call costs
  TokenCounts,    \* tokens one call uses
  TokenLimit,     \* token_limit of the tokens
  Retention,      \* RETENTION_DAYS, in ticks
  Expiries,       \* expires_at the tokens may have
  MaxCalls,       \* bound: calls begun
  MaxEdits        \* bound: budget changes begun

\* The 90 days of the request log outlast a month.
ASSUME MeteringAssumption ==
  /\ GrantBudgets \subseteq Budgets
  /\ LegacyRows \in BOOLEAN
  /\ DefaultBudget \in Budgets
  /\ MaxCost \in Nat
  /\ TokenCounts \subseteq Nat
  /\ TokenLimit \in Nat
  /\ Expiries \subseteq Nat
  /\ MaxCalls \in Nat /\ MaxEdits \in Nat
  /\ Retention \in Nat /\ Retention >= MonthLength
  /\ IsFiniteSet(Requests)

\* budget_usd of a token at the start.
InitialBudgets == GrantBudgets \cup (IF LegacyRows THEN {NoBudget} ELSE {})

VARIABLES
  req,   \* the calls
  log,   \* log[t][d]: cost of the LlmProxyRequest rows of t with ts = d
  adm,   \* the budget changes
  \* Auxiliary: history that the code does not keep.
  cap,   \* the largest budget of a token in its current period
  calls, \* calls begun
  edits  \* budget changes begun

reqVars  == <<req, calls>>
admVars  == <<adm, edits>>
vars == <<tok, now, req, log, adm, cap, calls, edits>>

CallPoints == {"idle", "looked", "roll", "reread", "reloaded", "upstream", "record"}

NoCall == [pc |-> "idle", token |-> NoToken, snap |-> EmptyRow, start |-> 0,
           cost |-> 0, used |-> 0]
NoEdit == [pc |-> "idle", token |-> NoToken, to |-> NoBudget]

----------------------------------------------------------------------------
(* The check before a call is forwarded *)

\* Call r goes from pc to pc2.
Advance(r, pc, pc2) == req[r].pc = pc /\ req' = [req EXCEPT ![r].pc = pc2]

\* Call r is over for the server.
End(r) == req' = [req EXCEPT ![r] = NoCall]

\* Neither revoked nor expired: the first half of assertUsable.
Usable(row) == ~row.revoked /\ row.expires >= now

\* Mutant: a spend that has reached the budget still passes.
WithinBudgetOrAt(row) ==
  IF row.budget # NoBudget THEN row.spent <= row.budget ELSE row.used < row.limit

\* The row lets a call pass: below its budget, or below the token quota while
\* it has no budget.
WithinBudget(row) ==
  IF row.budget # NoBudget THEN row.spent < row.budget ELSE row.used < row.limit

\* Admitted or refused, on a row of the current period.
Decide(r, row) ==
  IF WithinBudget(row)
    THEN req' = [req EXCEPT ![r].pc = "upstream"]
    ELSE End(r)

\* validate: findByHash.
Lookup(r, t) ==
  /\ req[r].pc = "idle"
  /\ calls < MaxCalls
  /\ Exists(t)
  /\ req' = [req EXCEPT ![r] = [NoCall EXCEPT !.pc = "looked", !.token = t, !.snap = tok[t]]]
  /\ calls' = calls + 1
  /\ UNCHANGED <<tok, now, log, cap, admVars>>

\* assertUsable up to its first await: the row as it was read, the clock as it
\* is now.
CheckUsable(r) ==
  LET row == req[r].snap
      start == UtcMonthStart(now)
  IN  /\ req[r].pc = "looked"
      /\ \/ /\ ~Usable(row)
            /\ End(r)
         \/ /\ Usable(row) /\ row.period >= start
            /\ Decide(r, row)
         \/ /\ Usable(row) /\ row.period < start
            /\ req' = [req EXCEPT ![r].pc = "roll", ![r].start = start]
      /\ UNCHANGED <<tok, now, log, cap, calls, admVars>>

\* rollPeriod's guarded updateMany.
Roll(r) ==
  LET t == req[r].token
  IN  /\ Advance(r, "roll", "reread")
      /\ RollPeriod(t, req[r].start)
      /\ cap' = IF NeedsRoll(t, req[r].start) THEN [cap EXCEPT ![t] = tok[t].budget] ELSE cap
      /\ UNCHANGED <<now, log, calls, admVars>>

\* Mutant: the row from before the roll is kept.
RereadNothing(r) ==
  /\ Advance(r, "reread", "reloaded")
  /\ UNCHANGED <<tok, now, log, cap, calls, admVars>>

\* rollPeriod's findUnique.
Reread(r) ==
  /\ req[r].pc = "reread"
  /\ req' = [req EXCEPT ![r].pc = "reloaded", ![r].snap = tok[req[r].token]]
  /\ UNCHANGED <<tok, now, log, cap, calls, admVars>>

\* The rest of assertUsable.
CheckBudget(r) ==
  /\ req[r].pc = "reloaded"
  /\ Decide(r, req[r].snap)
  /\ UNCHANGED <<tok, now, log, cap, calls, admVars>>

----------------------------------------------------------------------------
(* The forwarder *)

\* onUsage: the report is handed to recordUsage, which nobody waits for.
Report(r, cost, used) ==
  req' = [req EXCEPT ![r].pc = "record", ![r].cost = cost, ![r].used = used]

\* The upstream answered, with whatever status, as JSON or as a stream to its
\* end; or the stream broke or its client left, and what had been collected of
\* the usage is reported.
UpstreamAnswers(r, cost, used) ==
  /\ req[r].pc = "upstream"
  /\ Report(r, cost, used)
  /\ UNCHANGED <<tok, now, log, cap, calls, admVars>>

\* fetch rejected: 502, and a report of a call that used nothing.
FetchFails(r) ==
  /\ req[r].pc = "upstream"
  /\ Report(r, 0, 0)
  /\ UNCHANGED <<tok, now, log, cap, calls, admVars>>

\* The client hung up before the upstream's headers arrived: fetch rejects with
\* AbortError and forward returns.
FetchAborted(r) ==
  /\ req[r].pc = "upstream"
  /\ End(r)
  /\ UNCHANGED <<tok, now, log, cap, calls, admVars>>

\* The process ends: whatever was under way is lost.
ProcessExit ==
  /\ req' = [r \in Requests |-> NoCall]
  /\ adm' = [a \in Admins |-> NoEdit]
  /\ UNCHANGED <<tok, now, log, cap, calls, edits>>

\* The body of a JSON answer could not be read to its end (its client hung up,
\* or the connection broke).  Nothing catches the rejection of text(): the
\* route's handler rejects, which Express 4 leaves unhandled, and an unhandled
\* rejection ends a Node process.
BodyReadFails(r) == req[r].pc = "upstream" /\ ProcessExit

\* recordUsage: counters and a request row, in one transaction.
RecordUsage(r) ==
  LET t == req[r].token
  IN  /\ req[r].pc = "record"
      /\ RecordUse(t, req[r].cost, req[r].used)
      /\ log' = [log EXCEPT ![t][now] = @ + req[r].cost]
      /\ End(r)
      /\ UNCHANGED <<now, cap, calls, admVars>>

\* recordUsage's transaction failed: the error is logged and swallowed.
RecordFails(r) ==
  /\ req[r].pc = "record"
  /\ End(r)
  /\ UNCHANGED <<tok, now, log, cap, calls, admVars>>

----------------------------------------------------------------------------
(* Budget administration *)

\* The cap of t when its budget becomes b (SpendMeter!Raised).
CapWith(t, b) ==
  IF cap[t] = NoBudget
    THEN IF b > tok[t].spent THEN b ELSE tok[t].spent + 1
    ELSE IF b > cap[t] THEN b ELSE cap[t]

\* setBudget: findById, outside the transaction.
ReadBudget(a, t, b) ==
  /\ adm[a].pc = "idle"
  /\ edits < MaxEdits
  /\ Exists(t)
  /\ adm' = [adm EXCEPT ![a] = [pc |-> "read", token |-> t, to |-> b]]
  /\ edits' = edits + 1
  /\ UNCHANGED <<tok, now, req, log, cap, calls>>

\* setBudget: the transaction (the audit event it writes is not modelled).
WriteBudget(a) ==
  LET t == adm[a].token
      b == adm[a].to
  IN  /\ adm[a].pc = "read"
      /\ SetBudget(t, b)
      /\ cap' = [cap EXCEPT ![t] = CapWith(t, b)]
      /\ adm' = [adm EXCEPT ![a] = NoEdit]
      /\ UNCHANGED <<now, req, log, calls, edits>>

\* backfillDefaultBudget.
Backfill ==
  /\ Unbudgeted # {}
  /\ BackfillBudget(DefaultBudget)
  /\ cap' = [t \in TokenIds |-> IF t \in Unbudgeted THEN CapWith(t, DefaultBudget) ELSE cap[t]]
  /\ UNCHANGED <<now, reqVars, log, admVars>>

----------------------------------------------------------------------------
(* Environment *)

\* A token is revoked (setRevokedAt in the transaction of revoke).
Revoke(t) ==
  /\ Exists(t) /\ ~tok[t].revoked
  /\ SetRevokedAt(t)
  /\ UNCHANGED <<now, reqVars, log, cap, admVars>>

\* Mutant: the retention is lost in a conversion of units.
RetentionCutoffNow == now

\* LlmProxyRequestPruneJob: request rows older than the retention go.
RetentionCutoff == now - Retention

Prune ==
  /\ log' = [t \in TokenIds |-> [d \in Instants |-> IF d < RetentionCutoff THEN 0 ELSE log[t][d]]]
  /\ UNCHANGED <<tok, now, reqVars, cap, admVars>>

Tick ==
  /\ now < MaxNow
  /\ now' = now + 1
  /\ UNCHANGED <<tok, reqVars, log, cap, admVars>>

----------------------------------------------------------------------------

\* Tokens granted at instant 0, or before there were budgets.
GrantedRow(b, e, u) ==
  [user |-> u, expires |-> e, revoked |-> FALSE, plain |-> TRUE, budget |-> b,
   spent |-> 0, total |-> 0, used |-> 0, limit |-> TokenLimit,
   period |-> IF b = NoBudget THEN NoPeriod ELSE 0]

Init ==
  /\ tok \in [TokenIds -> {GrantedRow(b, e, u) : b \in InitialBudgets, e \in Expiries, u \in Users}]
  /\ now = 0
  /\ req = [r \in Requests |-> NoCall]
  /\ log = [t \in TokenIds |-> [d \in Instants |-> 0]]
  /\ adm = [a \in Admins |-> NoEdit]
  /\ cap = [t \in TokenIds |-> tok[t].budget]
  /\ calls = 0
  /\ edits = 0

\* The steps a call takes once it has begun.
CallStep(r) ==
  \/ CheckUsable(r)
  \/ Roll(r)
  \/ Reread(r)
  \/ CheckBudget(r)
  \/ \E c \in 0..MaxCost, n \in TokenCounts : UpstreamAnswers(r, c, n)
  \/ FetchFails(r)
  \/ FetchAborted(r)
  \/ BodyReadFails(r)
  \/ RecordUsage(r)
  \/ RecordFails(r)

Next ==
  \/ \E r \in Requests, t \in TokenIds : Lookup(r, t)
  \/ \E r \in Requests : CallStep(r)
  \/ \E a \in Admins, t \in TokenIds, b \in Budgets : ReadBudget(a, t, b)
  \/ \E a \in Admins : WriteBudget(a)
  \/ Backfill
  \/ \E t \in TokenIds : Revoke(t)
  \/ Prune
  \/ Tick
  \/ ProcessExit

Spec == Init /\ [][Next]_vars

----------------------------------------------------------------------------
(* Properties *)

Call == [pc : CallPoints, token : TokenIds \cup {NoToken}, snap : Row, start : Nat,
         cost : 0..MaxCost, used : Nat]
Edit == [pc : {"idle", "read"}, token : TokenIds \cup {NoToken}, to : Budgets \cup {NoBudget}]

TypeOK ==
  /\ TokOK
  /\ now \in Instants
  /\ req \in [Requests -> Call]
  /\ \A r \in Requests : req[r].pc # "idle" => req[r].token \in TokenIds
  /\ log \in [TokenIds -> [Instants -> Nat]]
  /\ adm \in [Admins -> Edit]
  /\ \A a \in Admins : adm[a].pc = "read" => adm[a].token \in TokenIds /\ adm[a].to \in Budgets
  /\ cap \in [TokenIds -> Nat \cup {NoBudget}]
  /\ calls \in Nat /\ edits \in Nat

\* A call holds the meter of its token from the read that finds the token
\* within its budget until its cost is recorded or it is over.
Holds(r) ==
  \/ req[r].pc \in {"upstream", "record"}
  \/ req[r].pc \in {"looked", "reloaded"} /\ WithinBudget(req[r].snap)

Spending == [t \in TokenIds |-> tok[t].spent]
Holding  == [r \in Requests |-> IF Holds(r) THEN req[r].token ELSE NoToken]

Meter == INSTANCE SpendMeter WITH
  Tokens <- TokenIds,
  Slots <- Requests,
  InitialCaps <- InitialBudgets,
  NoCap <- NoBudget,
  spent <- Spending,
  holds <- Holding

\* The handlers implement the abstract meter: a call is admitted on a row that
\* was within its budget at some moment since it arrived, in the period it is
\* checked against, and is charged at most once.
MeterSpec == Meter!Spec

\* However calls interleave with each other, with a new month and with changes
\* of the budget, spent_usd stays below the largest budget of the period plus
\* the cost of one call per concurrent request.
BudgetOvershootBounded ==
  \A t \in TokenIds :
    cap[t] # NoBudget => tok[t].spent < cap[t] + MaxCost * Cardinality(Requests)

\* The cap is a budget the token has had: it is never below the current one.
BudgetWithinCap ==
  \A t \in TokenIds :
    /\ (cap[t] = NoBudget) <=> (tok[t].budget = NoBudget)
    /\ tok[t].budget <= cap[t]

IInv == TypeOK /\ BudgetWithinCap

\* rollPeriod's comment: concurrent first calls of a month roll once.  The spend
\* of a period is erased by the start of a later one and by nothing else, and
\* period_start never goes back.
SpendErasedOnlyByNewPeriod ==
  [][\A t \in TokenIds :
       /\ tok'[t].period >= tok[t].period
       /\ tok'[t].spent < tok[t].spent => tok'[t].period > tok[t].period]_vars

\* A call is refused with 429 only on a row that has been rolled to the month
\* the call was checked in: never for what an earlier month spent.
RefusedInCurrentPeriod ==
  [][\A r \in Requests : req'[r].pc = "idle" =>
       /\ CheckUsable(r) /\ Usable(req[r].snap) => req[r].snap.period >= UtcMonthStart(now)
       /\ CheckBudget(r) => req[r].snap.period >= req[r].start]_vars

\* budgetSummary's spentUsd.
ReportedSpend(t) == IF tok[t].period < UtcMonthStart(now) THEN 0 ELSE tok[t].spent

\* What the request log says t spent from instant d on.
LoggedSince(t, d) ==
  MapThenSumSet(LAMBDA i : log[t][i], {i \in Instants : i >= d})

\* The spend shown to students and admins is backed by the request log,
\* however often the log was pruned.
ReportedSpendIsLogged ==
  \A t \in TokenIds : ReportedSpend(t) <= LoggedSince(t, UtcMonthStart(now))

\* The prune job's comment: the per-period spend can be recomputed from the
\* request log.
SpendRecomputable ==
  \A t \in TokenIds :
    tok[t].period = UtcMonthStart(now) =>
      tok[t].spent = LoggedSince(t, tok[t].period)

\* The running totals keep the dollars after the rows are gone.
TotalsCoverLog ==
  \A t \in TokenIds : tok[t].spent <= tok[t].total /\ LoggedSince(t, 0) <= tok[t].total
============================================================================
