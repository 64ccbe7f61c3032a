-------------------------- MODULE LlmProxyTokens --------------------------
(***************************************************************************)
(* The LlmProxyToken table and the clock: the state that the handlers of   *)
(* the LLM proxy share, and the repository's operations on it.  Each       *)
(* operation is one SQL statement and therefore one step of whoever calls  *)
(* it; what a handler reads with one statement may be stale by the next.   *)
(*                                                                         *)
(* Money is in whole units, time in ticks; a month is MonthLength ticks.   *)
(***************************************************************************)
EXTENDS Integers, FiniteSets

CONSTANTS
  Users,       \* rows of User
  NoUser,      \* owner of an id that no row has yet
  MaxTokenId,  \* bound: rows that can be inserted
  MaxNow,      \* bound: the last instant
  MonthLength, \* ticks of a month
  Budgets      \* values isValidBudgetUsd accepts

TokenIds == 1..MaxTokenId
Instants == 0..MaxNow

\* SQL NULL in budget_usd and in period_start, and a find that found no row.
NoBudget == -1
NoPeriod == -1
NoToken  == 0

ASSUME TokensAssumption ==
  /\ MaxTokenId \in Nat
  /\ MaxNow \in Nat
  /\ MonthLength \in Nat \ {0}
  /\ Budgets \subseteq Nat \ {0}
  /\ NoUser \notin Users

VARIABLES
  tok, \* tok[t]: the row with id t
  now  \* the current instant

Row == [user    : Users \cup {NoUser},
        expires : Nat,       \* expires_at
        revoked : BOOLEAN,   \* revoked_at is set
        plain   : BOOLEAN,   \* token_plaintext is stored
        budget  : Nat \cup {NoBudget},
        spent   : Nat,       \* spent_usd, in the period that began at period
        total   : Nat,       \* spent_usd_total
        used    : Nat,       \* tokens_used
        limit   : Nat,       \* token_limit
        period  : Nat \cup {NoPeriod}]

\* The table holds rows, with budgets that isValidBudgetUsd accepted.
TokOK ==
  /\ tok \in [TokenIds -> Row]
  /\ \A t \in TokenIds : tok[t].budget \in Budgets \cup {NoBudget}

EmptyRow == [user |-> NoUser, expires |-> 0, revoked |-> FALSE, plain |-> FALSE,
             budget |-> NoBudget, spent |-> 0, total |-> 0, used |-> 0,
             limit |-> 0, period |-> NoPeriod]

Exists(t) == tok[t].user # NoUser

\* First instant of the month containing d.
UtcMonthStart(d) == (d \div MonthLength) * MonthLength

----------------------------------------------------------------------------
(* Reads *)

Active(row, at) == row.user # NoUser /\ ~row.revoked /\ row.expires > at

ActiveTokens(u) == {t \in TokenIds : tok[t].user = u /\ Active(tok[t], now)}

\* The newest active token of u (granted_at descending: ids grow with it).
FindActiveForUser(u) ==
  IF ActiveTokens(u) = {}
    THEN NoToken
    ELSE CHOOSE t \in ActiveTokens(u) : \A s \in ActiveTokens(u) : s <= t

----------------------------------------------------------------------------
(* Writes *)

FreeIds == {t \in TokenIds : ~Exists(t)}

\* The id autoincrement gives the next row.
NextId == CHOOSE t \in FreeIds : \A s \in FreeIds : t <= s

Create(row) == tok' = [tok EXCEPT ![NextId] = row]

SetRevokedAt(t) == tok' = [tok EXCEPT ![t].revoked = TRUE]

\* Mutants: the use is counted down, counted twice, left out of the total.
RecordUseDown(t, cost, tokens) ==
  tok' = [tok EXCEPT ![t].used = @ - tokens, ![t].spent = @ - cost, ![t].total = @ - cost]
RecordUseTwice(t, cost, tokens) ==
  tok' = [tok EXCEPT ![t].used = @ + 2 * tokens, ![t].spent = @ + 2 * cost, ![t].total = @ + 2 * cost]
RecordUseUntotalled(t, cost, tokens) ==
  tok' = [tok EXCEPT ![t].used = @ + tokens, ![t].spent = @ + cost]

\* Atomic increments by what one call used.
RecordUse(t, cost, tokens) ==
  tok' = [tok EXCEPT ![t].used = @ + tokens, ![t].spent = @ + cost, ![t].total = @ + cost]

\* Mutant: the updateMany matches on the id alone.
NeedsRollAlways(t, start) == TRUE

\* Whether rollPeriod's updateMany matches the row: period_start is null or
\* before start.
NeedsRoll(t, start) == tok[t].period < start

RollPeriod(t, start) ==
  tok' = IF NeedsRoll(t, start)
           THEN [tok EXCEPT ![t].spent = 0, ![t].period = start]
           ELSE tok

SetBudget(t, b) == tok' = [tok EXCEPT ![t].budget = b]

Unbudgeted == {t \in TokenIds : Exists(t) /\ tok[t].budget = NoBudget}

BackfillBudget(b) ==
  tok' = [t \in TokenIds |->
            IF t \in Unbudgeted THEN [tok[t] EXCEPT !.budget = b] ELSE tok[t]]
============================================================================
