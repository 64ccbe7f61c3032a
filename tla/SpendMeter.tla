---------------------------- MODULE SpendMeter ----------------------------
(***************************************************************************)
(* What the dollar budget of the LLM proxy promises, without the request   *)
(* handling that keeps the promise.  A token has a spend for the current   *)
(* period and a cap; a call slot takes hold of the meter while the spend   *)
(* is below the cap, and lets go of it either with a charge or without     *)
(* one.  Nothing reserves money for a call that is under way, so the meter *)
(* may pass its cap; how far is the property OvershootBounded.             *)
(*                                                                         *)
(* LlmProxyMetering, the handlers of the code, implements this module.     *)
(***************************************************************************)
EXTENDS Integers, FiniteSets

CONSTANTS
  Tokens,      \* the bearer tokens, one row of LlmProxyToken each
  Slots,       \* calls that can be under way at the same time
  Budgets,     \* the monthly budgets an administrator may set, in dollars
  InitialCaps, \* the caps a token may start with
  MaxCost,     \* the most one call can cost
  NoToken,     \* what a slot holds that holds no meter
  NoCap        \* the cap of a token without a budget (budget_usd is NULL)

\* What the proofs assume of the constants.  LlmProxyMetering gives them values
\* for which it holds (see LlmProxyMetering_proofs).
MeterAssumption ==
  /\ IsFiniteSet(Slots)
  /\ Budgets \subseteq Nat \ {0}
  /\ InitialCaps \subseteq Budgets \cup {NoCap}
  /\ MaxCost \in Nat
  /\ NoToken \notin Tokens
  /\ NoCap \notin Nat

VARIABLES
  spent, \* spent[t]: dollars charged to t in its current period
  cap,   \* cap[t]: the largest amount a budget has allowed t in this period
  holds  \* holds[s]: the token whose meter slot s holds, or NoToken

vars == <<spent, cap, holds>>

\* The slots that hold the meter of t: the calls that may still charge it.
Holders(t) == {s \in Slots : holds[s] = t}

Below(t) == cap[t] = NoCap \/ spent[t] < cap[t]

Init ==
  /\ spent = [t \in Tokens |-> 0]
  /\ cap \in [Tokens -> InitialCaps]
  /\ holds = [s \in Slots |-> NoToken]

\* A call passes the budget check.
Take(s, t) ==
  /\ holds[s] = NoToken
  /\ Below(t)
  /\ holds' = [holds EXCEPT ![s] = t]
  /\ UNCHANGED <<spent, cap>>

\* A call that is over is charged to its token.
Charge(s, c) ==
  /\ holds[s] # NoToken
  /\ spent' = [spent EXCEPT ![holds[s]] = @ + c]
  /\ holds' = [holds EXCEPT ![s] = NoToken]
  /\ UNCHANGED cap

\* Calls end without a charge: refused after all, hung up on, or lost.
Drop(S) ==
  /\ holds' = [s \in Slots |-> IF s \in S THEN NoToken ELSE holds[s]]
  /\ UNCHANGED <<spent, cap>>

\* A new month: the spend is forgotten and the current budget is the cap.
NewPeriod(t, b) ==
  /\ spent' = [spent EXCEPT ![t] = 0]
  /\ cap' = [cap EXCEPT ![t] = IF @ = NoCap THEN NoCap ELSE b]
  /\ UNCHANGED holds

\* The cap of t once budget b is set.  A token that had no budget may have
\* spent more than b already: that spend is not held against the budget.
Raised(t, b) ==
  IF cap[t] = NoCap
    THEN IF b > spent[t] THEN b ELSE spent[t] + 1
    ELSE IF b > cap[t] THEN b ELSE cap[t]

\* A budget is given to all tokens of T, in one statement.
Raise(T, b) ==
  /\ cap' = [t \in Tokens |-> IF t \in T THEN Raised(t, b) ELSE cap[t]]
  /\ UNCHANGED <<spent, holds>>

Next ==
  \/ \E s \in Slots, t \in Tokens : Take(s, t)
  \/ \E s \in Slots, c \in 0..MaxCost : Charge(s, c)
  \/ \E S \in SUBSET Slots : Drop(S)
  \/ \E t \in Tokens, b \in Budgets : NewPeriod(t, b)
  \/ \E T \in SUBSET Tokens, b \in Budgets : Raise(T, b)

Spec == Init /\ [][Next]_vars

----------------------------------------------------------------------------

TypeOK ==
  /\ spent \in [Tokens -> Nat]
  /\ cap \in [Tokens -> (Nat \ {0}) \cup {NoCap}]
  /\ holds \in [Slots -> Tokens \cup {NoToken}]

\* The spend of a budgeted token stays below its cap plus the cost of one
\* call per slot: the check in assertUsable reads a spend that the calls
\* already under way have not been charged to yet, and no more than that.
OvershootBounded ==
  \A t \in Tokens :
    cap[t] # NoCap => spent[t] < cap[t] + MaxCost * Cardinality(Slots)

\* What makes it inductive: past the cap, every call still under way has its
\* share of the overshoot left.
OvershootReserved ==
  \A t \in Tokens :
    cap[t] # NoCap =>
      \/ spent[t] < cap[t]
      \/ spent[t] + MaxCost * Cardinality(Holders(t))
           < cap[t] + MaxCost * Cardinality(Slots)

IInv == TypeOK /\ OvershootReserved
============================================================================
