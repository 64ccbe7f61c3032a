---------------------- MODULE LlmProxyMetering_proofs ----------------------
(***************************************************************************)
(* The handlers of LlmProxyMetering keep their tables well typed and       *)
(* implement the abstract meter, for any number of tokens, calls and       *)
(* administrators and any budgets and prices; the bound on the overshoot   *)
(* that SpendMeter_proofs establishes for the meter is theirs too.         *)
(***************************************************************************)
EXTENDS LlmProxyMetering, FiniteSetTheorems, WellFoundedInduction, TLAPS

----------------------------------------------------------------------------
(* What the statements on the token table preserve *)

LEMMA MonthStartIsNat ==
  ASSUME NEW d \in Nat
  PROVE  UtcMonthStart(d) \in Nat
<1>1. MonthLength \in Nat /\ MonthLength > 0
  BY TokensAssumption
<1>2. d \div MonthLength \in Nat
  BY <1>1
<1>3. ASSUME NEW a \in Nat, NEW b \in Nat PROVE a * b \in Nat
  BY Z3
<1> QED BY <1>1, <1>2, <1>3 DEF UtcMonthStart

LEMMA SetRevokedAtKeeps ==
  ASSUME TokOK, NEW t \in TokenIds, SetRevokedAt(t)
  PROVE  TokOK'
<1>1. [tok[t] EXCEPT !.revoked = TRUE] \in Row
  BY DEF Row, TokOK
<1> QED BY <1>1 DEF SetRevokedAt, TokOK

LEMMA RecordUseKeeps ==
  ASSUME TokOK, NEW t \in TokenIds, NEW c \in Nat, NEW n \in Nat, RecordUse(t, c, n)
  PROVE  TokOK'
<1> DEFINE row == [tok[t] EXCEPT !.used = tok[t].used + n, !.spent = tok[t].spent + c,
                              !.total = tok[t].total + c]
<1>1. tok[t] \in Row
  BY DEF TokOK
<1>2. tok[t].used + n \in Nat /\ tok[t].spent + c \in Nat /\ tok[t].total + c \in Nat
  BY <1>1 DEF Row
<1>3. row \in Row /\ row.budget = tok[t].budget
  BY <1>1, <1>2 DEF Row
<1>4. tok' = [tok EXCEPT ![t] = row]
  BY <1>1 DEF RecordUse, TokOK, Row
<1> HIDE DEF row
<1> QED BY <1>3, <1>4 DEF TokOK

\* The spend and the period of every row after RecordUse.
LEMMA RecordUseAdds ==
  ASSUME TokOK, NEW t \in TokenIds, NEW c \in Nat, NEW n \in Nat, RecordUse(t, c, n)
  PROVE  /\ tok'[t].spent = tok[t].spent + c /\ tok'[t].period = tok[t].period
         /\ \A d \in TokenIds \ {t} : tok'[d] = tok[d]
<1> DEFINE row == [tok[t] EXCEPT !.used = tok[t].used + n, !.spent = tok[t].spent + c,
                              !.total = tok[t].total + c]
<1>1. tok[t] \in Row
  BY DEF TokOK
<1>2. row.spent = tok[t].spent + c /\ row.period = tok[t].period
  BY <1>1 DEF Row
<1>3. tok' = [tok EXCEPT ![t] = row]
  BY <1>1 DEF RecordUse, TokOK, Row
<1> HIDE DEF row
<1> QED BY <1>2, <1>3 DEF TokOK

LEMMA RollPeriodKeeps ==
  ASSUME TokOK, NEW t \in TokenIds, NEW s \in Nat, RollPeriod(t, s)
  PROVE  TokOK'
<1> DEFINE row == [tok[t] EXCEPT !.spent = 0, !.period = s]
<1>1. row \in Row /\ row.budget = tok[t].budget
  BY DEF TokOK, Row
<1>2. tok' = [tok EXCEPT ![t] = row] \/ tok' = tok
  BY DEF RollPeriod
<1> HIDE DEF row
<1> QED BY <1>1, <1>2 DEF TokOK

LEMMA SetBudgetKeeps ==
  ASSUME TokOK, NEW t \in TokenIds, NEW b \in Budgets, SetBudget(t, b)
  PROVE  TokOK'
<1> DEFINE row == [tok[t] EXCEPT !.budget = b]
<1>1. row \in Row /\ row.budget = b
  BY TokensAssumption DEF TokOK, Row
<1>2. tok' = [tok EXCEPT ![t] = row]
  BY DEF SetBudget
<1> HIDE DEF row
<1> QED BY <1>1, <1>2 DEF TokOK

LEMMA BackfillBudgetKeeps ==
  ASSUME TokOK, NEW b \in Budgets, BackfillBudget(b)
  PROVE  TokOK'
<1> DEFINE row(t) == [tok[t] EXCEPT !.budget = b]
<1>1. \A t \in TokenIds : row(t) \in Row /\ row(t).budget = b
  BY TokensAssumption DEF TokOK, Row
<1>2. tok' = [t \in TokenIds |-> IF t \in Unbudgeted THEN row(t) ELSE tok[t]]
  BY DEF BackfillBudget
<1> HIDE DEF row
<1> QED BY <1>1, <1>2 DEF TokOK

----------------------------------------------------------------------------
(* The calls and the budget changes *)

\* The calls after a step of one of them.
LEMMA CallsStayTyped ==
  ASSUME TypeOK, NEW r \in Requests, NEW c \in Call,
         req' = [req EXCEPT ![r] = c], c.pc # "idle" => c.token \in TokenIds
  PROVE  /\ req' \in [Requests -> Call]
         /\ \A q \in Requests : req'[q].pc # "idle" => req'[q].token \in TokenIds
BY DEF TypeOK

LEMMA IdleRecords == NoCall \in Call /\ NoEdit \in Edit
<1>1. EmptyRow \in Row
  BY DEF EmptyRow, Row
<1>2. 0 \in 0..MaxCost
  BY MeteringAssumption
<1> QED BY <1>1, <1>2 DEF NoCall, NoEdit, Call, Edit, CallPoints

LEMMA EndKeepsCalls ==
  ASSUME TypeOK, NEW r \in Requests, End(r)
  PROVE  /\ req' \in [Requests -> Call]
         /\ \A q \in Requests : req'[q].pc # "idle" => req'[q].token \in TokenIds
<1>1. req' = [req EXCEPT ![r] = NoCall]
  BY DEF End
<1>2. NoCall \in Call /\ (NoCall.pc # "idle" => NoCall.token \in TokenIds)
  BY IdleRecords DEF NoCall
<1> HIDE DEF NoCall
<1> QED BY <1>1, <1>2, CallsStayTyped

LEMMA AdvanceKeepsCalls ==
  ASSUME TypeOK, NEW r \in Requests, NEW pc \in CallPoints, req[r].pc # "idle",
         req' = [req EXCEPT ![r].pc = pc]
  PROVE  /\ req' \in [Requests -> Call]
         /\ \A q \in Requests : req'[q].pc # "idle" => req'[q].token \in TokenIds
<1> DEFINE c == [req[r] EXCEPT !.pc = pc]
<1>1. req[r] \in Call /\ req[r].token \in TokenIds
  BY DEF TypeOK
<1>2. c \in Call /\ c.token \in TokenIds
  BY <1>1 DEF Call
<1>3. req' = [req EXCEPT ![r] = c]
  OBVIOUS
<1> HIDE DEF c
<1> QED BY <1>2, <1>3, CallsStayTyped

LEMMA DecideKeepsCalls ==
  ASSUME TypeOK, NEW r \in Requests, NEW row, req[r].pc # "idle", Decide(r, row)
  PROVE  /\ req' \in [Requests -> Call]
         /\ \A q \in Requests : req'[q].pc # "idle" => req'[q].token \in TokenIds
<1>1. CASE End(r)
  BY <1>1, EndKeepsCalls
<1>2. CASE req' = [req EXCEPT ![r].pc = "upstream"]
  BY <1>2, AdvanceKeepsCalls DEF CallPoints
<1> QED BY <1>1, <1>2 DEF Decide

LEMMA ReportKeepsCalls ==
  ASSUME TypeOK, NEW r \in Requests, NEW cost \in 0..MaxCost, NEW used \in Nat,
         req[r].pc # "idle", Report(r, cost, used)
  PROVE  /\ req' \in [Requests -> Call]
         /\ \A q \in Requests : req'[q].pc # "idle" => req'[q].token \in TokenIds
<1> DEFINE c == [req[r] EXCEPT !.pc = "record", !.cost = cost, !.used = used]
<1>1. req \in [Requests -> Call] /\ req[r].token \in TokenIds
  BY DEF TypeOK
<1>2. c \in Call /\ c.token \in TokenIds
  <2>1. "record" \in CallPoints
    BY DEF CallPoints
  <2> QED BY <1>1, <2>1 DEF Call
<1>3. req' = [req EXCEPT ![r] = c]
  BY <1>1 DEF Report, Call
<1> HIDE DEF c
<1> QED BY <1>2, <1>3, CallsStayTyped

LEMMA InitTyped == Init => TypeOK
<1> SUFFICES ASSUME Init PROVE TypeOK
  OBVIOUS
<1>1. TokOK
  <2>1. \A b \in InitialBudgets, e \in Expiries, u \in Users :
          GrantedRow(b, e, u) \in Row /\ GrantedRow(b, e, u).budget = b
    <3> SUFFICES ASSUME NEW b \in InitialBudgets, NEW e \in Expiries, NEW u \in Users
                 PROVE  GrantedRow(b, e, u) \in Row /\ GrantedRow(b, e, u).budget = b
      OBVIOUS
    <3>1. b \in Nat \cup {NoBudget} /\ e \in Nat /\ TokenLimit \in Nat
      BY TokensAssumption, MeteringAssumption DEF InitialBudgets
    <3>2. (IF b = NoBudget THEN NoPeriod ELSE 0) \in Nat \cup {NoPeriod}
      OBVIOUS
    <3> QED BY <3>1, <3>2 DEF GrantedRow, Row
  <2>2. \A t \in TokenIds : \E b \in InitialBudgets, e \in Expiries, u \in Users :
          tok[t] = GrantedRow(b, e, u)
    BY DEF Init
  <2>3. InitialBudgets \subseteq Budgets \cup {NoBudget}
    BY MeteringAssumption DEF InitialBudgets
  <2>4. \A t \in TokenIds : tok[t] \in Row /\ tok[t].budget \in Budgets \cup {NoBudget}
    BY <2>1, <2>2, <2>3
  <2>5. tok = [t \in TokenIds |-> tok[t]]
    BY DEF Init
  <2> QED BY <2>4, <2>5 DEF TokOK
<1>2. now \in Instants /\ calls \in Nat /\ edits \in Nat
  BY TokensAssumption DEF Init, Instants
<1>3. /\ req \in [Requests -> Call]
      /\ \A r \in Requests : req[r].pc # "idle" => req[r].token \in TokenIds
  BY IdleRecords DEF Init, NoCall
<1>4. /\ adm \in [Admins -> Edit]
      /\ \A a \in Admins : adm[a].pc = "read" => adm[a].token \in TokenIds /\ adm[a].to \in Budgets
  BY IdleRecords DEF Init, NoEdit
<1>5. log \in [TokenIds -> [Instants -> Nat]]
  BY DEF Init
<1>6. cap \in [TokenIds -> Nat \cup {NoBudget}]
  BY <1>1, TokensAssumption DEF Init, TokOK
<1> QED BY <1>1, <1>2, <1>3, <1>4, <1>5, <1>6 DEF TypeOK

\* The part of TypeOK that a call's own steps do not touch.
LEMMA OnlyCallsChange ==
  ASSUME TypeOK, UNCHANGED <<tok, now, log, cap, admVars>>, calls' \in Nat,
         req' \in [Requests -> Call],
         \A q \in Requests : req'[q].pc # "idle" => req'[q].token \in TokenIds
  PROVE  TypeOK'
BY DEF TypeOK, TokOK, admVars

LEMMA CallsKeepTypes ==
  ASSUME TypeOK, NEW r \in Requests
  PROVE  /\ \A t \in TokenIds : Lookup(r, t) => TypeOK'
         /\ CallStep(r) => TypeOK'
<1>0. r \in Requests /\ TypeOK
  OBVIOUS
<1>1. ASSUME NEW t \in TokenIds, Lookup(r, t) PROVE TypeOK'
  <2> DEFINE c == [NoCall EXCEPT !.pc = "looked", !.token = t, !.snap = tok[t]]
  <2>1. c \in Call /\ c.token = t
    BY <1>1, IdleRecords DEF TypeOK, TokOK, Call, CallPoints, NoCall
  <2>2. req' = [req EXCEPT ![r] = c] /\ UNCHANGED <<tok, now, log, cap, admVars>>
        /\ calls' = calls + 1
    BY <1>1 DEF Lookup
  <2> HIDE DEF c
  <2>3. calls' \in Nat
    BY <2>2 DEF TypeOK
  <2> QED BY <2>1, <2>2, <2>3, CallsStayTyped, OnlyCallsChange
<1>2. ASSUME CheckUsable(r) PROVE TypeOK'
  <2>1. req[r].pc # "idle" /\ UNCHANGED <<tok, now, log, cap, calls, admVars>>
    BY <1>2 DEF CheckUsable
  <2>2. /\ req' \in [Requests -> Call]
        /\ \A q \in Requests : req'[q].pc # "idle" => req'[q].token \in TokenIds
    <3>1. CASE End(r)
      BY <3>1, EndKeepsCalls
    <3>2. CASE Decide(r, req[r].snap)
      BY <2>1, <3>2, DecideKeepsCalls
    <3>3. CASE req' = [req EXCEPT ![r].pc = "roll", ![r].start = UtcMonthStart(now)]
      <4> DEFINE c == [req[r] EXCEPT !.pc = "roll", !.start = UtcMonthStart(now)]
      <4>1. req \in [Requests -> Call] /\ req[r].token \in TokenIds
        BY <2>1 DEF TypeOK
      <4>2. UtcMonthStart(now) \in Nat /\ "roll" \in CallPoints
        BY MonthStartIsNat, TokensAssumption DEF TypeOK, Instants, CallPoints
      <4>3. c \in Call /\ c.token \in TokenIds
        BY <4>1, <4>2 DEF Call
      <4>4. req' = [req EXCEPT ![r] = c]
        BY <3>3, <4>1 DEF Call
      <4> HIDE DEF c
      <4> QED BY <4>3, <4>4, CallsStayTyped
    <3> QED BY <1>2, <3>1, <3>2, <3>3 DEF CheckUsable
  <2> QED BY <2>1, <2>2, OnlyCallsChange DEF TypeOK
<1>3. ASSUME Roll(r) PROVE TypeOK'
  <2>1. /\ req' \in [Requests -> Call]
        /\ \A q \in Requests : req'[q].pc # "idle" => req'[q].token \in TokenIds
    BY <1>3, AdvanceKeepsCalls DEF Roll, Advance, CallPoints
  <2>2. req[r].token \in TokenIds /\ req[r].start \in Nat
    BY <1>3 DEF Roll, Advance, TypeOK, Call
  <2>3. TokOK'
    BY <1>3, <2>2, RollPeriodKeeps DEF Roll, TypeOK
  <2>4. cap' \in [TokenIds -> Nat \cup {NoBudget}]
    BY <1>3, <2>2, TokensAssumption DEF Roll, TypeOK, TokOK
  <2> QED BY <1>3, <2>1, <2>3, <2>4 DEF Roll, TypeOK, admVars
<1>4. ASSUME Reread(r) PROVE TypeOK'
  <2> DEFINE c == [req[r] EXCEPT !.pc = "reloaded", !.snap = tok[req[r].token]]
  <2>1. req \in [Requests -> Call] /\ req[r].token \in TokenIds /\ tok[req[r].token] \in Row
    BY <1>4 DEF Reread, TypeOK, TokOK
  <2>2. c \in Call /\ c.token \in TokenIds
    BY <2>1 DEF Call, CallPoints
  <2>3. req' = [req EXCEPT ![r] = c] /\ UNCHANGED <<tok, now, log, cap, calls, admVars>>
    BY <1>4, <2>1 DEF Reread, Call
  <2> HIDE DEF c
  <2> QED BY <2>2, <2>3, CallsStayTyped, OnlyCallsChange DEF TypeOK
<1>5. ASSUME CheckBudget(r) PROVE TypeOK'
  <2>1. /\ req' \in [Requests -> Call]
        /\ \A q \in Requests : req'[q].pc # "idle" => req'[q].token \in TokenIds
    BY <1>5, DecideKeepsCalls DEF CheckBudget
  <2> QED BY <1>5, <2>1, OnlyCallsChange DEF CheckBudget, TypeOK
<1>6. ASSUME NEW c \in 0..MaxCost, NEW n \in TokenCounts, UpstreamAnswers(r, c, n) PROVE TypeOK'
  <2>1. /\ req' \in [Requests -> Call]
        /\ \A q \in Requests : req'[q].pc # "idle" => req'[q].token \in TokenIds
    BY <1>6, ReportKeepsCalls, MeteringAssumption DEF UpstreamAnswers
  <2> QED BY <1>6, <2>1, OnlyCallsChange DEF UpstreamAnswers, TypeOK
<1>7. ASSUME FetchFails(r) PROVE TypeOK'
  <2>1. 0 \in 0..MaxCost
    BY MeteringAssumption
  <2>2. /\ req' \in [Requests -> Call]
        /\ \A q \in Requests : req'[q].pc # "idle" => req'[q].token \in TokenIds
    BY <1>7, <2>1, ReportKeepsCalls DEF FetchFails
  <2> QED BY <1>7, <2>2, OnlyCallsChange DEF FetchFails, TypeOK
<1>8. ASSUME FetchAborted(r) PROVE TypeOK'
  BY <1>8, EndKeepsCalls, OnlyCallsChange DEF FetchAborted, TypeOK
<1>9. ASSUME ProcessExit PROVE TypeOK'
  <2>1. /\ req' \in [Requests -> Call]
        /\ \A q \in Requests : req'[q].pc # "idle" => req'[q].token \in TokenIds
    BY <1>9, IdleRecords DEF ProcessExit, NoCall
  <2>2. /\ adm' \in [Admins -> Edit]
        /\ \A a \in Admins : adm'[a].pc = "read" => adm'[a].token \in TokenIds /\ adm'[a].to \in Budgets
    BY <1>9, IdleRecords DEF ProcessExit, NoEdit
  <2> QED BY <1>9, <2>1, <2>2 DEF ProcessExit, TypeOK, TokOK
<1>10. ASSUME RecordUsage(r) PROVE TypeOK'
  <2>1. /\ req[r].token \in TokenIds /\ req[r].cost \in Nat /\ req[r].used \in Nat
    BY <1>10, MeteringAssumption DEF RecordUsage, TypeOK, Call
  <2>2. TokOK'
    BY <1>10, <2>1, RecordUseKeeps DEF RecordUsage, TypeOK
  <2>3. /\ req' \in [Requests -> Call]
        /\ \A q \in Requests : req'[q].pc # "idle" => req'[q].token \in TokenIds
    BY <1>10, EndKeepsCalls DEF RecordUsage
  <2>4. log' \in [TokenIds -> [Instants -> Nat]]
    BY <1>10, <2>1 DEF RecordUsage, TypeOK
  <2> QED BY <1>10, <2>2, <2>3, <2>4 DEF RecordUsage, TypeOK, admVars
<1>11. ASSUME RecordFails(r) PROVE TypeOK'
  BY <1>11, EndKeepsCalls, OnlyCallsChange DEF RecordFails, TypeOK
<1> QED
  BY <1>1, <1>2, <1>3, <1>4, <1>5, <1>6, <1>7, <1>8, <1>9, <1>10, <1>11
  DEF CallStep, BodyReadFails

\* Raising a cap leaves a number of dollars.
LEMMA CapWithTyped ==
  ASSUME TypeOK, NEW t \in TokenIds, NEW b \in Budgets
  PROVE  CapWith(t, b) \in Nat /\ b <= CapWith(t, b)
<1>1. b \in Nat /\ tok[t].spent \in Nat /\ cap[t] \in Nat \cup {NoBudget}
  BY TokensAssumption DEF TypeOK, TokOK, Row
<1> QED BY <1>1 DEF CapWith, NoBudget

LEMMA NextKeepsTypes == TypeOK /\ [Next]_vars => TypeOK'
<1> SUFFICES ASSUME TypeOK, [Next]_vars PROVE TypeOK'
  OBVIOUS
<1>1. ASSUME NEW r \in Requests, NEW t \in TokenIds, Lookup(r, t) PROVE TypeOK'
  BY <1>1, CallsKeepTypes
<1>2. ASSUME NEW r \in Requests, CallStep(r) PROVE TypeOK'
  BY <1>2, CallsKeepTypes
<1>3. ASSUME NEW a \in Admins, NEW t \in TokenIds, NEW b \in Budgets, ReadBudget(a, t, b)
      PROVE  TypeOK'
  <2> DEFINE e == [pc |-> "read", token |-> t, to |-> b]
  <2>1. e \in Edit /\ e.token \in TokenIds /\ e.to \in Budgets
    BY DEF Edit, TypeOK, TokOK, Row
  <2>2. adm' = [adm EXCEPT ![a] = e] /\ edits' = edits + 1
        /\ UNCHANGED <<tok, now, req, log, cap, calls>>
    BY <1>3 DEF ReadBudget
  <2> HIDE DEF e
  <2> QED BY <2>1, <2>2 DEF TypeOK, TokOK
<1>4. ASSUME NEW a \in Admins, WriteBudget(a) PROVE TypeOK'
  <2>1. adm[a].token \in TokenIds /\ adm[a].to \in Budgets
    BY <1>4 DEF WriteBudget, TypeOK
  <2>2. TokOK'
    BY <1>4, <2>1, SetBudgetKeeps DEF WriteBudget, TypeOK
  <2>3. cap' \in [TokenIds -> Nat \cup {NoBudget}]
    BY <1>4, <2>1, CapWithTyped DEF WriteBudget, TypeOK
  <2>4. /\ adm' \in [Admins -> Edit]
        /\ \A x \in Admins : adm'[x].pc = "read" => adm'[x].token \in TokenIds /\ adm'[x].to \in Budgets
    BY <1>4, IdleRecords DEF WriteBudget, TypeOK, NoEdit
  <2> QED BY <1>4, <2>2, <2>3, <2>4 DEF WriteBudget, TypeOK
<1>5. CASE Backfill
  <2>1. TokOK'
    BY <1>5, BackfillBudgetKeeps, MeteringAssumption DEF Backfill, TypeOK
  <2>2. cap' \in [TokenIds -> Nat \cup {NoBudget}]
    BY <1>5, CapWithTyped, MeteringAssumption DEF Backfill, TypeOK
  <2> QED BY <1>5, <2>1, <2>2 DEF Backfill, TypeOK, reqVars, admVars
<1>6. ASSUME NEW t \in TokenIds, Revoke(t) PROVE TypeOK'
  <2>1. TokOK'
    BY <1>6, SetRevokedAtKeeps DEF Revoke, TypeOK
  <2> QED BY <1>6, <2>1 DEF Revoke, TypeOK, reqVars, admVars
<1>7. CASE Prune
  <2>1. log' \in [TokenIds -> [Instants -> Nat]]
    BY <1>7 DEF Prune, TypeOK
  <2> QED BY <1>7, <2>1 DEF Prune, TypeOK, TokOK, reqVars, admVars
<1>8. CASE Tick
  BY <1>8, TokensAssumption DEF Tick, TypeOK, TokOK, Instants, reqVars, admVars
<1>9. CASE ProcessExit
  <2>1. /\ req' \in [Requests -> Call]
        /\ \A q \in Requests : req'[q].pc # "idle" => req'[q].token \in TokenIds
    BY <1>9, IdleRecords DEF ProcessExit, NoCall
  <2>2. /\ adm' \in [Admins -> Edit]
        /\ \A a \in Admins : adm'[a].pc = "read" => adm'[a].token \in TokenIds /\ adm'[a].to \in Budgets
    BY <1>9, IdleRecords DEF ProcessExit, NoEdit
  <2> QED BY <1>9, <2>1, <2>2 DEF ProcessExit, TypeOK, TokOK
<1>10. CASE UNCHANGED vars
  BY <1>10 DEF vars, TypeOK, TokOK
<1> QED
  BY <1>1, <1>2, <1>3, <1>4, <1>5, <1>6, <1>7, <1>8, <1>9, <1>10 DEF Next

\* The tables hold rows of their types, and calls and budget changes under way
\* name rows that exist.
THEOREM TypeCorrect == Spec => []TypeOK
BY InitTyped, NextKeepsTypes, PTL DEF Spec

----------------------------------------------------------------------------
(* The cap is never below the budget. *)

LEMMA CapKeepsUp == TypeOK /\ BudgetWithinCap /\ [Next]_vars => BudgetWithinCap'
<1> SUFFICES ASSUME TypeOK, BudgetWithinCap, [Next]_vars PROVE BudgetWithinCap'
  OBVIOUS
<1>0. TypeOK'
  BY NextKeepsTypes
<1>u. ASSUME UNCHANGED cap, \A t \in TokenIds : tok'[t].budget = tok[t].budget
      PROVE  BudgetWithinCap'
  BY <1>u DEF BudgetWithinCap
<1>1. ASSUME NEW r \in Requests, NEW t \in TokenIds, Lookup(r, t) PROVE BudgetWithinCap'
  BY <1>1, <1>u DEF Lookup
<1>2. ASSUME NEW r \in Requests, CallStep(r) PROVE BudgetWithinCap'
  <2>1. CASE Roll(r)
    <3>1. \A t \in TokenIds : tok'[t].budget = tok[t].budget
      BY <2>1 DEF Roll, RollPeriod, TypeOK, TokOK, Row
    <3>2. \A t \in TokenIds : cap'[t] = cap[t] \/ cap'[t] = tok[t].budget
      BY <2>1 DEF Roll, TypeOK
    <3>3. \A t \in TokenIds : tok[t].budget \in Nat \cup {NoBudget}
      BY DEF TypeOK, TokOK, Row
    <3> QED BY <3>1, <3>2, <3>3 DEF BudgetWithinCap, NoBudget
  <2>2. CASE RecordUsage(r)
    BY <2>2, <1>u DEF RecordUsage, RecordUse, TypeOK, TokOK, Row
  <2> QED BY <1>2, <1>u, <2>1, <2>2
          DEF CallStep, CheckUsable, Reread, CheckBudget, UpstreamAnswers, FetchFails,
              FetchAborted, BodyReadFails, ProcessExit, RecordFails
<1>3. ASSUME NEW a \in Admins, NEW t \in TokenIds, NEW b \in Budgets, ReadBudget(a, t, b)
      PROVE  BudgetWithinCap'
  BY <1>3, <1>u DEF ReadBudget
<1>4. ASSUME NEW a \in Admins, WriteBudget(a) PROVE BudgetWithinCap'
  <2>1. adm[a].token \in TokenIds /\ adm[a].to \in Budgets
    BY <1>4 DEF WriteBudget, TypeOK
  <2>2. adm[a].to # NoBudget
    BY <2>1, TokensAssumption DEF NoBudget
  <2>3. CapWith(adm[a].token, adm[a].to) \in Nat
        /\ adm[a].to <= CapWith(adm[a].token, adm[a].to)
    BY <2>1, CapWithTyped
  <2>4. CapWith(adm[a].token, adm[a].to) # NoBudget
    BY <2>3 DEF NoBudget
  <2>5. \A t \in TokenIds :
          IF t = adm[a].token
            THEN tok'[t].budget = adm[a].to /\ cap'[t] = CapWith(adm[a].token, adm[a].to)
            ELSE tok'[t].budget = tok[t].budget /\ cap'[t] = cap[t]
    BY <1>4 DEF WriteBudget, SetBudget, TypeOK, TokOK, Row
  <2> QED BY <2>2, <2>3, <2>4, <2>5 DEF BudgetWithinCap
<1>5. CASE Backfill
  <2>1. DefaultBudget # NoBudget
    BY TokensAssumption, MeteringAssumption DEF NoBudget
  <2>2. \A t \in TokenIds : /\ CapWith(t, DefaultBudget) \in Nat
                           /\ DefaultBudget <= CapWith(t, DefaultBudget)
    BY CapWithTyped, MeteringAssumption
  <2>3. \A t \in TokenIds : CapWith(t, DefaultBudget) # NoBudget
    BY <2>2 DEF NoBudget
  <2>4. \A t \in TokenIds :
          IF t \in Unbudgeted
            THEN tok'[t].budget = DefaultBudget /\ cap'[t] = CapWith(t, DefaultBudget)
            ELSE tok'[t].budget = tok[t].budget /\ cap'[t] = cap[t]
    BY <1>5 DEF Backfill, BackfillBudget, TypeOK, TokOK, Row
  <2> QED BY <2>1, <2>2, <2>3, <2>4 DEF BudgetWithinCap
<1>6. ASSUME NEW t \in TokenIds, Revoke(t) PROVE BudgetWithinCap'
  BY <1>6, <1>u DEF Revoke, SetRevokedAt, TypeOK, TokOK, Row
<1>7. CASE Prune
  BY <1>7, <1>u DEF Prune
<1>8. CASE Tick
  BY <1>8, <1>u DEF Tick
<1>9. CASE ProcessExit
  BY <1>9, <1>u DEF ProcessExit
<1>10. CASE UNCHANGED vars
  BY <1>10, <1>u DEF vars
<1> QED
  BY <1>1, <1>2, <1>3, <1>4, <1>5, <1>6, <1>7, <1>8, <1>9, <1>10 DEF Next

\* The inductive invariant: the types, and a cap that is never below the budget
\* the handlers check against.
THEOREM Inductive == Spec => []IInv
<1>1. Init => IInv
  <2> SUFFICES ASSUME Init PROVE BudgetWithinCap
    BY InitTyped DEF IInv
  <2>1. \A t \in TokenIds : cap[t] = tok[t].budget /\ tok[t].budget \in Nat \cup {NoBudget}
    BY InitTyped DEF Init, TypeOK, TokOK, Row
  <2> QED BY <2>1 DEF BudgetWithinCap, NoBudget
<1>2. IInv /\ [Next]_vars => IInv'
  BY NextKeepsTypes, CapKeepsUp DEF IInv
<1> QED BY <1>1, <1>2, PTL DEF Spec

Kept == \A t \in TokenIds :
          /\ tok'[t].period >= tok[t].period
          /\ tok'[t].spent < tok[t].spent => tok'[t].period > tok[t].period

LEMMA NextKeepsSpend == ASSUME TypeOK, Next PROVE Kept
<1>1. Kept
  <2>0. \A t \in TokenIds : /\ tok[t].period \in Int /\ tok[t].spent \in Nat
                           /\ tok[t] \in Row
    BY DEF TypeOK, TokOK, Row, NoPeriod
  <2>u. ASSUME UNCHANGED tok PROVE Kept
    BY <2>0, <2>u DEF Kept
  <2>b. ASSUME \A t \in TokenIds : tok'[t].period = tok[t].period /\ tok'[t].spent >= tok[t].spent
        PROVE  Kept
    <3>1. \A t \in TokenIds : tok'[t].spent \in Nat
      BY NextKeepsTypes DEF TypeOK, TokOK, Row
    <3> QED BY <2>0, <2>b, <3>1 DEF Kept
  <2>1. ASSUME NEW r \in Requests, CallStep(r) PROVE Kept
    <3>1. CASE Roll(r)
      <4>1. req[r].start \in Nat /\ req[r].token \in TokenIds
        BY <3>1 DEF Roll, Advance, TypeOK, Call
      <4>2. CASE NeedsRoll(req[r].token, req[r].start)
        <5>1. \A t \in TokenIds :
                IF t = req[r].token
                  THEN tok'[t].period = req[r].start
                  ELSE tok'[t] = tok[t]
          BY <3>1, <4>1, <4>2, <2>0 DEF Roll, RollPeriod, TypeOK, TokOK, Row
        <5> QED BY <4>1, <4>2, <5>1, <2>0 DEF NeedsRoll, Kept
      <4>3. CASE ~NeedsRoll(req[r].token, req[r].start)
        BY <3>1, <4>3, <2>u DEF Roll, RollPeriod
      <4> QED BY <4>2, <4>3
    <3>2. CASE RecordUsage(r)
      <4>1. req[r].cost \in Nat /\ req[r].used \in Nat /\ req[r].token \in TokenIds
        BY <3>2, MeteringAssumption DEF RecordUsage, TypeOK, Call
      <4>2. RecordUse(req[r].token, req[r].cost, req[r].used) /\ TokOK
        BY <3>2 DEF RecordUsage, TypeOK
      <4>3. \A t \in TokenIds :
              /\ tok'[t].period = tok[t].period
              /\ tok'[t].spent = tok[t].spent \/ tok'[t].spent = tok[t].spent + req[r].cost
        BY <4>1, <4>2, RecordUseAdds
      <4> QED BY <4>1, <4>3, <2>0, <2>b
    <3> QED BY <2>1, <2>u, <3>1, <3>2
            DEF CallStep, CheckUsable, Reread, CheckBudget, UpstreamAnswers, FetchFails,
                FetchAborted, BodyReadFails, ProcessExit, RecordFails
  <2>2. ASSUME NEW a \in Admins, WriteBudget(a) PROVE Kept
    <3>1. \A t \in TokenIds : tok'[t].period = tok[t].period /\ tok'[t].spent = tok[t].spent
      BY <2>2 DEF WriteBudget, SetBudget, TypeOK, TokOK, Row
    <3> QED BY <3>1, <2>0, <2>b
  <2>3. CASE Backfill
    <3>1. \A t \in TokenIds : tok'[t].period = tok[t].period /\ tok'[t].spent = tok[t].spent
      BY <2>3 DEF Backfill, BackfillBudget, TypeOK, TokOK, Row
    <3> QED BY <3>1, <2>0, <2>b
  <2>4. ASSUME NEW t \in TokenIds, Revoke(t) PROVE Kept
    <3>1. \A s \in TokenIds : tok'[s].period = tok[s].period /\ tok'[s].spent = tok[s].spent
      BY <2>4 DEF Revoke, SetRevokedAt, TypeOK, TokOK, Row
    <3> QED BY <3>1, <2>0, <2>b
  <2> QED BY <2>1, <2>2, <2>3, <2>4, <2>u DEF Next, Lookup, ReadBudget, Prune, Tick, ProcessExit
<1> QED BY <1>1

\* The spend of a period is erased by the start of a later period and by
\* nothing else, whatever calls and budget changes are under way.
THEOREM SpendErasure == Spec => SpendErasedOnlyByNewPeriod
<1>1. TypeOK /\ [Next]_vars => [Kept]_vars
  BY NextKeepsSpend
<1> QED BY <1>1, TypeCorrect, PTL DEF Spec, SpendErasedOnlyByNewPeriod, Kept

\* A call that has tried to roll its token's period knows that the row is in the period it
\* was checked in, whoever rolled it; and so is what it has read since.
Rolled ==
  \A r \in Requests :
    /\ req[r].pc = "reread" => tok[req[r].token].period >= req[r].start
    /\ req[r].pc = "reloaded" => req[r].snap.period >= req[r].start

LEMMA RolledStays ==
  ASSUME TypeOK, TypeOK', Rolled, Kept, NEW r \in Requests,
         req'[r] = req[r] \/ req'[r].pc \notin {"reread", "reloaded"}
  PROVE  /\ req'[r].pc = "reread" => tok'[req'[r].token].period >= req'[r].start
         /\ req'[r].pc = "reloaded" => req'[r].snap.period >= req'[r].start
<1>1. CASE req'[r] = req[r] /\ req[r].pc = "reread"
  <2>1. PICK t \in TokenIds : t = req[r].token
    BY <1>1 DEF TypeOK
  <2>2. tok[t].period \in Int /\ tok'[t].period >= tok[t].period /\ req[r].start \in Int
    BY DEF TypeOK, TokOK, Row, NoPeriod, Kept, Call
  <2>3. tok[t].period >= req[r].start
    BY <1>1, <2>1 DEF Rolled
  <2>4. tok'[t].period \in Int
    BY DEF TypeOK, TokOK, Row, NoPeriod
  <2>5. tok'[t].period >= req[r].start
    BY <2>2, <2>3, <2>4
  <2> QED BY <1>1, <2>1, <2>5
<1>2. CASE req'[r] = req[r] /\ req[r].pc # "reread"
  BY <1>2 DEF Rolled
<1> QED BY <1>1, <1>2

LEMMA NextKeepsRolled == TypeOK /\ Rolled /\ [Next]_vars => Rolled'
<1> SUFFICES ASSUME TypeOK, Rolled, [Next]_vars PROVE Rolled'
  OBVIOUS
<1>0. TypeOK'
  BY NextKeepsTypes
<1>1. CASE UNCHANGED vars
  BY <1>1 DEF vars, Rolled
<1>2. CASE Next
  <2>0. Kept
    BY <1>2, NextKeepsSpend
  <2>u. ASSUME \A r \in Requests : req'[r] = req[r] \/ req'[r].pc \notin {"reread", "reloaded"}
        PROVE  Rolled'
    BY <2>0, <1>0, <2>u, RolledStays DEF Rolled
  <2>1. ASSUME NEW r \in Requests, Roll(r) PROVE Rolled'
    <3>1. /\ req'[r].pc = "reread" /\ req'[r].token = req[r].token /\ req'[r].start = req[r].start
          /\ \A q \in Requests \ {r} : req'[q] = req[q]
      BY <2>1 DEF Roll, Advance, TypeOK, Call
    <3>2. PICK t \in TokenIds : t = req[r].token
      BY <2>1 DEF Roll, Advance, TypeOK
    <3>3. tok[t].period \in Int /\ req[r].start \in Nat /\ tok[t] \in Row
      BY DEF TypeOK, TokOK, Row, NoPeriod, Call
    <3>4. tok'[t].period >= req[r].start
      <4>1. CASE NeedsRoll(t, req[r].start)
        <5>1. tok'[t].period = req[r].start
          BY <2>1, <3>2, <3>3, <4>1 DEF Roll, RollPeriod, TypeOK, TokOK, Row
        <5> QED BY <3>3, <5>1
      <4>2. CASE ~NeedsRoll(t, req[r].start)
        BY <2>1, <3>2, <3>3, <4>2 DEF Roll, RollPeriod, NeedsRoll
      <4> QED BY <4>1, <4>2
    <3> QED BY <1>0, <2>0, <3>1, <3>2, <3>4, RolledStays DEF Rolled
  <2>2. ASSUME NEW r \in Requests, Reread(r) PROVE Rolled'
    <3>1. /\ req'[r].pc = "reloaded" /\ req'[r].snap = tok[req[r].token]
          /\ req'[r].start = req[r].start
          /\ \A q \in Requests \ {r} : req'[q] = req[q]
      BY <2>2 DEF Reread, TypeOK, Call
    <3>2. req'[r].snap.period >= req'[r].start
      BY <2>2, <3>1 DEF Rolled, Reread
    <3> QED BY <1>0, <2>0, <3>1, <3>2, RolledStays DEF Rolled
  <2>3. ASSUME NEW r \in Requests, End(r) PROVE Rolled'
    BY <2>3, <2>u DEF End, NoCall, TypeOK
  <2>4. ASSUME NEW r \in Requests, NEW pc \in {"upstream", "record"},
               \A q \in Requests \ {r} : req'[q] = req[q], req'[r].pc = pc
        PROVE  Rolled'
    BY <2>4, <2>u
  <2>5. ASSUME NEW r \in Requests, NEW row, Decide(r, row) PROVE Rolled'
    <3>1. req \in [Requests -> Call]
      BY DEF TypeOK
    <3>2. CASE req' = [req EXCEPT ![r].pc = "upstream"]
      BY <2>4, <3>1, <3>2 DEF Call
    <3> QED BY <2>3, <2>5, <3>2 DEF Decide
  <2>6. ASSUME NEW r \in Requests, CheckUsable(r) PROVE Rolled'
    <3>1. req \in [Requests -> Call]
      BY DEF TypeOK
    <3>2. CASE req' = [req EXCEPT ![r].pc = "roll", ![r].start = UtcMonthStart(now)]
      BY <2>u, <3>1, <3>2 DEF Call
    <3> QED BY <2>3, <2>5, <2>6, <3>2 DEF CheckUsable
  <2>7. ASSUME NEW r \in Requests, NEW c, NEW n, Report(r, c, n) PROVE Rolled'
    BY <2>4, <2>7 DEF Report, TypeOK, Call
  <2>8. ASSUME NEW r \in Requests, NEW t \in TokenIds, Lookup(r, t) PROVE Rolled'
    BY <2>8, <2>u DEF Lookup, NoCall, TypeOK
  <2>9. CASE ProcessExit
    BY <2>9, <2>u DEF ProcessExit, NoCall
  <2>10. CASE UNCHANGED req
    BY <2>10, <2>u
  <2> QED BY <1>2, <2>1, <2>2, <2>3, <2>5, <2>6, <2>7, <2>8, <2>9, <2>10
          DEF Next, CallStep, CheckBudget, UpstreamAnswers, FetchFails, FetchAborted, BodyReadFails,
              RecordUsage, RecordFails, ReadBudget, WriteBudget, Backfill, Revoke, Prune, Tick,
              reqVars
<1> QED BY <1>1, <1>2

\* However calls, rolls and months interleave, a call is refused for its budget only on a row
\* of the month it was checked in, read after the month began or rolled to it.
THEOREM RefusalsAreCurrent == Spec => RefusedInCurrentPeriod
<1> DEFINE Current == \A r \in Requests : req'[r].pc = "idle" =>
       /\ CheckUsable(r) /\ Usable(req[r].snap) => req[r].snap.period >= UtcMonthStart(now)
       /\ CheckBudget(r) => req[r].snap.period >= req[r].start
<1>1. Init => Rolled
  BY DEF Init, NoCall, Rolled
<1>2. TypeOK /\ Rolled /\ [Next]_vars => [Current]_vars
  <2> SUFFICES ASSUME TypeOK, Rolled, NEW r \in Requests, req'[r].pc = "idle"
               PROVE  /\ CheckUsable(r) /\ Usable(req[r].snap) =>
                           req[r].snap.period >= UtcMonthStart(now)
                      /\ CheckBudget(r) => req[r].snap.period >= req[r].start
    OBVIOUS
  <2>1. ASSUME CheckUsable(r), Usable(req[r].snap)
        PROVE  req[r].snap.period >= UtcMonthStart(now)
    <3>1. req' # [req EXCEPT ![r].pc = "roll", ![r].start = UtcMonthStart(now)]
      BY DEF TypeOK, Call
    <3> QED BY <2>1, <3>1 DEF CheckUsable
  <2>2. CheckBudget(r) => req[r].snap.period >= req[r].start
    BY DEF CheckBudget, Rolled
  <2> QED BY <2>1, <2>2
<1> QED BY <1>1, <1>2, NextKeepsRolled, TypeCorrect, PTL DEF Spec, RefusedInCurrentPeriod

----------------------------------------------------------------------------
(* Sums over the request log *)

LEMMA SmallestMember ==
  ASSUME NEW S, S \subseteq Nat, S # {}
  PROVE  \E t \in S : \A s \in S : t <= s
<1>1. PICK t \in S : \A s \in S : ~ (<<s, t>> \in OpToRel(<, Nat))
  BY NatLessThanWellFounded, WFMin
<1>2. ASSUME NEW s \in S PROVE t <= s
  <2>1. s < t => <<s, t>> \in OpToRel(<, Nat)
    BY DEF OpToRel
  <2>2. ~ (s < t)
    BY <1>1, <2>1
  <2> QED BY <2>2
<1> QED BY <1>2

\* Induction over the natural numbers, by the least of the numbers that fail.
LEMMA LeastBad ==
  ASSUME NEW Bad, Bad \subseteq Nat, Bad # {}
  PROVE  \E n \in Bad : n \in Nat /\ \A m \in Nat : n = m + 1 => m \notin Bad
<1>1. PICK n \in Bad : \A m \in Bad : n <= m
  BY SmallestMember
<1>2. n \in Nat
  OBVIOUS
<1>3. ASSUME NEW m \in Nat, n = m + 1 PROVE m \notin Bad
  BY <1>1, <1>3
<1> QED BY <1>2, <1>3

Pick(s) == CHOOSE x \in s : TRUE
Total(f, S) == MapThenSumSet(LAMBDA i : f[i], S)

\* The recursion behind Total: g has the sum of f over every subset of S.
Sums(g, f, S) ==
  g = [s \in SUBSET S |-> IF s = {} THEN 0 ELSE f[Pick(s)] + g[s \ {Pick(s)}]]

LEMMA TotalIsSums == ASSUME NEW f, NEW S PROVE Total(f, S) = (CHOOSE g : Sums(g, f, S))[S]
BY DEF Total, MapThenSumSet, MapThenFoldSet, Sums, Pick

LEMMA PickIn == ASSUME NEW s, s # {} PROVE Pick(s) \in s
BY DEF Pick

\* Without its picked element a finite set is smaller by one.
LEMMA Smaller ==
  ASSUME NEW s, IsFiniteSet(s), s # {}, NEW x \in s
  PROVE  /\ IsFiniteSet(s \ {x})
         /\ Cardinality(s) \in Nat /\ Cardinality(s \ {x}) \in Nat
         /\ Cardinality(s) = Cardinality(s \ {x}) + 1
<1>1. Cardinality(s) \in Nat
  BY FS_CardinalityType
<1>2. IsFiniteSet(s \ {x}) /\ Cardinality(s \ {x}) = Cardinality(s) - 1
  BY FS_RemoveElement
<1>3. Cardinality(s \ {x}) \in Nat
  BY <1>2, FS_CardinalityType
<1> QED BY <1>1, <1>2, <1>3

LEMMA SumsExist ==
  ASSUME NEW f, NEW S, IsFiniteSet(S)
  PROVE  \E g : Sums(g, f, S)
<1> DEFINE Upto(n)    == {s \in SUBSET S : Cardinality(s) <= n}
           Part(g, n) == g = [s \in Upto(n) |->
                                IF s = {} THEN 0 ELSE f[Pick(s)] + g[s \ {Pick(s)}]]
           Bad        == {n \in Nat : ~ \E g : Part(g, n)}
<1>1. \A s \in SUBSET S : IsFiniteSet(s) /\ Cardinality(s) \in Nat
  BY FS_Subset, FS_CardinalityType
<1>2. Bad = {}
  <2> SUFFICES ASSUME Bad # {} PROVE FALSE
    OBVIOUS
  <2>1. PICK n \in Bad : n \in Nat /\ \A m \in Nat : n = m + 1 => m \notin Bad
    BY LeastBad
  <2>2. CASE n = 0
    <3> DEFINE g == [s \in Upto(0) |-> 0]
    <3>1. \A s \in Upto(0) : s = {}
      <4>1. \A s \in SUBSET S : Cardinality(s) <= 0 => s = {}
        BY <1>1, FS_EmptySet
      <4> QED BY <4>1
    <3>2. Part(g, 0)
      BY <3>1
    <3> QED BY <2>1, <2>2, <3>2
  <2>3. CASE n # 0
    <3>1. n - 1 \in Nat /\ n - 1 \notin Bad
      <4> HIDE DEF Bad
      <4>1. n - 1 \in Nat /\ n = (n - 1) + 1
        BY <2>1, <2>3
      <4> QED BY <2>1, <4>1
    <3>2. PICK g : Part(g, n - 1)
      BY <3>1
    <3> DEFINE k == [s \in Upto(n) |-> IF s = {} THEN 0 ELSE f[Pick(s)] + g[s \ {Pick(s)}]]
    <3>3. ASSUME NEW s \in Upto(n - 1) PROVE k[s] = g[s]
      <4>1. s \in Upto(n)
        BY <1>1, <2>1
      <4>2. g[s] = IF s = {} THEN 0 ELSE f[Pick(s)] + g[s \ {Pick(s)}]
        BY <3>2, Zenon
      <4> QED BY <4>1, <4>2
    <3>4. ASSUME NEW s \in Upto(n), s # {} PROVE s \ {Pick(s)} \in Upto(n - 1)
      <4>1. Pick(s) \in s /\ IsFiniteSet(s)
        BY <1>1, <3>4, PickIn
      <4>2. /\ Cardinality(s) = Cardinality(s \ {Pick(s)}) + 1
            /\ Cardinality(s \ {Pick(s)}) \in Nat
        BY <3>4, <4>1, Smaller
      <4>3. Cardinality(s) <= n
        OBVIOUS
      <4>4. Cardinality(s \ {Pick(s)}) <= n - 1
        BY <2>1, <4>2, <4>3
      <4> QED BY <4>4
    <3>5. \A s \in Upto(n) : s # {} => k[s \ {Pick(s)}] = g[s \ {Pick(s)}]
      BY <3>3, <3>4
    <3>6. Part(k, n)
      <4>1. k = [s \in Upto(n) |-> IF s = {} THEN 0 ELSE f[Pick(s)] + k[s \ {Pick(s)}]]
        <5> HIDE DEF Upto
        <5> DEFINE d == [s \in Upto(n) |-> IF s = {} THEN 0 ELSE f[Pick(s)] + k[s \ {Pick(s)}]]
        <5>1. \A s \in Upto(n) : k[s] = d[s]
          BY <3>5
        <5>2. k = [s \in Upto(n) |-> k[s]] /\ d = [s \in Upto(n) |-> d[s]]
          OBVIOUS
        <5> HIDE DEF k, d
        <5>3. k = d
          BY <5>1, <5>2
        <5> QED BY <5>3 DEF d
      <4> QED BY <4>1
    <3> QED BY <2>1, <3>6
  <2> QED BY <2>2, <2>3
<1>3. PICK g : Part(g, Cardinality(S))
  BY <1>1, <1>2
<1>4. Upto(Cardinality(S)) = SUBSET S
  BY <1>1, FS_Subset
<1>5. Sums(g, f, S)
  BY <1>3, <1>4 DEF Sums
<1> QED BY <1>5

\* Two such functions agree on the sets on which their terms do.
LEMMA SumsAgree ==
  ASSUME NEW f, NEW h, NEW S, NEW T, NEW g, NEW k, Sums(g, f, S), Sums(k, h, T),
         NEW U, U \subseteq S, U \subseteq T, IsFiniteSet(U), \A x \in U : f[x] = h[x]
  PROVE  g[U] = k[U]
<1> DEFINE Bad == {n \in Nat : \E V \in SUBSET U : Cardinality(V) = n /\ g[V] # k[V]}
<1>1. Bad = {}
  <2> SUFFICES ASSUME Bad # {} PROVE FALSE
    OBVIOUS
  <2>1. PICK n \in Bad : n \in Nat /\ \A m \in Nat : n = m + 1 => m \notin Bad
    BY LeastBad
  <2>2. PICK V \in SUBSET U : Cardinality(V) = n /\ g[V] # k[V]
    BY <2>1
  <2> DEFINE x == Pick(V)
             W == V \ {x}
  <2>3. V \in SUBSET S /\ V \in SUBSET T
    BY <2>2
  <2>4. /\ g[V] = IF V = {} THEN 0 ELSE f[x] + g[W]
        /\ k[V] = IF V = {} THEN 0 ELSE h[x] + k[W]
    BY <2>3, Zenon DEF Sums
  <2>5. V # {}
    BY <2>2, <2>4
  <2>6. x \in V
    BY <2>5, PickIn
  <2>7. IsFiniteSet(V)
    BY <2>2, FS_Subset
  <2>8. Cardinality(W) \in Nat /\ n = Cardinality(W) + 1
    BY <2>2, <2>5, <2>6, <2>7, Smaller
  <2>90. Cardinality(W) \notin Bad
    <3> HIDE DEF Bad, W
    <3> QED BY <2>1, <2>8
  <2>9. W \in SUBSET U /\ Cardinality(W) \notin Bad
    BY <2>90
  <2>10. g[W] = k[W]
    BY <2>8, <2>9
  <2> QED BY <2>2, <2>4, <2>5, <2>6, <2>10
<1>2. Cardinality(U) \in Nat
  BY FS_CardinalityType
<1> QED BY <1>1, <1>2

LEMMA TotalSums ==
  ASSUME NEW f, NEW S, IsFiniteSet(S)
  PROVE  \E g : Sums(g, f, S) /\ Total(f, S) = g[S]
BY SumsExist, TotalIsSums

LEMMA TotalEmpty == ASSUME NEW f PROVE Total(f, {}) = 0
<1>1. PICK g : Sums(g, f, {}) /\ Total(f, {}) = g[{}]
  BY TotalSums, FS_EmptySet
<1> QED BY <1>1, Zenon DEF Sums

\* The sum depends on the terms it adds only.
LEMMA TotalAgrees ==
  ASSUME NEW f, NEW h, NEW S, IsFiniteSet(S), \A x \in S : f[x] = h[x]
  PROVE  Total(f, S) = Total(h, S)
<1>1. PICK g : Sums(g, f, S) /\ Total(f, S) = g[S]
  BY TotalSums
<1>2. PICK k : Sums(k, h, S) /\ Total(h, S) = k[S]
  BY TotalSums
<1> QED BY <1>1, <1>2, SumsAgree

LEMMA TotalPick ==
  ASSUME NEW f, NEW S, IsFiniteSet(S), S # {}
  PROVE  Total(f, S) = f[Pick(S)] + Total(f, S \ {Pick(S)})
<1> DEFINE x == Pick(S)
           W == S \ {x}
<1>1. x \in S /\ IsFiniteSet(W) /\ W \subseteq S
  BY PickIn, Smaller
<1>2. PICK g : Sums(g, f, S) /\ Total(f, S) = g[S]
  BY TotalSums
<1>3. PICK k : Sums(k, f, W) /\ Total(f, W) = k[W]
  BY <1>1, TotalSums
<1>4. g[W] = k[W]
  BY <1>1, <1>2, <1>3, SumsAgree
<1>5. g[S] = f[x] + g[W]
  BY <1>2, Zenon DEF Sums
<1> QED BY <1>2, <1>3, <1>4, <1>5

\* The sum is in every set that has 0, the terms and the sums of its elements.
LEMMA TotalIn ==
  ASSUME NEW Type, 0 \in Type, \A a, b \in Type : a + b \in Type,
         NEW f, NEW S, IsFiniteSet(S), \A x \in S : f[x] \in Type
  PROVE  Total(f, S) \in Type
<1> DEFINE Bad == {n \in Nat : \E V \in SUBSET S : Cardinality(V) = n /\ Total(f, V) \notin Type}
<1>1. Bad = {}
  <2> SUFFICES ASSUME Bad # {} PROVE FALSE
    OBVIOUS
  <2>1. PICK n \in Bad : n \in Nat /\ \A m \in Nat : n = m + 1 => m \notin Bad
    BY LeastBad
  <2>2. PICK V \in SUBSET S : Cardinality(V) = n /\ Total(f, V) \notin Type
    BY <2>1
  <2> DEFINE x == Pick(V)
             W == V \ {x}
  <2>3. IsFiniteSet(V) /\ V # {}
    <3>1. V # {}
      BY <2>2, TotalEmpty
    <3> QED BY <2>2, <3>1, FS_Subset
  <2>4. x \in V
    BY <2>3, PickIn
  <2>5. Cardinality(W) \in Nat /\ n = Cardinality(W) + 1
    BY <2>2, <2>3, <2>4, Smaller
  <2>60. Cardinality(W) \notin Bad
    <3> HIDE DEF Bad, W
    <3> QED BY <2>1, <2>5
  <2>6. W \in SUBSET S /\ Cardinality(W) \notin Bad
    BY <2>60
  <2>7. Total(f, W) \in Type
    BY <2>5, <2>6
  <2>8. Total(f, V) = f[x] + Total(f, W)
    BY <2>3, TotalPick
  <2>9. f[x] \in Type
    BY <2>4
  <2> QED BY <2>2, <2>7, <2>8, <2>9
<1>2. Cardinality(S) \in Nat
  BY FS_CardinalityType
<1> QED BY <1>1, <1>2

LEMMA TotalIsNat ==
  ASSUME NEW f, NEW S, IsFiniteSet(S), \A x \in S : f[x] \in Nat
  PROVE  Total(f, S) \in Nat
<1>1. 0 \in Nat /\ \A a, b \in Nat : a + b \in Nat
  OBVIOUS
<1> QED BY <1>1, TotalIn

LEMMA TotalZero ==
  ASSUME NEW f, NEW S, IsFiniteSet(S), \A x \in S : f[x] = 0
  PROVE  Total(f, S) = 0
<1>1. 0 \in {0} /\ \A a, b \in {0} : a + b \in {0}
  OBVIOUS
<1>2. \A x \in S : f[x] \in {0}
  OBVIOUS
<1>3. Total(f, S) \in {0}
  BY <1>1, <1>2, TotalIn
<1> QED BY <1>3

\* Any element may be added last.
LEMMA TotalRemove ==
  ASSUME NEW f, NEW S, IsFiniteSet(S), \A x \in S : f[x] \in Nat, NEW e \in S
  PROVE  Total(f, S) = f[e] + Total(f, S \ {e})
<1> DEFINE Bad == {n \in Nat : \E V \in SUBSET S : \E d \in V :
                     Cardinality(V) = n /\ Total(f, V) # f[d] + Total(f, V \ {d})}
<1>1. Bad = {}
  <2> SUFFICES ASSUME Bad # {} PROVE FALSE
    OBVIOUS
  <2>1. PICK n \in Bad : n \in Nat /\ \A m \in Nat : n = m + 1 => m \notin Bad
    BY LeastBad
  <2>2. PICK V \in SUBSET S : \E y \in V : Cardinality(V) = n /\ Total(f, V) # f[y] + Total(f, V \ {y})
    BY <2>1
  <2>20. PICK d \in V : Cardinality(V) = n /\ Total(f, V) # f[d] + Total(f, V \ {d})
    BY <2>2
  <2> DEFINE x == Pick(V)
             W == V \ {x}
             D == V \ {d}
             R == (V \ {x}) \ {d}
  <2>3. IsFiniteSet(V) /\ V # {}
    BY <2>20, FS_Subset
  <2>4. x \in V
    BY <2>3, PickIn
  <2>5. Cardinality(W) \in Nat /\ n = Cardinality(W) + 1 /\ IsFiniteSet(W)
    BY <2>20, <2>3, <2>4, Smaller
  <2>6. Total(f, V) = f[x] + Total(f, W)
    BY <2>3, TotalPick
  <2>7. x # d
    BY <2>20, <2>6
  <2>8. Cardinality(D) \in Nat /\ n = Cardinality(D) + 1 /\ IsFiniteSet(D)
    BY <2>20, <2>3, Smaller
  <2>9. Cardinality(W) \notin Bad /\ Cardinality(D) \notin Bad
    <3> HIDE DEF Bad, W, D
    <3> QED BY <2>1, <2>5, <2>8
  <2>10. W \in SUBSET S /\ d \in W /\ D \in SUBSET S /\ x \in D
    BY <2>4, <2>7
  <2>11. Total(f, W) = f[d] + Total(f, R)
    BY <2>5, <2>9, <2>10
  <2>12. D \ {x} = R
    OBVIOUS
  <2>13. Total(f, D) = f[x] + Total(f, D \ {x})
    BY <2>8, <2>9, <2>10
  <2>14. f[x] \in Nat /\ f[d] \in Nat /\ Total(f, R) \in Nat
    <3>1. IsFiniteSet(R) /\ R \subseteq S
      BY <2>5, FS_RemoveElement
    <3> QED BY <2>4, <3>1, TotalIsNat
  <2>15. Total(f, V) # f[d] + Total(f, D) /\ Total(f, D) = f[x] + Total(f, R)
    BY <2>20, <2>12, <2>13
  <2> HIDE DEF x, W, D, R
  <2> QED BY <2>6, <2>11, <2>14, <2>15
<1>2. Cardinality(S) \in Nat
  BY FS_CardinalityType
<1> QED BY <1>1, <1>2

\* A term that grows makes the sum grow by as much.
LEMMA TotalGrows ==
  ASSUME NEW f, NEW h, NEW S, IsFiniteSet(S), \A x \in S : f[x] \in Nat, NEW e \in S,
         NEW c \in Nat, h[e] = f[e] + c, \A x \in S \ {e} : h[x] = f[x]
  PROVE  Total(h, S) = Total(f, S) + c
<1> DEFINE D == S \ {e}
<1>1. IsFiniteSet(D)
  BY FS_RemoveElement
<1>2. \A x \in S : h[x] \in Nat
  OBVIOUS
<1>3. Total(f, S) = f[e] + Total(f, D) /\ Total(h, S) = h[e] + Total(h, D)
  BY <1>2, TotalRemove
<1>4. Total(h, D) = Total(f, D)
  BY <1>1, TotalAgrees
<1>5. Total(f, D) \in Nat
  BY <1>1, TotalIsNat
<1> QED BY <1>3, <1>4, <1>5

\* Smaller terms, or fewer of them, make no larger a sum.
LEMMA TotalMonotone ==
  ASSUME NEW f, NEW h, NEW S, IsFiniteSet(S), NEW T \in SUBSET S,
         \A x \in S : h[x] \in Nat, \A x \in T : f[x] \in Nat /\ f[x] <= h[x]
  PROVE  Total(f, T) <= Total(h, S)
<1> DEFINE Bad == {n \in Nat : \E V \in SUBSET S : Cardinality(V) = n /\
                                 ~ (Total(f, V \cap T) <= Total(h, V))}
<1>1. Bad = {}
  <2> SUFFICES ASSUME Bad # {} PROVE FALSE
    OBVIOUS
  <2>1. PICK n \in Bad : n \in Nat /\ \A m \in Nat : n = m + 1 => m \notin Bad
    BY LeastBad
  <2>2. PICK V \in SUBSET S : Cardinality(V) = n /\ ~ (Total(f, V \cap T) <= Total(h, V))
    BY <2>1
  <2> DEFINE x == Pick(V)
             W == V \ {x}
  <2>3. IsFiniteSet(V) /\ V # {}
    <3>1. Total(f, {}) = 0 /\ Total(h, {}) = 0 /\ 0 <= 0
      BY TotalEmpty
    <3>2. V = {} => V \cap T = {}
      OBVIOUS
    <3>3. V # {}
      BY <2>2, <3>1, <3>2
    <3> QED BY <2>2, <3>3, FS_Subset
  <2>4. x \in V
    BY <2>3, PickIn
  <2>5. Cardinality(W) \in Nat /\ n = Cardinality(W) + 1 /\ IsFiniteSet(W)
    BY <2>2, <2>3, <2>4, Smaller
  <2>60. Cardinality(W) \notin Bad
    <3> HIDE DEF Bad, W
    <3> QED BY <2>1, <2>5
  <2>6. W \in SUBSET S /\ Cardinality(W) \notin Bad
    BY <2>60
  <2>7. Total(f, W \cap T) <= Total(h, W)
    BY <2>5, <2>6
  <2>8. Total(h, V) = h[x] + Total(h, W)
    BY <2>3, TotalPick
  <2>9. h[x] \in Nat /\ Total(h, W) \in Nat
    BY <2>4, <2>5, TotalIsNat
  <2>10. IsFiniteSet(V \cap T) /\ IsFiniteSet(W \cap T)
    BY <2>3, <2>5, FS_Intersection
  <2>11. Total(f, W \cap T) \in Nat
    BY <2>10, TotalIsNat
  <2>12. CASE x \in T
    <3>1. (V \cap T) \ {x} = W \cap T /\ x \in V \cap T
      BY <2>4, <2>12
    <3>2. Total(f, V \cap T) = f[x] + Total(f, W \cap T)
      BY <2>10, <3>1, TotalRemove
    <3>3. f[x] \in Nat /\ f[x] <= h[x]
      BY <2>12
    <3> HIDE DEF x, W
    <3> QED BY <2>2, <2>7, <2>8, <2>9, <2>11, <3>2, <3>3
  <2>13. CASE x \notin T
    <3>1. V \cap T = W \cap T
      BY <2>13
    <3>2. Total(f, V \cap T) = Total(f, W \cap T)
      BY <3>1
    <3> HIDE DEF x, W
    <3> QED BY <2>2, <2>7, <2>8, <2>9, <2>11, <3>2
  <2> QED BY <2>12, <2>13
<1>2. Cardinality(S) \in Nat /\ S \cap T = T
  BY FS_CardinalityType
<1> QED BY <1>1, <1>2

----------------------------------------------------------------------------
(* The spend and the request log *)

Since(d) == {i \in Instants : i >= d}

LogRead == \A t \in TokenIds, d \in Int : LoggedSince(t, d) = Total(log[t], Since(d))

LEMMA LoggedIsTotal == LogRead /\ LogRead'
<1>1. LogRead
  BY DEF LogRead, LoggedSince, Total, Since
<1>2. LogRead'
  BY <1>1, PTL
<1> QED BY <1>1, <1>2

LEMMA SinceFinite == ASSUME NEW d PROVE IsFiniteSet(Since(d)) /\ Since(d) \subseteq Instants
<1>1. IsFiniteSet(Instants)
  BY TokensAssumption, FS_Interval DEF Instants
<1> QED BY <1>1, FS_Subset DEF Since

\* A month begins at most MonthLength ticks before an instant of it, and months follow
\* each other.
LEMMA MonthStarts ==
  ASSUME NEW d \in Nat
  PROVE  /\ UtcMonthStart(d) \in Nat /\ UtcMonthStart(d) <= d /\ d < UtcMonthStart(d) + MonthLength
         /\ UtcMonthStart(d) <= UtcMonthStart(d + 1)
<1> DEFINE m == MonthLength
           q == d \div m
           r == (d + 1) \div m
<1>1. m \in Nat /\ m > 0
  BY TokensAssumption
<1> HIDE DEF m
<1>2. /\ q \in Nat /\ r \in Nat
      /\ m * q <= d /\ d < m * q + m
      /\ m * r <= d + 1 /\ d + 1 < m * r + m
  <2>1. \A x \in Nat : /\ x \div m \in Nat /\ x = m * (x \div m) + (x % m)
                       /\ x % m \in 0..(m - 1)
    BY <1>1, Z3
  <2>2. d = m * q + (d % m) /\ d + 1 = m * r + ((d + 1) % m) /\ d + 1 \in Nat
    BY <2>1
  <2>3. m * q \in Nat /\ m * r \in Nat
    <3>1. \A a, b \in Nat : a * b \in Nat
      BY Z3
    <3> QED BY <1>1, <2>1, <3>1
  <2>4. d % m \in 0..(m - 1) /\ (d + 1) % m \in 0..(m - 1) /\ q \in Nat /\ r \in Nat
    BY <2>1
  <2> HIDE DEF q, r
  <2> QED BY <1>1, <2>2, <2>3, <2>4
<1> HIDE DEF q, r
<1>3. \A a, b \in Nat : a * b \in Nat /\ a * b = b * a
  BY Z3
<1>4. q <= r
  <2> SUFFICES ASSUME r + 1 <= q PROVE FALSE
    BY <1>2
  <2>1. PICK k \in Nat : q = (r + 1) + k
    <3>1. q - (r + 1) \in Nat /\ q = (r + 1) + (q - (r + 1))
      BY <1>2
    <3> QED BY <3>1
  <2>2. m * q = m * r + m + m * k
    BY <1>1, <1>2, <2>1, Z3
  <2>3. m * k \in Nat /\ m * q \in Nat /\ m * r \in Nat
    BY <1>1, <1>2, <1>3
  <2> QED BY <1>1, <1>2, <2>2, <2>3
<1>5. m * q <= m * r
  <2>1. PICK k \in Nat : r = q + k
    <3>1. r - q \in Nat /\ r = q + (r - q)
      BY <1>2, <1>4
    <3> QED BY <3>1
  <2>2. m * r = m * q + m * k
    BY <1>1, <1>2, <2>1, Z3
  <2>3. m * k \in Nat /\ m * q \in Nat /\ m * r \in Nat
    BY <1>1, <1>2, <1>3
  <2> QED BY <2>2, <2>3
<1>6. UtcMonthStart(d) = m * q /\ UtcMonthStart(d + 1) = m * r
  BY <1>1, <1>2, <1>3 DEF UtcMonthStart, m, q, r
<1>7. m * q \in Nat
  BY <1>1, <1>2, <1>3
<1> QED BY <1>2, <1>5, <1>6, <1>7 DEF m

\* A row's period is no later than the current month, and what the rows and the log say
\* of the spend fits together.
LogInv ==
  /\ \A t \in TokenIds : tok[t].period <= UtcMonthStart(now)
  /\ \A r \in Requests : req[r].pc = "roll" => req[r].start <= UtcMonthStart(now)
  /\ ReportedSpendIsLogged
  /\ TotalsCoverLog

LEMMA LogTyped ==
  ASSUME TypeOK, NEW t \in TokenIds
  PROVE  /\ tok[t].spent \in Nat /\ tok[t].total \in Nat /\ tok[t].period \in Int
         /\ log[t] \in [Instants -> Nat]
         /\ now \in Instants /\ now \in Nat
         /\ UtcMonthStart(now) \in Nat
         /\ \A d \in Int : LoggedSince(t, d) \in Nat
<1>1. tok[t] \in Row /\ log[t] \in [Instants -> Nat] /\ now \in Instants /\ now \in Nat
  BY TokensAssumption DEF TypeOK, TokOK, Instants
<1>2. tok[t].spent \in Nat /\ tok[t].total \in Nat /\ tok[t].period \in Int
  BY <1>1 DEF Row, NoPeriod
<1>3. ASSUME NEW d \in Int PROVE LoggedSince(t, d) \in Nat
  <2>1. \A i \in Since(d) : log[t][i] \in Nat
    BY <1>1, SinceFinite
  <2>2. Total(log[t], Since(d)) \in Nat
    BY <2>1, SinceFinite, TotalIsNat
  <2> QED BY <2>2, LoggedIsTotal DEF LogRead
<1> QED BY <1>1, <1>2, <1>3, MonthStarts

\* A step that leaves the log, the clock and what the rows have spent alone.
LEMMA SpendUntouched ==
  ASSUME TypeOK, LogInv, log' = log, now' = now,
         \A t \in TokenIds : /\ tok'[t].period = tok[t].period
                             /\ tok'[t].spent = tok[t].spent /\ tok'[t].total = tok[t].total,
         \A r \in Requests : req'[r].pc = "roll" => req'[r].start <= UtcMonthStart(now)
  PROVE  LogInv'
<1>1. UtcMonthStart(now)' = UtcMonthStart(now)
  BY DEF UtcMonthStart
<1>2. \A t \in TokenIds, d \in Int : LoggedSince(t, d)' = LoggedSince(t, d)
  BY LoggedIsTotal DEF LogRead
<1>3. ReportedSpendIsLogged'
  <2> SUFFICES ASSUME NEW t \in TokenIds
               PROVE  ReportedSpend(t)' <= LoggedSince(t, UtcMonthStart(now))'
    BY DEF ReportedSpendIsLogged
  <2>1. ReportedSpend(t)' = ReportedSpend(t)
    BY <1>1 DEF ReportedSpend
  <2>2. LoggedSince(t, UtcMonthStart(now))' = LoggedSince(t, UtcMonthStart(now))
    <3>1. UtcMonthStart(now) \in Int
      BY LogTyped
    <3>2. LoggedSince(t, UtcMonthStart(now))' = Total(log'[t], Since(UtcMonthStart(now)'))
      BY <1>1, <3>1, LoggedIsTotal DEF LogRead
    <3> QED BY <1>1, <3>1, <3>2, LoggedIsTotal DEF LogRead
  <2> QED BY <2>1, <2>2 DEF LogInv, ReportedSpendIsLogged
<1>4. TotalsCoverLog'
  BY <1>2 DEF LogInv, TotalsCoverLog
<1> QED BY <1>1, <1>3, <1>4 DEF LogInv

\* The two parts of LogInv about the log, for the row and the log of t after a step: what the
\* proofs of the steps that change them show.
Backed(t, row, entries, start) ==
  /\ row.period <= start
  /\ row.period >= start => row.spent <= Total(entries, Since(start))
  /\ row.spent <= row.total
  /\ Total(entries, Since(0)) <= row.total

LEMMA LogInvBacked ==
  ASSUME TypeOK, LogInv, NEW t \in TokenIds
  PROVE  Backed(t, tok[t], log[t], UtcMonthStart(now))
<1>1. UtcMonthStart(now) \in Int /\ 0 \in Int
  BY LogTyped
<1>2. LoggedSince(t, UtcMonthStart(now)) = Total(log[t], Since(UtcMonthStart(now)))
      /\ LoggedSince(t, 0) = Total(log[t], Since(0))
  BY <1>1, LoggedIsTotal DEF LogRead
<1>3. /\ tok[t].period <= UtcMonthStart(now)
      /\ ReportedSpend(t) <= LoggedSince(t, UtcMonthStart(now))
      /\ tok[t].spent <= tok[t].total /\ LoggedSince(t, 0) <= tok[t].total
  BY DEF LogInv, ReportedSpendIsLogged, TotalsCoverLog
<1>4. tok[t].period \in Int
  BY LogTyped
<1> QED BY <1>1, <1>2, <1>3, <1>4 DEF Backed, ReportedSpend

LEMMA BackedLogInv ==
  ASSUME TypeOK', NEW start \in Nat, start = UtcMonthStart(now'),
         \A t \in TokenIds : Backed(t, tok'[t], log'[t], start),
         \A r \in Requests : req'[r].pc = "roll" => req'[r].start <= start
  PROVE  LogInv'
<1>1. UtcMonthStart(now)' = start
  BY DEF UtcMonthStart
<1>2. \A t \in TokenIds : LoggedSince(t, UtcMonthStart(now))' = Total(log'[t], Since(start))
                          /\ LoggedSince(t, 0)' = Total(log'[t], Since(0))
  <2>0. start \in Int /\ 0 \in Int
    OBVIOUS
  <2>1. \A t \in TokenIds : LoggedSince(t, start)' = Total(log'[t], Since(start))
                            /\ LoggedSince(t, 0)' = Total(log'[t], Since(0))
    BY <2>0, LoggedIsTotal DEF LogRead
  <2> QED BY <1>1, <2>1
<1>3. ASSUME NEW t \in TokenIds
      PROVE  /\ ReportedSpend(t)' <= LoggedSince(t, UtcMonthStart(now))'
             /\ tok'[t].period <= start
             /\ tok'[t].spent <= tok'[t].total /\ LoggedSince(t, 0)' <= tok'[t].total
  <2>1. tok'[t] \in Row /\ log'[t] \in [Instants -> Nat]
    BY DEF TypeOK, TokOK
  <2>2. Total(log'[t], Since(start)) \in Nat
    <3>1. \A i \in Since(start) : log'[t][i] \in Nat
      BY <2>1, SinceFinite
    <3> QED BY <3>1, SinceFinite, TotalIsNat
  <2>3. tok'[t].period \in Int /\ tok'[t].spent \in Nat
    BY <2>1 DEF Row, NoPeriod
  <2> QED BY <1>1, <1>2, <2>2, <2>3 DEF Backed, ReportedSpend
<1> QED BY <1>1, <1>3 DEF LogInv, ReportedSpendIsLogged, TotalsCoverLog

LEMMA RecordBacked ==
  ASSUME TypeOK, TypeOK', LogInv, NEW r \in Requests, RecordUsage(r)
  PROVE  LogInv'
<1> DEFINE t == req[r].token
           c == req[r].cost
           n == req[r].used
           s == UtcMonthStart(now)
<1>1. t \in TokenIds /\ c \in Nat /\ n \in Nat /\ req[r] \in Call
  <2>1. req[r] \in Call /\ t \in TokenIds
    BY DEF RecordUsage, TypeOK
  <2> QED BY <2>1, MeteringAssumption DEF Call
<1>2. /\ RecordUse(t, c, n) /\ log' = [log EXCEPT ![t][now] = @ + c] /\ now' = now
      /\ req' = [req EXCEPT ![r] = NoCall]
  BY DEF RecordUsage, End
<1> HIDE DEF t, c, n
<1>3. /\ tok'[t].spent = tok[t].spent + c /\ tok'[t].total = tok[t].total + c
      /\ tok'[t].period = tok[t].period
      /\ \A d \in TokenIds \ {t} : tok'[d] = tok[d]
  BY <1>1, <1>2 DEF RecordUse, TypeOK, TokOK, Row
<1>4. /\ s \in Nat /\ s <= now /\ now \in Instants /\ now \in Nat
      /\ tok[t].spent \in Nat /\ tok[t].total \in Nat /\ tok[t].period \in Int
  BY <1>1, LogTyped, MonthStarts
<1>5. /\ log'[t][now] = log[t][now] + c
      /\ \A i \in Instants \ {now} : log'[t][i] = log[t][i]
      /\ \A d \in TokenIds \ {t} : log'[d] = log[d]
  BY <1>1, <1>2, <1>4 DEF TypeOK
<1>6. ASSUME NEW d \in Nat, d <= now
      PROVE  /\ Total(log'[t], Since(d)) = Total(log[t], Since(d)) + c
             /\ Total(log[t], Since(d)) \in Nat
  <2>1. now \in Since(d) /\ IsFiniteSet(Since(d)) /\ Since(d) \subseteq Instants
    BY <1>4, <1>6, SinceFinite DEF Since
  <2>2. \A i \in Since(d) : log[t][i] \in Nat
    BY <1>1, <2>1 DEF TypeOK
  <2>3. \A i \in Since(d) \ {now} : log'[t][i] = log[t][i]
    BY <1>5, <2>1
  <2> QED BY <1>1, <1>5, <2>1, <2>2, <2>3, TotalGrows, TotalIsNat
<1>7. Backed(t, tok'[t], log'[t], s)
  <2>1. Backed(t, tok[t], log[t], s)
    BY <1>1, LogInvBacked
  <2>2. 0 \in Nat /\ 0 <= now
    BY <1>4
  <2> HIDE DEF s
  <2> QED BY <1>1, <1>3, <1>4, <1>6, <2>1, <2>2 DEF Backed
<1>8. ASSUME NEW d \in TokenIds PROVE Backed(d, tok'[d], log'[d], s)
  <2>1. CASE d = t
    BY <1>7, <2>1
  <2>2. CASE d # t
    <3>1. tok'[d] = tok[d] /\ log'[d] = log[d]
      BY <1>3, <1>5, <2>2
    <3> QED BY <3>1, LogInvBacked
  <2> QED BY <2>1, <2>2
<1>9. \A q \in Requests : req'[q].pc = "roll" => req'[q].start <= s
  BY <1>2 DEF LogInv, NoCall, TypeOK
<1>10. s = UtcMonthStart(now')
  BY <1>2
<1> HIDE DEF s
<1> QED BY <1>4, <1>8, <1>9, <1>10, BackedLogInv

LEMMA RollBacked ==
  ASSUME TypeOK, TypeOK', LogInv, NEW r \in Requests, Roll(r)
  PROVE  LogInv'
<1> DEFINE t == req[r].token
           s == UtcMonthStart(now)
<1>1. t \in TokenIds /\ req[r] \in Call /\ req[r].start \in Nat /\ req[r].start <= s
  BY DEF Roll, Advance, TypeOK, LogInv, Call
<1>2. /\ RollPeriod(t, req[r].start) /\ log' = log /\ now' = now
      /\ req' = [req EXCEPT ![r].pc = "reread"]
  BY DEF Roll, Advance
<1> HIDE DEF t
<1>3. /\ s \in Nat /\ tok[t].total \in Nat /\ now \in Nat
  BY <1>1, LogTyped
<1>4. Backed(t, tok'[t], log'[t], s) /\ \A d \in TokenIds \ {t} : tok'[d] = tok[d]
  <2>1. CASE NeedsRoll(t, req[r].start)
    <3>1. /\ tok'[t].spent = 0 /\ tok'[t].period = req[r].start /\ tok'[t].total = tok[t].total
          /\ \A d \in TokenIds \ {t} : tok'[d] = tok[d]
      BY <1>1, <1>2, <2>1 DEF RollPeriod, TypeOK, TokOK, Row
    <3>2. \A d \in Int : Total(log[t], Since(d)) \in Nat
      BY <1>1, LogTyped, LoggedIsTotal DEF LogRead
    <3>3. Backed(t, tok[t], log[t], s)
      BY <1>1, LogInvBacked
    <3> HIDE DEF s
    <3> QED BY <1>1, <1>2, <1>3, <3>1, <3>2, <3>3 DEF Backed
  <2>2. CASE ~NeedsRoll(t, req[r].start)
    BY <1>1, <1>2, <2>2, LogInvBacked DEF RollPeriod
  <2> QED BY <2>1, <2>2
<1>5. \A d \in TokenIds : Backed(d, tok'[d], log'[d], s)
  BY <1>2, <1>4, LogInvBacked
<1>6. \A q \in Requests : req'[q].pc = "roll" => req'[q].start <= s
  BY <1>2 DEF LogInv, TypeOK, Call
<1>7. s = UtcMonthStart(now')
  BY <1>2
<1> HIDE DEF s
<1> QED BY <1>3, <1>5, <1>6, <1>7, BackedLogInv

\* Pruning takes nothing of the current month: the retention is at least a month.
LEMMA PruneBacked ==
  ASSUME TypeOK, TypeOK', LogInv, Prune
  PROVE  LogInv'
<1> DEFINE s == UtcMonthStart(now)
<1>1. tok' = tok /\ now' = now /\ req' = req
      /\ log' = [t \in TokenIds |-> [d \in Instants |-> IF d < RetentionCutoff THEN 0 ELSE log[t][d]]]
  BY DEF Prune, reqVars
<1>2. now \in Nat /\ s \in Nat /\ now < s + MonthLength /\ s <= now
  <2>1. now \in Nat
    BY TokensAssumption DEF TypeOK, Instants
  <2> QED BY <2>1, MonthStarts
<1>3. \A i \in Instants : i \in Nat
  BY TokensAssumption DEF Instants
<1>4. ASSUME NEW t \in TokenIds PROVE Backed(t, tok'[t], log'[t], s)
  <2>1. \A i \in Instants : log'[t][i] = IF i < RetentionCutoff THEN 0 ELSE log[t][i]
    BY <1>1
  <2>2. log[t] \in [Instants -> Nat]
    BY DEF TypeOK
  <2>3. Total(log'[t], Since(s)) = Total(log[t], Since(s))
    <3>1. ASSUME NEW i \in Since(s) PROVE log'[t][i] = log[t][i]
      <4>1. i \in Instants /\ i >= s
        BY DEF Since
      <4>2. ~(i < now - Retention)
        BY <1>2, <1>3, <4>1, MeteringAssumption, TokensAssumption
      <4> QED BY <2>1, <4>1, <4>2 DEF RetentionCutoff
    <3> QED BY <3>1, SinceFinite, TotalAgrees
  <2>4. Total(log'[t], Since(0)) <= Total(log[t], Since(0))
    <3>1. IsFiniteSet(Since(0)) /\ Since(0) \subseteq Instants /\ Since(0) \in SUBSET Since(0)
      BY SinceFinite
    <3>2. \A i \in Since(0) : log[t][i] \in Nat /\ log'[t][i] \in Nat /\ log'[t][i] <= log[t][i]
      BY <2>1, <2>2, <3>1
    <3> QED BY <3>1, <3>2, TotalMonotone
  <2>5. Backed(t, tok[t], log[t], s) /\ tok[t].total \in Nat
    BY LogInvBacked, LogTyped
  <2>6. Total(log[t], Since(0)) \in Nat /\ Total(log'[t], Since(0)) \in Nat
    <3>1. log'[t] \in [Instants -> Nat]
      BY DEF TypeOK
    <3> QED BY <2>2, <3>1, SinceFinite, TotalIsNat
  <2> HIDE DEF s
  <2> QED BY <1>1, <2>3, <2>4, <2>5, <2>6 DEF Backed
<1>5. s = UtcMonthStart(now') /\ \A q \in Requests : req'[q].pc = "roll" => req'[q].start <= s
  BY <1>1 DEF LogInv
<1> HIDE DEF s
<1> QED BY <1>2, <1>4, <1>5, BackedLogInv

\* In a new month nothing has been spent yet: every row is of an earlier one.
LEMMA TickBacked ==
  ASSUME TypeOK, TypeOK', LogInv, Tick
  PROVE  LogInv'
<1> DEFINE s == UtcMonthStart(now)
           z == UtcMonthStart(now + 1)
<1>1. tok' = tok /\ log' = log /\ req' = req /\ now' = now + 1
  BY DEF Tick, reqVars
<1>2. s \in Nat /\ z \in Nat /\ s <= z
  <2>1. now \in Nat /\ now + 1 \in Nat
    BY TokensAssumption DEF TypeOK, Instants
  <2> QED BY <2>1, MonthStarts
<1>3. ASSUME NEW t \in TokenIds PROVE Backed(t, tok'[t], log'[t], z)
  <2>1. Backed(t, tok[t], log[t], s) /\ tok[t].period \in Int
    BY LogInvBacked, LogTyped
  <2> HIDE DEF s, z
  <2> QED BY <1>1, <1>2, <2>1 DEF Backed
<1>4. \A q \in Requests : req'[q].pc = "roll" => req'[q].start <= z
  <2>1. ASSUME NEW q \in Requests, req[q].pc = "roll" PROVE req[q].start <= z
    <3>1. req[q].start \in Nat /\ req[q].start <= s
      BY <2>1 DEF TypeOK, Call, LogInv
    <3> HIDE DEF s, z
    <3> QED BY <1>2, <3>1
  <2> QED BY <1>1, <2>1
<1>5. z = UtcMonthStart(now')
  BY <1>1
<1> HIDE DEF s, z
<1> QED BY <1>2, <1>3, <1>4, <1>5, BackedLogInv

LEMMA NextKeepsLog == TypeOK /\ LogInv /\ [Next]_vars => LogInv'
<1> SUFFICES ASSUME TypeOK, LogInv, [Next]_vars PROVE LogInv'
  OBVIOUS
<1>0. TypeOK'
  BY NextKeepsTypes
<1>1. UtcMonthStart(now) \in Nat
  <2>1. now \in Nat
    BY TokensAssumption DEF TypeOK, Instants
  <2> QED BY <2>1, MonthStarts
\* The steps of a call that only move it on.
<1>2. ASSUME UNCHANGED <<tok, now, log>>,
             \A r \in Requests : req'[r].pc = "roll" => req'[r].start <= UtcMonthStart(now)
      PROVE  LogInv'
  BY <1>2, SpendUntouched
<1>3. ASSUME NEW r \in Requests, NEW c, req' = [req EXCEPT ![r] = c], c.pc # "roll",
             UNCHANGED <<tok, now, log>>
      PROVE  LogInv'
  <2>1. \A q \in Requests : req'[q].pc = "roll" => req'[q].start <= UtcMonthStart(now)
    BY <1>3 DEF TypeOK, LogInv
  <2> QED BY <1>2, <1>3, <2>1
<1>4. ASSUME NEW r \in Requests, NEW t \in TokenIds, Lookup(r, t) PROVE LogInv'
  <2> DEFINE c == [NoCall EXCEPT !.pc = "looked", !.token = t, !.snap = tok[t]]
  <2>1. c.pc # "roll" /\ req' = [req EXCEPT ![r] = c] /\ UNCHANGED <<tok, now, log>>
    BY <1>4 DEF Lookup, NoCall
  <2> HIDE DEF c
  <2> QED BY <1>3, <2>1
<1>5. ASSUME NEW r \in Requests, End(r), UNCHANGED <<tok, now, log>> PROVE LogInv'
  <2>1. NoCall.pc # "roll"
    BY DEF NoCall
  <2> QED BY <1>3, <1>5, <2>1 DEF End
<1>6. ASSUME NEW r \in Requests, NEW row, Decide(r, row), UNCHANGED <<tok, now, log>> PROVE LogInv'
  <2>1. CASE req' = [req EXCEPT ![r].pc = "upstream"]
    BY <1>2, <1>6, <2>1 DEF TypeOK, LogInv, Call
  <2> QED BY <1>5, <1>6, <2>1 DEF Decide
<1>7. ASSUME NEW r \in Requests, NEW cost, NEW used, Report(r, cost, used), UNCHANGED <<tok, now, log>>
      PROVE  LogInv'
  BY <1>2, <1>7 DEF Report, TypeOK, LogInv, Call
<1>8. ASSUME NEW r \in Requests, CheckUsable(r) PROVE LogInv'
  <2>1. UNCHANGED <<tok, now, log>>
    BY <1>8 DEF CheckUsable
  <2>2. CASE req' = [req EXCEPT ![r].pc = "roll", ![r].start = UtcMonthStart(now)]
    <3>1. \A q \in Requests : req'[q].pc = "roll" => req'[q].start <= UtcMonthStart(now)
      BY <1>1, <2>2 DEF TypeOK, LogInv, Call
    <3> QED BY <1>2, <2>1, <3>1
  <2> QED BY <1>5, <1>6, <1>8, <2>1, <2>2 DEF CheckUsable
<1>9. ASSUME NEW r \in Requests, Reread(r) PROVE LogInv'
  <2>1. \A q \in Requests : req'[q].pc = "roll" => req'[q].start <= UtcMonthStart(now)
    BY <1>9 DEF Reread, TypeOK, LogInv, Call
  <2> QED BY <1>2, <1>9, <2>1 DEF Reread
<1>10. ASSUME NEW r \in Requests, CallStep(r) PROVE LogInv'
  <2>1. CASE ProcessExit
    BY <1>2, <2>1 DEF ProcessExit, NoCall
  <2> QED BY <1>0, <1>5, <1>6, <1>7, <1>8, <1>9, <1>10, <2>1, RecordBacked, RollBacked
          DEF CallStep, CheckBudget, UpstreamAnswers, FetchFails, FetchAborted, BodyReadFails,
              RecordFails
\* The writes of administrators, which leave the spend alone.
<1>11. ASSUME UNCHANGED <<now, req, log>>,
              \A t \in TokenIds : /\ tok'[t].period = tok[t].period
                                  /\ tok'[t].spent = tok[t].spent /\ tok'[t].total = tok[t].total
       PROVE  LogInv'
  <2>1. \A q \in Requests : req'[q].pc = "roll" => req'[q].start <= UtcMonthStart(now)
    BY <1>11 DEF LogInv
  <2> QED BY <1>11, <2>1, SpendUntouched
<1>12. ASSUME NEW a \in Admins, WriteBudget(a) PROVE LogInv'
  BY <1>11, <1>12 DEF WriteBudget, SetBudget, TypeOK, TokOK, Row
<1>13. CASE Backfill
  BY <1>11, <1>13 DEF Backfill, BackfillBudget, TypeOK, TokOK, Row, reqVars
<1>14. ASSUME NEW t \in TokenIds, Revoke(t) PROVE LogInv'
  BY <1>11, <1>14 DEF Revoke, SetRevokedAt, TypeOK, TokOK, Row, reqVars
<1>15. CASE ProcessExit
  BY <1>2, <1>15 DEF ProcessExit, NoCall
<1>16. CASE UNCHANGED vars \/ \E a \in Admins, t \in TokenIds, b \in Budgets : ReadBudget(a, t, b)
  <2>1. UNCHANGED <<tok, now, req, log>>
    BY <1>16 DEF vars, ReadBudget
  <2> QED BY <1>11, <2>1
<1> QED BY <1>0, <1>4, <1>10, <1>12, <1>13, <1>14, <1>15, <1>16, PruneBacked, TickBacked DEF Next

LEMMA InitLogged == Init => LogInv
<1> SUFFICES ASSUME Init PROVE LogInv
  OBVIOUS
<1>0. TypeOK
  BY InitTyped
<1>1. UtcMonthStart(now) = 0 /\ now = 0
  <2>1. 0 \div MonthLength = 0 /\ 0 * MonthLength = 0
    BY TokensAssumption, Z3
  <2> QED BY <2>1 DEF Init, UtcMonthStart
<1>2. \A t \in TokenIds : tok[t].spent = 0 /\ tok[t].total = 0 /\ tok[t].period \in {NoPeriod, 0}
  BY DEF Init, GrantedRow
<1>3. \A t \in TokenIds, d \in Int : LoggedSince(t, d) = 0
  <2> SUFFICES ASSUME NEW t \in TokenIds, NEW d \in Int PROVE Total(log[t], Since(d)) = 0
    BY LoggedIsTotal DEF LogRead
  <2> DEFINE zero == [i \in Instants |-> 0]
  <2>1. log[t] = zero
    BY DEF Init
  <2>2. \A i \in Since(d) : zero[i] = 0
    BY SinceFinite
  <2> HIDE DEF zero
  <2>3. Total(zero, Since(d)) = 0
    BY <2>2, SinceFinite, TotalZero
  <2> QED BY <2>1, <2>3
<1>4. ReportedSpendIsLogged /\ TotalsCoverLog
  BY <1>1, <1>2, <1>3 DEF ReportedSpendIsLogged, ReportedSpend, TotalsCoverLog
<1> QED BY <1>1, <1>2, <1>4 DEF LogInv, Init, NoCall, NoPeriod

\* The spend shown for the current month is never more than the calls the log still has for
\* it, for any number of calls, months and prunings.
THEOREM ReportedIsLogged == Spec => []ReportedSpendIsLogged
<1>1. LogInv => ReportedSpendIsLogged
  BY DEF LogInv
<1> QED BY <1>1, InitLogged, NextKeepsLog, TypeCorrect, PTL DEF Spec

\* The running total is at least the spend of the period and at least what the log has.
THEOREM TotalsCover == Spec => []TotalsCoverLog
<1>1. LogInv => TotalsCoverLog
  BY DEF LogInv
<1> QED BY <1>1, InitLogged, NextKeepsLog, TypeCorrect, PTL DEF Spec

----------------------------------------------------------------------------
(* The handlers implement the meter. *)

MeterProofs == INSTANCE SpendMeter_proofs WITH
  Tokens <- TokenIds,
  Slots <- Requests,
  InitialCaps <- InitialBudgets,
  NoCap <- NoBudget,
  spent <- Spending,
  holds <- Holding

\* What SpendMeter asks of its constants.
LEMMA MeterConstants == Meter!MeterAssumption
<1>1. MaxCost \in Nat /\ Budgets \subseteq Nat \ {0}
  BY TokensAssumption, MeteringAssumption
<1>2. InitialBudgets \subseteq Budgets \cup {NoBudget}
  BY MeteringAssumption DEF InitialBudgets
<1>3. NoToken \notin TokenIds
  BY TokensAssumption DEF NoToken, TokenIds
<1>4. NoBudget \notin Nat
  BY DEF NoBudget
<1>5. Meter!IsFiniteSet(Requests)
  BY MeteringAssumption DEF Meter!IsFiniteSet, IsFiniteSet
<1> QED BY <1>1, <1>2, <1>3, <1>4, <1>5 DEF Meter!MeterAssumption

\* A row within its budget is one whose meter is below its cap.
LEMMA WithinBudgetIsBelow ==
  ASSUME IInv, NEW t \in TokenIds, WithinBudget(tok[t])
  PROVE  Meter!Below(t)
<1>1. /\ tok[t].spent \in Nat /\ tok[t].budget \in Nat \cup {NoBudget}
      /\ cap[t] \in Nat \cup {NoBudget}
  BY DEF IInv, TypeOK, TokOK, Row
<1>2. Spending[t] = tok[t].spent
  BY DEF Spending
<1> QED BY <1>1, <1>2 DEF IInv, BudgetWithinCap, WithinBudget, Meter!Below, NoBudget

\* A call that nobody holds anything for takes the meter, or does not.
LEMMA TakeOrStutter ==
  ASSUME IInv, NEW r \in Requests, NEW t \in TokenIds,
         ~Holds(r), UNCHANGED <<tok, cap>>, req'[r].token = t,
         Holds(r)' => WithinBudget(tok[t]),
         \A q \in Requests \ {r} : req'[q] = req[q]
  PROVE  Meter!Take(r, t) \/ UNCHANGED Meter!vars
<1>1. \A q \in Requests \ {r} : Holding'[q] = Holding[q]
  BY DEF Holding, Holds, WithinBudget
<1>2. Holding[r] = NoToken /\ Holding'[r] = IF Holds(r)' THEN t ELSE NoToken
  BY DEF Holding
<1>3. UNCHANGED <<Spending, cap>>
  BY DEF Spending
<1>4. CASE Holds(r)'
  <2>1. Holding' = [Holding EXCEPT ![r] = t]
    BY <1>1, <1>2, <1>4 DEF Holding
  <2> QED BY <1>2, <1>3, <1>4, <2>1, WithinBudgetIsBelow DEF Meter!Take
<1>5. CASE ~Holds(r)'
  <2>1. Holding' = Holding
    BY <1>1, <1>2, <1>5 DEF Holding
  <2> QED BY <1>3, <2>1 DEF Meter!vars
<1> QED BY <1>4, <1>5

\* A step of one call that leaves it holding what it held, or nothing.
LEMMA KeepOrDrop ==
  ASSUME NEW r \in Requests, UNCHANGED <<tok, cap>>,
         \A q \in Requests \ {r} : req'[q] = req[q],
         Holds(r)' => Holds(r) /\ req'[r].token = req[r].token
  PROVE  Meter!Drop({r}) \/ UNCHANGED Meter!vars
<1>1. \A q \in Requests \ {r} : Holding'[q] = Holding[q]
  BY DEF Holding, Holds, WithinBudget
<1>2. UNCHANGED <<Spending, cap>>
  BY DEF Spending
<1>3. CASE Holds(r)'
  <2>1. Holding' = Holding
    BY <1>1, <1>3 DEF Holding
  <2> QED BY <1>2, <2>1 DEF Meter!vars
<1>4. CASE ~Holds(r)'
  <2>1. Holding' = [q \in Requests |-> IF q \in {r} THEN NoToken ELSE Holding[q]]
    BY <1>1, <1>4 DEF Holding
  <2> QED BY <1>2, <2>1 DEF Meter!Drop
<1> QED BY <1>3, <1>4

LEMMA CallsImplementMeter ==
  ASSUME IInv, NEW r \in Requests
  PROVE  /\ \A t \in TokenIds : Lookup(r, t) => [Meter!Next]_(Meter!vars)
         /\ CallStep(r) => [Meter!Next]_(Meter!vars)
<1>0. TypeOK /\ req \in [Requests -> Call]
  BY DEF IInv, TypeOK
<1>d. ASSUME Meter!Drop({r}) \/ UNCHANGED Meter!vars PROVE [Meter!Next]_(Meter!vars)
  <2>1. {r} \in SUBSET Requests
    OBVIOUS
  <2> QED BY <1>d, <2>1 DEF Meter!Next
<1>1. ASSUME NEW t \in TokenIds, Lookup(r, t) PROVE [Meter!Next]_(Meter!vars)
  <2>1. /\ ~Holds(r) /\ UNCHANGED <<tok, cap>> /\ req'[r].token = t
        /\ req'[r].snap = tok[t] /\ req'[r].pc = "looked"
        /\ \A q \in Requests \ {r} : req'[q] = req[q]
    BY <1>0, <1>1 DEF Lookup, Holds, NoCall
  <2>2. Holds(r)' => WithinBudget(tok[t])
    BY <2>1 DEF Holds, WithinBudget
  <2> QED BY <2>1, <2>2, TakeOrStutter DEF Meter!Next
<1>2. ASSUME CheckUsable(r) PROVE [Meter!Next]_(Meter!vars)
  <2>1. req[r].pc = "looked" /\ UNCHANGED <<tok, cap>>
    BY <1>2 DEF CheckUsable
  <2>2. \A q \in Requests \ {r} : req'[q] = req[q]
    BY <1>0, <1>2 DEF CheckUsable, Decide, End
  <2>3. Holds(r)' => Holds(r) /\ req'[r].token = req[r].token
    <3>1. CASE End(r)
      BY <1>0, <3>1 DEF End, NoCall, Holds
    <3>2. CASE Decide(r, req[r].snap)
      BY <1>0, <2>1, <3>1, <3>2 DEF Decide, Holds, Call
    <3>3. CASE req' = [req EXCEPT ![r].pc = "roll", ![r].start = UtcMonthStart(now)]
      BY <1>0, <3>3 DEF Holds, Call
    <3> QED BY <1>2, <3>1, <3>2, <3>3 DEF CheckUsable
  <2> QED BY <2>1, <2>2, <2>3, KeepOrDrop, <1>d
<1>3. ASSUME Roll(r) PROVE [Meter!Next]_(Meter!vars)
  <2> DEFINE t == req[r].token
             b == IF tok[t].budget = NoBudget THEN DefaultBudget ELSE tok[t].budget
  <2>1. t \in TokenIds
    BY <1>3, <1>0 DEF Roll, Advance, TypeOK
  <2>2. b \in Budgets
    BY <2>1, MeteringAssumption DEF IInv, TypeOK, TokOK
  <2>3. Holding' = Holding
    <3>1. \A q \in Requests : (Holds(q)' <=> Holds(q)) /\ req'[q].token = req[q].token
      BY <1>0, <1>3 DEF Roll, Advance, Holds, Call, WithinBudget
    <3> QED BY <3>1 DEF Holding
  <2>4. CASE NeedsRoll(t, req[r].start)
    <3>1. Spending' = [Spending EXCEPT ![t] = 0]
      BY <1>0, <1>3, <2>1, <2>4 DEF Roll, RollPeriod, Spending, TypeOK, TokOK, Row
    <3>2. cap' = [cap EXCEPT ![t] = tok[t].budget]
      BY <1>3, <2>4 DEF Roll
    <3>3. cap[t] = NoBudget <=> tok[t].budget = NoBudget
      BY <2>1 DEF IInv, BudgetWithinCap
    <3>4. Meter!NewPeriod(t, b)
      BY <2>3, <3>1, <3>2, <3>3 DEF Meter!NewPeriod
    <3> QED BY <2>1, <2>2, <3>4 DEF Meter!Next
  <2>5. CASE ~NeedsRoll(t, req[r].start)
    <3>1. Spending' = Spending /\ cap' = cap
      BY <1>3, <2>5 DEF Roll, RollPeriod, Spending
    <3> QED BY <2>3, <3>1 DEF Meter!vars
  <2> QED BY <2>4, <2>5
<1>4. ASSUME Reread(r) PROVE [Meter!Next]_(Meter!vars)
  <2> DEFINE t == req[r].token
  <2>1. t \in TokenIds /\ ~Holds(r) /\ UNCHANGED <<tok, cap>>
    BY <1>0, <1>4 DEF Reread, Holds, TypeOK
  <2>2. /\ req'[r].token = t /\ req'[r].snap = tok[t] /\ req'[r].pc = "reloaded"
        /\ \A q \in Requests \ {r} : req'[q] = req[q]
    BY <1>0, <1>4 DEF Reread, Call
  <2>3. Holds(r)' => WithinBudget(tok[t])
    BY <2>2 DEF Holds, WithinBudget
  <2> HIDE DEF t
  <2> QED BY <2>1, <2>2, <2>3, TakeOrStutter DEF Meter!Next
<1>5. ASSUME CheckBudget(r) PROVE [Meter!Next]_(Meter!vars)
  <2>1. req[r].pc = "reloaded" /\ UNCHANGED <<tok, cap>>
    BY <1>5 DEF CheckBudget
  <2>2. \A q \in Requests \ {r} : req'[q] = req[q]
    BY <1>0, <1>5 DEF CheckBudget, Decide, End
  <2>3. Holds(r)' => Holds(r) /\ req'[r].token = req[r].token
    BY <1>0, <1>5, <2>1 DEF CheckBudget, Decide, End, Holds, Call, NoCall
  <2> QED BY <2>1, <2>2, <2>3, KeepOrDrop, <1>d
<1>6. ASSUME NEW c \in 0..MaxCost, NEW n \in Nat, req[r].pc = "upstream", Report(r, c, n),
             UNCHANGED <<tok, cap>>
      PROVE  [Meter!Next]_(Meter!vars)
  <2>1. \A q \in Requests \ {r} : req'[q] = req[q]
    BY <1>0, <1>6 DEF Report
  <2>2. Holds(r)' => Holds(r) /\ req'[r].token = req[r].token
    BY <1>0, <1>6 DEF Report, Holds, Call
  <2> QED BY <1>6, <2>1, <2>2, KeepOrDrop, <1>d
<1>7. ASSUME End(r), UNCHANGED <<tok, cap>> PROVE [Meter!Next]_(Meter!vars)
  <2>1. (\A q \in Requests \ {r} : req'[q] = req[q]) /\ req'[r] = NoCall
    BY <1>0, <1>7 DEF End
  <2>2. ~Holds(r)'
    BY <2>1 DEF Holds, NoCall
  <2> QED BY <1>7, <2>1, <2>2, KeepOrDrop, <1>d
<1>8. ASSUME ProcessExit PROVE [Meter!Next]_(Meter!vars)
  <2>1. UNCHANGED <<tok, cap>> /\ \A q \in Requests : ~Holds(q)'
    BY <1>8 DEF ProcessExit, Holds, NoCall
  <2>2. Holding' = [q \in Requests |-> IF q \in Requests THEN NoToken ELSE Holding[q]]
    BY <2>1 DEF Holding
  <2>3. Meter!Drop(Requests)
    BY <2>1, <2>2 DEF Meter!Drop, Spending
  <2> QED BY <2>3 DEF Meter!Next
<1>9. ASSUME RecordUsage(r) PROVE [Meter!Next]_(Meter!vars)
  <2> DEFINE t == req[r].token
             c == req[r].cost
  <2>1. t \in TokenIds /\ c \in 0..MaxCost /\ Holding[r] = t /\ t # NoToken
    BY <1>0, <1>9 DEF RecordUsage, TypeOK, Call, Holding, Holds, TokenIds, NoToken
  <2>2. Spending' = [Spending EXCEPT ![Holding[r]] = @ + c]
    <3>1. req[r].used \in Nat /\ c \in Nat /\ RecordUse(t, c, req[r].used) /\ TokOK
      BY <1>0, <1>9, <2>1, MeteringAssumption DEF RecordUsage, TypeOK, Call
    <3>2. \A d \in TokenIds : tok'[d].spent = IF d = t THEN tok[d].spent + c ELSE tok[d].spent
      BY <2>1, <3>1, RecordUseAdds
    <3> HIDE DEF t, c
    <3> QED BY <2>1, <3>2 DEF Spending
  <2>3. Holding' = [Holding EXCEPT ![r] = NoToken]
    <3>1. (\A q \in Requests \ {r} : req'[q] = req[q]) /\ req'[r] = NoCall
      BY <1>0, <1>9 DEF RecordUsage, End
    <3>2. ~Holds(r)'
      BY <3>1 DEF Holds, NoCall
    <3>3. \A q \in Requests \ {r} : Holding'[q] = Holding[q]
      BY <3>1 DEF Holding, Holds, WithinBudget
    <3> QED BY <3>2, <3>3 DEF Holding
  <2>4. Meter!Charge(r, c)
    BY <1>9, <2>1, <2>2, <2>3 DEF Meter!Charge, RecordUsage
  <2> HIDE DEF c
  <2> QED BY <2>1, <2>4 DEF Meter!Next
<1>10. 0 \in 0..MaxCost /\ 0 \in Nat /\ TokenCounts \subseteq Nat
  BY MeteringAssumption
<1> QED
  BY <1>1, <1>2, <1>3, <1>4, <1>5, <1>6, <1>7, <1>8, <1>9, <1>10
  DEF CallStep, UpstreamAnswers, FetchFails, FetchAborted, BodyReadFails, RecordFails

LEMMA NextImplementsMeter == IInv /\ [Next]_vars => [Meter!Next]_(Meter!vars)
<1> SUFFICES ASSUME IInv, [Next]_vars PROVE [Meter!Next]_(Meter!vars)
  OBVIOUS
<1>u. ASSUME UNCHANGED <<req, cap>>, \A t \in TokenIds : tok'[t].spent = tok[t].spent
      PROVE  UNCHANGED Meter!vars
  BY <1>u DEF Meter!vars, Spending, Holding, Holds, WithinBudget
<1>1. ASSUME NEW r \in Requests, NEW t \in TokenIds, Lookup(r, t)
      PROVE  [Meter!Next]_(Meter!vars)
  BY <1>1, CallsImplementMeter
<1>2. ASSUME NEW r \in Requests, CallStep(r) PROVE [Meter!Next]_(Meter!vars)
  BY <1>2, CallsImplementMeter
<1>3. ASSUME NEW a \in Admins, WriteBudget(a) PROVE [Meter!Next]_(Meter!vars)
  <2> DEFINE t == adm[a].token
             b == adm[a].to
  <2>1. t \in TokenIds /\ b \in Budgets
    BY <1>3 DEF WriteBudget, IInv, TypeOK
  <2>2. \A u \in TokenIds : tok'[u].spent = tok[u].spent
    BY <1>3 DEF WriteBudget, SetBudget, IInv, TypeOK, TokOK, Row
  <2>3. UNCHANGED <<Spending, Holding>>
    BY <1>3, <2>2 DEF WriteBudget, Spending, Holding, Holds, WithinBudget
  <2>4. Meter!Raised(t, b) = CapWith(t, b)
    BY <2>1 DEF Meter!Raised, CapWith, Spending
  <2>5. cap' = [u \in TokenIds |-> IF u \in {t} THEN Meter!Raised(u, b) ELSE cap[u]]
    BY <1>3, <2>1, <2>4 DEF WriteBudget, IInv, TypeOK
  <2>6. Meter!Raise({t}, b)
    BY <2>3, <2>5 DEF Meter!Raise
  <2> HIDE DEF t, b
  <2> QED BY <2>1, <2>6 DEF Meter!Next
<1>4. CASE Backfill
  <2>1. DefaultBudget \in Budgets /\ Unbudgeted \in SUBSET TokenIds
    BY MeteringAssumption DEF Unbudgeted
  <2>2. \A u \in TokenIds : tok'[u].spent = tok[u].spent
    BY <1>4 DEF Backfill, BackfillBudget, IInv, TypeOK, TokOK, Row
  <2>3. UNCHANGED <<Spending, Holding>>
    BY <1>4, <2>2 DEF Backfill, reqVars, Spending, Holding, Holds, WithinBudget
  <2>4. \A u \in TokenIds : Meter!Raised(u, DefaultBudget) = CapWith(u, DefaultBudget)
    BY DEF Meter!Raised, CapWith, Spending
  <2>5. Meter!Raise(Unbudgeted, DefaultBudget)
    BY <1>4, <2>3, <2>4 DEF Meter!Raise, Backfill
  <2> QED BY <2>1, <2>5 DEF Meter!Next
<1>5. ASSUME NEW t \in TokenIds, Revoke(t) PROVE [Meter!Next]_(Meter!vars)
  <2>1. \A u \in TokenIds : tok'[u].spent = tok[u].spent
    BY <1>5 DEF Revoke, SetRevokedAt, IInv, TypeOK, TokOK, Row
  <2> QED BY <1>5, <2>1, <1>u DEF Revoke, reqVars
<1>6. CASE ProcessExit
  <2>1. UNCHANGED <<tok, cap>> /\ \A q \in Requests : ~Holds(q)'
    BY <1>6 DEF ProcessExit, Holds, NoCall
  <2>2. Holding' = [q \in Requests |-> IF q \in Requests THEN NoToken ELSE Holding[q]]
    BY <2>1 DEF Holding
  <2>3. Meter!Drop(Requests)
    BY <2>1, <2>2 DEF Meter!Drop, Spending
  <2> QED BY <2>3 DEF Meter!Next
<1>7. CASE UNCHANGED <<tok, req, cap>>
  BY <1>7, <1>u
<1> QED
  BY <1>1, <1>2, <1>3, <1>4, <1>5, <1>6, <1>7 DEF Next, ReadBudget, Prune, Tick, reqVars, vars

\* The handlers implement the abstract meter: each of their steps takes hold of
\* it, charges it, lets go of it, begins a period, raises a cap, or does not
\* concern it.
THEOREM ImplementsMeter == Spec => MeterSpec
<1>1. Init => Meter!Init
  <2> SUFFICES ASSUME Init PROVE Meter!Init
    OBVIOUS
  <2>1. \A t \in TokenIds : \E b \in InitialBudgets, e \in Expiries, u \in Users :
          tok[t] = GrantedRow(b, e, u)
    BY DEF Init
  <2>2. ASSUME NEW t \in TokenIds
        PROVE  tok[t].spent = 0 /\ tok[t].budget \in InitialBudgets
    <3>1. PICK b \in InitialBudgets, e \in Expiries, u \in Users : tok[t] = GrantedRow(b, e, u)
      BY <2>1
    <3> QED BY <3>1 DEF GrantedRow
  <2>3. Spending = [t \in TokenIds |-> 0]
    BY <2>2 DEF Spending
  <2>4. cap \in [TokenIds -> InitialBudgets]
    BY <2>2 DEF Init
  <2>5. Holding = [r \in Requests |-> NoToken]
    BY DEF Init, NoCall, Holding, Holds
  <2> QED BY <2>3, <2>4, <2>5 DEF Meter!Init
<1>2. IInv /\ [Next]_vars => [Meter!Next]_(Meter!vars)
  BY NextImplementsMeter
<1> QED BY <1>1, <1>2, Inductive, PTL DEF Spec, MeterSpec, Meter!Spec

\* However calls, months and budget changes interleave, the spend of a token
\* stays below the largest budget of the period plus the cost of one call per
\* concurrent request.
THEOREM OvershootIsBounded == Spec => []BudgetOvershootBounded
<1>1. MeterProofs!MeterAssumption
  BY MeterConstants DEF Meter!MeterAssumption, MeterProofs!MeterAssumption,
                        Meter!IsFiniteSet, MeterProofs!IsFiniteSet
<1>2. MeterProofs!Spec => []MeterProofs!OvershootBounded
  BY <1>1, MeterProofs!MeterOvershootBounded
<1>3. MeterSpec => MeterProofs!Spec
  BY DEF MeterSpec, Meter!Spec, MeterProofs!Spec, Meter!Init, MeterProofs!Init,
         Meter!Next, MeterProofs!Next, Meter!vars, MeterProofs!vars, Meter!Take, MeterProofs!Take,
         Meter!Charge, MeterProofs!Charge, Meter!Drop, MeterProofs!Drop,
         Meter!NewPeriod, MeterProofs!NewPeriod, Meter!Raise, MeterProofs!Raise,
         Meter!Raised, MeterProofs!Raised, Meter!Below, MeterProofs!Below
<1>4. MeterProofs!OvershootBounded => BudgetOvershootBounded
  <2>1. MeterProofs!Cardinality(Requests) = Cardinality(Requests)
    BY DEF MeterProofs!Cardinality, Cardinality
  <2> QED BY <2>1 DEF MeterProofs!OvershootBounded, BudgetOvershootBounded, Spending
<1> QED BY <1>2, <1>3, <1>4, ImplementsMeter, PTL
=============================================================================
