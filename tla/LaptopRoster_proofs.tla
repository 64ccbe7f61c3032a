------------------------ MODULE LaptopRoster_proofs ------------------------
(***************************************************************************)
(* However requests, imports, pushes, failures and crashes interleave: no   *)
(* user takes over a roster entry that a laptop made for somebody else,     *)
(* unless an ownership check could not read the roster; and after a         *)
(* push-all that nothing comes across, everybody's entry agrees with the    *)
(* row.  While no two requests overlap and none ends without a mark, an     *)
(* entry that disagrees is marked or on its way, and a name nobody holds    *)
(* any more is locked.                                                      *)
(***************************************************************************)
EXTENDS LaptopRoster, FiniteSetTheorems, TLAPS

-----------------------------------------------------------------------------
(* The inductive invariant *)

\* What a request has at each point: the user, the names and the ids it works on.
Placed(j) ==
  /\ j \in Job
  /\ j.pc \in {"remove", "merge", "row", "read", "write", "tidy", "dirty"} => j.user \in UserIds
  /\ j.pc \in {"check", "owner"} => j.name \in Names
  /\ j.pc = "merge" => j.other \in UserIds
  /\ j.pc \in {"read", "write"} => j.row.name \in Names
  /\ j.pc \in {"lockRead", "lockWrite"} => j.old \in Names
  /\ j.pc \in {"entry", "find", "create"} => j.ids # {}
Settling(pc) == pc \in {"check", "owner", "commit"}
JobOK(j) == Placed(j) /\ (Settling(j.pc) /\ j.op # "signUp" => j.user \in UserIds)

\* No name a request writes to, or is about to give away, is somebody else's.
Clear(j) ==
  /\ j.row.name \notin foreign
  /\ j.old \notin foreign
  /\ j.pc = "commit" => j.name \notin foreign

Fine(j) == JobOK(j) /\ (~blind => Clear(j))

JobsFine == \A h \in Handlers : Fine(job[h])

UsersClear   == \A u \in UserIds : user[u].name \notin foreign
EntriesStand == \A n \in foreign : roster[n] \in {Old, Locked}

IInv == TypeOK /\ JobsFine /\ (~blind => UsersClear /\ EntriesStand)

\* What a step does to what the invariant calls somebody else's.
ForeignShrinks == foreign' \subseteq foreign /\ (blind => blind')

LEMMA NoneIsNoName == ASSUME TypeOK PROVE "none" \notin foreign
BY LaptopAssumption DEF TypeOK

LEMMA NobodyIsNoUser == Nobody \notin UserIds
BY LaptopAssumption DEF Nobody, UserIds

LEMMA NoUserRow == NoUser \in Row
BY DEF NoUser, Row

LEMMA NoJobIsJob ==
  NoJob \in Job /\ NoJob.pc = "idle" /\ NoJob.row.name = "none" /\ NoJob.old = "none"
BY NoUserRow DEF NoJob, NoUser, Job, Points

LEMMA NoJobFine == ASSUME TypeOK PROVE Fine(NoJob)
BY NoJobIsJob, NoneIsNoName DEF Fine, JobOK, Placed, Settling, Clear

LEMMA SomeIn == ASSUME NEW S, S # {} PROVE Some(S) \in S
BY DEF Some

-----------------------------------------------------------------------------
(* The records that the steps make of a request's *)

LEMMA ReconcileFine ==
  ASSUME NEW j \in Job, NEW u \in UserIds, ~blind => j.row.name \notin foreign /\ j.old \notin foreign
  PROVE  Fine(Reconcile(j, u))
<1>1. Reconcile(j, u) \in Job /\ Reconcile(j, u).pc = "row" /\ Reconcile(j, u).user = u
  BY DEF Reconcile, Job, Points
<1>2. Reconcile(j, u).row = j.row /\ Reconcile(j, u).old = j.old
  BY DEF Reconcile, Job
<1> QED BY <1>1, <1>2 DEF Fine, JobOK, Placed, Settling, Clear

LEMMA LockPointIsJob ==
  ASSUME NEW j \in Job, NEW old \in Names, NEW k, k = [j EXCEPT !.pc = "lockRead", !.old = old]
  PROVE  k \in Job /\ k.pc = "lockRead" /\ k.old = old /\ k.row = j.row
BY DEF Job, Points

LEMMA DonePointIsJob ==
  ASSUME NEW j \in Job, NEW b \in BOOLEAN, NEW k, k = [j EXCEPT !.pc = "done", !.sound = b]
  PROVE  k \in Job /\ k.pc = "done" /\ k.old = j.old /\ k.row = j.row
BY DEF Job, Points

LEMMA ReturnFine ==
  ASSUME TypeOK, NEW j \in Job, ~blind => j.old \notin foreign
  PROVE  Fine(Return(j))
<1> USE NobodyIsNoUser
<1>1. CASE j.other # Nobody
  <2> DEFINE k == [j EXCEPT !.other = Nobody, !.row = NoUser, !.seen = None]
  <2>1. k \in Job /\ k.row.name = "none" /\ k.old = j.old
    BY ZenonT(60), NoUserRow DEF Job, NoUser
  <2>2. j.other \in UserIds
    BY <1>1 DEF Job
  <2>3. Return(j) = Reconcile(k, j.other)
    BY <1>1 DEF Return
  <2> HIDE DEF k
  <2> QED BY <2>1, <2>2, <2>3, NoneIsNoName, ReconcileFine
<1>2. CASE j.other = Nobody /\ j.todo # {}
  <2> DEFINE u == Some(j.todo)
             k == [j EXCEPT !.todo = j.todo \ {u}, !.row = NoUser, !.seen = None]
  <2>1. j.todo \subseteq UserIds
    BY DEF Job
  <2>2. u \in UserIds
    BY <1>2, <2>1, SomeIn
  <2>3. Return(j) = Reconcile(k, u)
    BY <1>2 DEF Return
  <2> HIDE DEF u
  <2>4. k \in Job /\ k.row.name = "none" /\ k.old = j.old
    BY ZenonT(60), <2>1, NoUserRow DEF Job, NoUser
  <2> HIDE DEF k
  <2> QED BY <2>2, <2>3, <2>4, NoneIsNoName, ReconcileFine
<1>3. CASE j.other = Nobody /\ j.todo = {} /\ j.old # "none"
  <2> DEFINE k == [NoJob EXCEPT !.pc = "lockRead", !.old = j.old]
  <2>1. j.old \in Names
    BY <1>3 DEF Job
  <2>2. k \in Job /\ k.pc = "lockRead" /\ k.old = j.old /\ k.row = NoJob.row
    <3> DEFINE o == j.old
    <3>1. o \in Names
      BY SMTT(30), <2>1
    <3> HIDE DEF o
    <3>2. \A r : r = [NoJob EXCEPT !.pc = "lockRead", !.old = o] =>
            r \in Job /\ r.pc = "lockRead" /\ r.old = o /\ r.row = NoJob.row
      BY <3>1, NoJobIsJob, LockPointIsJob
    <3> QED BY <3>2 DEF o
  <2>3. Return(j) = k
    BY <1>3 DEF Return
  <2> HIDE DEF k
  <2> QED BY <2>1, <2>2, <2>3, NoJobIsJob, NoneIsNoName DEF Fine, JobOK, Placed, Settling, Clear
<1>4. CASE j.other = Nobody /\ j.todo = {} /\ j.old = "none" /\ j.op = "pushAll"
  <2> DEFINE k == [NoJob EXCEPT !.pc = "done", !.sound = j.sound]
  <2>1. k \in Job /\ k.pc = "done" /\ k.row = NoJob.row /\ k.old = NoJob.old
    <3>1. j.sound \in BOOLEAN
      BY DEF Job
    <3> QED BY ZenonT(60), <3>1, NoJobIsJob, DonePointIsJob
  <2>2. Return(j) = k
    BY <1>4 DEF Return
  <2> HIDE DEF k
  <2> QED BY <2>1, <2>2, NoJobIsJob, NoneIsNoName DEF Fine, JobOK, Placed, Settling, Clear
<1>5. CASE j.other = Nobody /\ j.todo = {} /\ j.old = "none" /\ j.op # "pushAll"
  BY <1>5, NoJobFine DEF Return
<1> QED BY <1>1, <1>2, <1>3, <1>4, <1>5

LEMMA NextEntryFine ==
  ASSUME TypeOK, NEW j \in Job, ~blind => j.row.name \notin foreign /\ j.old \notin foreign
  PROVE  Fine(NextEntry(j))
<1>1. CASE j.ids = {}
  BY <1>1, NoJobFine DEF NextEntry
<1>2. CASE j.ids # {}
  <2> DEFINE k == [j EXCEPT !.seen = None, !.pc = "entry"]
  <2>1. k \in Job /\ k.pc = "entry" /\ k.ids = j.ids /\ k.row = j.row /\ k.old = j.old
    BY ZenonT(60) DEF Job, Points
  <2>2. NextEntry(j) = k
    BY <1>2 DEF NextEntry
  <2> HIDE DEF k
  <2> QED BY <1>2, <2>1, <2>2 DEF Fine, JobOK, Placed, Settling, Clear
<1> QED BY <1>1, <1>2

LEMMA ImportedFine ==
  ASSUME TypeOK, NEW j \in Job, ~blind => j.row.name \notin foreign /\ j.old \notin foreign
  PROVE  Fine(Imported(j))
<1> DEFINE k == [j EXCEPT !.ids = j.ids \ {Some(j.ids)}]
<1>1. k \in Job /\ k.row = j.row /\ k.old = j.old
  BY SMTT(30) DEF Job
<1>2. Imported(j) = NextEntry(k)
  BY DEF Imported
<1> HIDE DEF k
<1> QED BY <1>1, <1>2, NextEntryFine

\* A request that goes on to a point that asks for nothing new, or only for a clear name.
LEMMA OtherPointFine ==
  ASSUME NEW j, Fine(j), NEW pc \in Points,
         pc \in {"remove", "merge", "row", "read", "write", "tidy", "dirty"} => j.user \in UserIds,
         pc \in {"check", "owner"} => j.name \in Names,
         Settling(pc) /\ j.op # "signUp" => j.user \in UserIds,
         pc = "merge" => j.other \in UserIds,
         pc \in {"read", "write"} => j.row.name \in Names,
         pc \in {"lockRead", "lockWrite"} => j.old \in Names,
         pc \in {"entry", "find", "create"} => j.ids # {},
         ~blind /\ pc = "commit" => j.name \notin foreign
  PROVE  Fine([j EXCEPT !.pc = pc])
<1> DEFINE k == [j EXCEPT !.pc = pc]
<1>1. j \in Job
  BY DEF Fine, JobOK, Placed, Settling
<1>2. /\ k \in Job /\ k.pc = pc
      /\ k.user = j.user /\ k.name = j.name /\ k.op = j.op /\ k.other = j.other
      /\ k.row = j.row /\ k.old = j.old /\ k.ids = j.ids
  BY <1>1 DEF Job
<1> HIDE DEF k
<1>3. JobOK(k)
  BY <1>2 DEF JobOK, Placed, Settling
<1>4. ~blind => Clear(k)
  BY <1>2 DEF Fine, Clear
<1> QED BY <1>3, <1>4 DEF Fine, k

LEMMA SoundFine ==
  ASSUME NEW j, Fine(j), NEW b \in BOOLEAN
  PROVE  Fine([j EXCEPT !.sound = b])
<1> DEFINE k == [j EXCEPT !.sound = b]
<1>1. j \in Job
  BY DEF Fine, JobOK, Placed, Settling
<1>2. /\ k \in Job /\ k.pc = j.pc
      /\ k.user = j.user /\ k.name = j.name /\ k.op = j.op /\ k.other = j.other
      /\ k.row = j.row /\ k.old = j.old /\ k.ids = j.ids
  BY <1>1 DEF Job
<1> HIDE DEF k
<1>3. JobOK(k)
  BY <1>2 DEF JobOK, Placed, Settling, Fine
<1>4. ~blind => Clear(k)
  BY <1>2 DEF Fine, Clear
<1> QED BY <1>3, <1>4 DEF Fine, k

-----------------------------------------------------------------------------
(* What the steps keep *)

LEMMA SetFine ==
  ASSUME IInv, ForeignShrinks, NEW h \in Handlers, NEW j, Fine(j), Set(h, j)
  PROVE  job' \in [Handlers -> Job] /\ JobsFine'
<1>1. job' \in [Handlers -> Job]
  BY DEF IInv, TypeOK, Set, Fine, JobOK, Placed, Settling
<1>2. ASSUME NEW g \in Handlers PROVE Fine(job[g])'
  <2>1. PICK k : k = job'[g] /\ Fine(k)
    BY DEF IInv, TypeOK, JobsFine, Set
  <2>2. ~blind' => ~blind /\ foreign' \subseteq foreign
    BY DEF ForeignShrinks
  <2>3. ~blind' => k.row.name \notin foreign' /\ k.old \notin foreign' /\ (k.pc = "commit" => k.name \notin foreign')
    BY <2>1, <2>2 DEF Fine, Clear
  <2>4. JobOK(k)
    BY <2>1 DEF Fine
  <2> QED BY <2>1, <2>3, <2>4 DEF Fine, Clear, JobOK, Placed, Settling
<1> QED BY <1>1, <1>2 DEF JobsFine

\* A step that changes nothing but its own record.
LEMMA OnlyJob ==
  ASSUME IInv, NEW h \in Handlers, NEW j, Fine(j), Set(h, j),
         UNCHANGED <<user, roster, budget, foreign, blind, left, lost>>, untold' \subseteq UserIds
  PROVE  IInv'
<1>1. job' \in [Handlers -> Job] /\ JobsFine'
  BY SetFine DEF ForeignShrinks
<1>2. TypeOK'
  BY <1>1 DEF IInv, TypeOK, budget
<1> QED BY <1>1, <1>2 DEF IInv, UsersClear, EntriesStand

\* A failure, which may change the counters and notes of failures too.
LEMMA OnlyJobFails ==
  ASSUME IInv, NEW h \in Handlers, NEW j, Fine(j), Set(h, j), Mishap,
         UNCHANGED <<user, roster, blind>>, left' \subseteq Names, lost' \in BOOLEAN
  PROVE  IInv'
<1>1. job' \in [Handlers -> Job] /\ JobsFine'
  BY SetFine DEF ForeignShrinks, Mishap
<1>2. TypeOK'
  BY <1>1 DEF IInv, TypeOK, Mishap
<1> QED BY <1>1, <1>2 DEF IInv, UsersClear, EntriesStand, Mishap

\* A step that writes the users, their names nobody else's.
LEMMA WriteUsers ==
  ASSUME IInv, NEW h \in Handlers, NEW j, Fine(j), Set(h, j),
         user' \in [UserIds -> Row], ~blind => \A u \in UserIds : user'[u].name \notin foreign,
         UNCHANGED <<roster, budget, notes>>
  PROVE  IInv'
<1>1. job' \in [Handlers -> Job] /\ JobsFine'
  BY SetFine DEF ForeignShrinks, notes
<1>2. TypeOK'
  BY <1>1 DEF IInv, TypeOK, budget, notes
<1>3. ~blind' => UsersClear'
  BY DEF UsersClear, notes
<1> QED BY <1>1, <1>2, <1>3 DEF IInv, EntriesStand, notes

LEMMA WriteUser ==
  ASSUME IInv, NEW h \in Handlers, NEW j, Fine(j), Set(h, j),
         NEW u \in UserIds, NEW r \in Row, ~blind => r.name \notin foreign,
         user' = [user EXCEPT ![u] = r], UNCHANGED <<roster, budget, notes>>
  PROVE  IInv'
<1>1. user' \in [UserIds -> Row]
  BY DEF IInv, TypeOK
<1>2. ~blind => \A v \in UserIds : user'[v].name \notin foreign
  BY DEF IInv, TypeOK, UsersClear
<1> QED BY <1>1, <1>2, WriteUsers

\* A step that writes an entry that is nobody else's.
LEMMA WriteRoster ==
  ASSUME IInv, NEW h \in Handlers, NEW j, Fine(j), Set(h, j),
         NEW n \in Names, ~blind => n \notin foreign, NEW e \in Hashes \cup {None, Locked},
         roster' = [roster EXCEPT ![n] = e], user' = user, foreign' = foreign, blind' = blind,
         untold' = untold, left' = left, lost' = lost, ops' = ops, races' = races, fails' \in Nat
  PROVE  IInv'
<1>1. job' \in [Handlers -> Job] /\ JobsFine'
  BY SetFine DEF ForeignShrinks
<1>2. TypeOK'
  BY <1>1 DEF IInv, TypeOK
<1>3. ~blind' => EntriesStand'
  BY DEF IInv, TypeOK, EntriesStand
<1> QED BY <1>1, <1>2, <1>3 DEF IInv, UsersClear

LEMMA JobTyped ==
  ASSUME IInv, NEW h \in Handlers
  PROVE  /\ job[h] \in Job /\ Fine(job[h]) /\ JobOK(job[h])
         /\ ~blind => Clear(job[h])
BY DEF IInv, TypeOK, JobsFine, Fine

LEMMA UserTyped ==
  ASSUME IInv, NEW u \in UserIds
  PROVE  /\ user[u] \in Row
         /\ ~blind => user[u].name \notin foreign
BY DEF IInv, TypeOK, UsersClear

LEMMA DesiredTyped ==
  ASSUME NEW r \in Row, NEW e \in Hashes \cup {None, Locked}
  PROVE  DesiredEntry(r, e) \in Hashes \cup {None, Locked}
BY DEF DesiredEntry, Eligible, Row

-----------------------------------------------------------------------------
(* Requests begin *)

LEMMA BeginKeeps ==
  ASSUME IInv, NEW h \in Handlers, NEW j, Fine(j), Begin(h, j), ops' \in 0..MaxOps
  PROVE  IInv'
<1>1. /\ UNCHANGED <<user, roster, fails, notes>>
      /\ races' \in Nat
  BY DEF Begin, IInv, TypeOK
<1>2. ASSUME NEW g \in Handlers PROVE job'[g] \in Job /\ Fine(job'[g])
  <2> DEFINE b == j.sound /\ Quiet
  <2>1. b \in BOOLEAN
    BY DEF Fine, JobOK, Placed, Settling, Job
  <2>2. job' = [Disturbed(job) EXCEPT ![h] = [j EXCEPT !.sound = b]]
    BY DEF Begin
  <2> HIDE DEF b
  <2>3. CASE g = h
    <3>1. job'[g] = [j EXCEPT !.sound = b]
      BY <2>2, <2>3 DEF Disturbed
    <3>2. Fine([j EXCEPT !.sound = b])
      BY <2>1, SoundFine
    <3> QED BY <3>1, <3>2 DEF Fine, JobOK, Placed, Settling
  <2>4. CASE g # h
    <3>1. job'[g] = [job[g] EXCEPT !.sound = FALSE]
      BY <2>2, <2>4 DEF Disturbed
    <3>2. Fine([job[g] EXCEPT !.sound = FALSE])
      BY JobTyped, SoundFine
    <3> QED BY <3>1, <3>2 DEF Fine, JobOK, Placed, Settling
  <2> QED BY <2>3, <2>4
<1>3. job' \in [Handlers -> Job]
  <2>1. job' = [g \in Handlers |-> job'[g]]
    BY DEF Begin, Disturbed
  <2> QED BY <1>2, <2>1
<1>4. JobsFine'
  BY <1>1, <1>2 DEF JobsFine, Fine, Clear, JobOK, Placed, Settling, notes
<1>5. TypeOK'
  BY <1>1, <1>3 DEF IInv, TypeOK, notes
<1> QED BY <1>1, <1>4, <1>5 DEF IInv, UsersClear, EntriesStand, notes

LEMMA RequestKeeps ==
  ASSUME IInv, NEW h \in Handlers, NEW op, NEW j, Placed(j), ~blind => Clear(j),
         Settling(j.pc) /\ op # "signUp" => j.user \in UserIds,
         Request(h, op, j)
  PROVE  IInv'
<1> DEFINE o == IF op \in {"signUp", "pushAll", "import"} THEN op ELSE "none"
           k == [j EXCEPT !.op = o]
<1>1. o \in {"none", "signUp", "pushAll", "import"} /\ (op = "signUp" => o = "signUp")
  OBVIOUS
<1>2. ops' \in 0..MaxOps
  <2>1. ops \in 0..MaxOps /\ ops < MaxOps /\ ops' = ops + 1
    BY DEF Request, IInv, TypeOK
  <2> QED BY <2>1, LaptopAssumption
<1>3. Begin(h, k)
  BY DEF Request
<1> HIDE DEF o
<1>4. /\ k \in Job /\ k.op = o /\ k.pc = j.pc
      /\ k.user = j.user /\ k.name = j.name /\ k.other = j.other
      /\ k.row = j.row /\ k.old = j.old /\ k.ids = j.ids
  BY <1>1 DEF Placed, Job
<1> HIDE DEF k
<1>5. Fine(k)
  <2>1. JobOK(k)
    BY <1>1, <1>4 DEF o, JobOK, Placed, Settling
  <2>2. ~blind => Clear(k)
    BY <1>4 DEF Clear
  <2> QED BY <2>1, <2>2 DEF Fine
<1> QED BY <1>2, <1>3, <1>5, BeginKeeps

LEMMA NextHash == ASSUME IInv, ops < MaxOps PROVE HashOf(ops + 1) \in Hashes
<1>1. ops + 1 \in 1..MaxOps
  <2>1. ops \in 0..MaxOps
    BY DEF IInv, TypeOK
  <2> QED BY <2>1, LaptopAssumption
<1> QED BY <1>1 DEF Hashes

LEMMA StartOwnKeeps ==
  ASSUME IInv, NEW h \in Handlers, NEW u \in UserIds, NEW n \in Names \cup {"none"}, NEW p \in BOOLEAN,
         StartOwn(h, u, n, p)
  PROVE  IInv'
<1> DEFINE x == IF p THEN HashOf(ops + 1) ELSE None
           pc == IF n = "none" THEN "commit" ELSE "check"
           j == [NoJob EXCEPT !.pc = pc, !.user = u, !.name = n, !.hash = x]
<1>1. x \in Hashes \cup {None}
  BY NextHash DEF StartOwn, Request
<1>2. pc \in Points /\ (pc = "check" => n \in Names) /\ (pc = "commit" => n = "none")
      /\ pc \in {"check", "commit"}
  BY DEF Points
<1>3. Request(h, "own", j)
  BY DEF StartOwn
<1> HIDE DEF x, pc
<1>4. j \in Job /\ j.pc = pc /\ j.user = u /\ j.name = n /\ j.old = NoJob.old /\ j.row = NoJob.row
  BY ZenonT(60), <1>1, <1>2, NoJobIsJob DEF Job
<1> HIDE DEF j
<1>5. Placed(j) /\ (~blind => Clear(j))
  BY <1>2, <1>4, NoJobIsJob, NoneIsNoName DEF Placed, Clear, IInv
<1> QED BY <1>3, <1>4, <1>5, RequestKeeps

LEMMA StartAdminKeeps ==
  ASSUME IInv, NEW h \in Handlers, NEW u \in UserIds, NEW n \in Names \cup {"none"}, NEW p \in BOOLEAN,
         StartAdmin(h, u, n, p)
  PROVE  IInv'
<1> DEFINE x == IF p THEN HashOf(ops + 1) ELSE None
           pc == IF n = "none" THEN "commit" ELSE "check"
           old == user[u].name
           j == [NoJob EXCEPT !.pc = pc, !.user = u, !.name = n, !.hash = x, !.old = old]
<1>1. x \in Hashes \cup {None}
  BY NextHash DEF StartAdmin, Request
<1>2. pc \in Points /\ (pc = "check" => n \in Names) /\ (pc = "commit" => n = "none")
      /\ pc \in {"check", "commit"}
  BY DEF Points
<1>3. Request(h, "admin", j)
  BY DEF StartAdmin
<1>4. old \in Names \cup {"none"} /\ (~blind => old \notin foreign)
  BY UserTyped DEF Row
<1> HIDE DEF x, pc, old
<1>5. j \in Job /\ j.pc = pc /\ j.user = u /\ j.name = n /\ j.old = old /\ j.row = NoJob.row
  BY ZenonT(60), <1>1, <1>2, <1>4, NoJobIsJob DEF Job
<1> HIDE DEF j
<1>6. Placed(j) /\ (~blind => Clear(j))
  BY <1>2, <1>4, <1>5, NoJobIsJob, NoneIsNoName DEF Placed, Clear, IInv
<1> QED BY <1>3, <1>5, <1>6, RequestKeeps

LEMMA StartSignUpKeeps ==
  ASSUME IInv, NEW h \in Handlers, NEW n \in Names, StartSignUp(h, n)
  PROVE  IInv'
<1> DEFINE x == HashOf(ops + 1)
           j == [NoJob EXCEPT !.pc = "check", !.name = n, !.hash = x]
<1>1. x \in Hashes
  BY NextHash DEF StartSignUp, Request
<1>2. Request(h, "signUp", j)
  BY DEF StartSignUp
<1> HIDE DEF x
<1>3. j \in Job /\ j.pc = "check" /\ j.name = n /\ j.old = NoJob.old /\ j.row = NoJob.row
  BY ZenonT(60), <1>1, NoJobIsJob DEF Job, Points
<1> HIDE DEF j
<1>4. Placed(j) /\ (~blind => Clear(j))
  BY <1>3, NoJobIsJob, NoneIsNoName DEF Placed, Clear, IInv
<1> QED BY <1>2, <1>3, <1>4, RequestKeeps

LEMMA StartRemoveKeeps ==
  ASSUME IInv, NEW h \in Handlers, NEW u \in UserIds, StartRemove(h, u)
  PROVE  IInv'
<1> DEFINE j == [NoJob EXCEPT !.pc = "remove", !.user = u]
<1>1. Request(h, "remove", j)
  BY DEF StartRemove
<1>2. j \in Job /\ j.pc = "remove" /\ j.user = u /\ j.old = NoJob.old /\ j.row = NoJob.row
  BY ZenonT(60), NoJobIsJob DEF Job, Points
<1> HIDE DEF j
<1>3. Placed(j) /\ (~blind => Clear(j))
  BY <1>2, NoJobIsJob, NoneIsNoName DEF Placed, Clear, IInv
<1> QED BY <1>1, <1>2, <1>3, RequestKeeps DEF Settling

LEMMA StartMergeKeeps ==
  ASSUME IInv, NEW h \in Handlers, NEW u \in UserIds, NEW n \in UserIds, StartMerge(h, u, n)
  PROVE  IInv'
<1> DEFINE j == [NoJob EXCEPT !.pc = "merge", !.user = u, !.other = n]
<1>1. Request(h, "merge", j)
  BY DEF StartMerge
<1>2. j \in Job /\ j.pc = "merge" /\ j.user = u /\ j.other = n /\ j.old = NoJob.old /\ j.row = NoJob.row
  BY ZenonT(60), NoJobIsJob DEF Job, Points
<1> HIDE DEF j
<1>3. Placed(j) /\ (~blind => Clear(j))
  BY <1>2, NoJobIsJob, NoneIsNoName DEF Placed, Clear, IInv
<1> QED BY <1>1, <1>2, <1>3, RequestKeeps DEF Settling

\* Pushing begins with a reconcile, or there is nothing to do.
LEMMA FineRequest ==
  ASSUME IInv, NEW h \in Handlers, NEW op, NEW j, Fine(j), ~Settling(j.pc), Request(h, op, j)
  PROVE  IInv'
BY RequestKeeps DEF Fine, JobOK

LEMMA StartPushNowKeeps ==
  ASSUME IInv, NEW h \in Handlers, NEW u \in UserIds, StartPushNow(h, u)
  PROVE  IInv'
<1> DEFINE j == Reconcile(NoJob, u)
<1>1. Fine(j)
  BY ReconcileFine, NoJobIsJob, NoneIsNoName DEF IInv
<1>2. ~Settling(j.pc)
  BY NoJobIsJob DEF Reconcile, Settling, Job
<1>3. Request(h, "pushNow", j)
  BY DEF StartPushNow
<1> HIDE DEF j
<1> QED BY <1>1, <1>2, <1>3, FineRequest

LEMMA ReturnSettlesNothing == ASSUME NEW j \in Job PROVE ~Settling(Return(j).pc)
<1>1. \A k \in Job : \A u : ~Settling(Reconcile(k, u).pc)
  BY DEF Reconcile, Job, Settling
<1>2. CASE j.other # Nobody
  <2> DEFINE k == [j EXCEPT !.other = Nobody, !.row = NoUser, !.seen = None]
  <2>1. k \in Job
    BY NoUserRow DEF Job
  <2>2. Return(j) = Reconcile(k, j.other)
    BY <1>2 DEF Return
  <2> HIDE DEF k
  <2> QED BY <1>1, <2>1, <2>2
<1>3. CASE j.other = Nobody /\ j.todo # {}
  <2> DEFINE t == j.todo \ {Some(j.todo)}
             k == [j EXCEPT !.todo = t, !.row = NoUser, !.seen = None]
  <2>1. t \in SUBSET UserIds
    BY DEF Job
  <2>2. Return(j) = Reconcile(k, Some(j.todo))
    BY <1>3 DEF Return
  <2> HIDE DEF t
  <2>3. k \in Job
    BY <2>1, NoUserRow DEF Job
  <2> HIDE DEF k
  <2> QED BY <1>1, <2>2, <2>3
<1>4. CASE j.other = Nobody /\ j.todo = {}
  BY <1>4 DEF Return, NoJob, Settling
<1> QED BY <1>2, <1>3, <1>4

LEMMA StartPushAllKeeps ==
  ASSUME IInv, NEW h \in Handlers, StartPushAll(h)
  PROVE  IInv'
<1> DEFINE t == {u \in Known : user[u].name # "none"}
           j == [NoJob EXCEPT !.op = "pushAll", !.sound = TRUE, !.todo = t]
<1>1. t \in SUBSET UserIds
  BY DEF Known
<1>2. Request(h, "pushAll", Return(j))
  BY DEF StartPushAll
<1> HIDE DEF t
<1>3. j \in Job /\ j.old = NoJob.old
  BY ZenonT(60), <1>1, NoJobIsJob DEF Job
<1> HIDE DEF j
<1>4. Fine(Return(j)) /\ ~Settling(Return(j).pc)
  BY <1>3, ReturnFine, ReturnSettlesNothing, NoJobIsJob, NoneIsNoName DEF IInv
<1> QED BY <1>2, <1>4, FineRequest

LEMMA TickKeeps ==
  ASSUME IInv, NEW h \in Handlers, Tick(h)
  PROVE  IInv'
<1> DEFINE t == {u \in Known : user[u].dirty}
           j == [NoJob EXCEPT !.todo = t]
<1>1. t \in SUBSET UserIds
  BY DEF Known
<1>2. Begin(h, Return(j)) /\ ops' = ops
  BY DEF Tick, PushJob
<1> HIDE DEF t
<1>3. j \in Job /\ j.old = NoJob.old
  BY SMTT(30), <1>1, NoJobIsJob DEF Job
<1> HIDE DEF j
<1>4. Fine(Return(j))
  BY <1>3, ReturnFine, NoJobIsJob, NoneIsNoName DEF IInv
<1>5. ops' \in 0..MaxOps
  BY <1>2 DEF IInv, TypeOK
<1> QED BY <1>2, <1>4, <1>5, BeginKeeps

LEMMA StartImportKeeps ==
  ASSUME IInv, NEW h \in Handlers, StartImport(h)
  PROVE  IInv'
<1> DEFINE t == {n \in Names : roster[n] # None}
           j == [NoJob EXCEPT !.op = "import", !.ids = t]
<1>1. t \in SUBSET Names
  OBVIOUS
<1>2. Request(h, "import", NextEntry(j))
  BY DEF StartImport
<1> HIDE DEF t
<1>3. j \in Job /\ j.old = NoJob.old /\ j.row = NoJob.row
  BY ZenonT(60), <1>1, NoJobIsJob DEF Job
<1> HIDE DEF j
<1>4. Fine(NextEntry(j))
  BY <1>3, NextEntryFine, NoJobIsJob, NoneIsNoName DEF IInv
<1>5. ~Settling(NextEntry(j).pc)
  BY <1>3 DEF NextEntry, NoJob, Job, Settling
<1> QED BY <1>2, <1>4, <1>5, FineRequest

LEMMA StartKeeps == ASSUME IInv, NEW h \in Handlers, Start(h) PROVE IInv'
BY StartOwnKeeps, StartAdminKeeps, StartSignUpKeeps, StartRemoveKeeps, StartPushNowKeeps,
   StartMergeKeeps, StartPushAllKeeps, StartImportKeeps DEF Start

-----------------------------------------------------------------------------
(* Requests go on *)

LEMMA IdleKeeps ==
  ASSUME IInv, NEW h \in Handlers, Set(h, NoJob),
         UNCHANGED <<user, roster, budget, notes>>
  PROVE  IInv'
<1>1. TypeOK /\ untold' \subseteq UserIds /\ UNCHANGED <<foreign, blind, left, lost>>
  BY DEF IInv, TypeOK, notes
<1> QED BY <1>1, NoJobFine, OnlyJob

LEMMA CheckKeeps == ASSUME IInv, NEW h \in Handlers, Check(h) PROVE IInv'
<1> DEFINE pc == IF roster[job[h].name] = None THEN "commit" ELSE "owner"
           j == job[h]
           k == [j EXCEPT !.pc = pc]
<1>1. Fine(j) /\ JobOK(j) /\ j.pc = "check"
  BY JobTyped DEF Check, At
<1>2. j.name \in Names /\ (j.op # "signUp" => j.user \in UserIds)
  BY <1>1 DEF JobOK, Placed, Settling
<1>3. ~blind /\ pc = "commit" => j.name \notin foreign
  BY <1>2 DEF IInv, EntriesStand, Old, Locked, None
<1>4. pc \in {"commit", "owner"} /\ pc \in Points
  BY DEF Points
<1>5. Set(h, k)
  BY DEF Check, Go
<1> HIDE DEF pc, j
<1>6. Fine(k)
  BY <1>1, <1>2, <1>3, <1>4, OtherPointFine
<1> HIDE DEF k
<1>7. UNCHANGED <<user, roster, budget, foreign, blind, left, lost>> /\ untold' \subseteq UserIds
  BY DEF Check, notes, IInv, TypeOK
<1> QED BY <1>5, <1>6, <1>7, OnlyJob

\* A name that is the user's own is nobody else's.
LEMMA OwnNameClear ==
  ASSUME IInv, NEW n \in Names, NEW u, ~Taken(n, u), ~blind
  PROVE  n \notin foreign
<1>1. u \in Known /\ user[u].name = n
  BY DEF Taken, Holder
<1> QED BY <1>1 DEF IInv, UsersClear, Known

LEMMA OwnerKeeps == ASSUME IInv, NEW h \in Handlers, Owner(h) PROVE IInv'
<1>1. CASE Taken(job[h].name, job[h].user)
  BY <1>1, IdleKeeps DEF Owner
<1>2. CASE ~Taken(job[h].name, job[h].user)
  <2> DEFINE j == job[h]
             k == [j EXCEPT !.pc = "commit"]
  <2>1. Fine(j) /\ JobOK(j) /\ j.pc = "owner"
    BY JobTyped DEF Owner, At
  <2>2. j.name \in Names /\ (j.op # "signUp" => j.user \in UserIds)
    BY <2>1 DEF JobOK, Placed, Settling
  <2>3. ~blind => j.name \notin foreign
    BY <1>2, <2>2, OwnNameClear
  <2>4. Set(h, k)
    BY <1>2 DEF Owner, Go
  <2> HIDE DEF j
  <2>5. Fine(k)
    BY <2>1, <2>2, <2>3, OtherPointFine DEF Points
  <2> HIDE DEF k
  <2>6. UNCHANGED <<user, roster, budget, foreign, blind, left, lost>> /\ untold' \subseteq UserIds
    BY DEF Owner, notes, IInv, TypeOK
  <2> QED BY <2>4, <2>5, <2>6, OnlyJob
<1> QED BY <1>1, <1>2

\* The record of the reconcile after a commit.
LEMMA AfterCommitFine ==
  ASSUME IInv, NEW u \in UserIds, NEW old \in Names \cup {"none"}, ~blind => old \notin foreign
  PROVE  Fine([Reconcile(NoJob, u) EXCEPT !.old = old])
<1> DEFINE j == Reconcile(NoJob, u)
           k == [j EXCEPT !.old = old]
<1>1. j \in Job /\ j.pc = "row" /\ j.user = u /\ j.row = NoJob.row
  BY ZenonT(60), NoJobIsJob DEF Reconcile, Job, Points
<1> HIDE DEF j
<1>2. k \in Job /\ k.pc = "row" /\ k.user = u /\ k.row = NoJob.row /\ k.old = old
  BY SMTT(30), <1>1 DEF Job
<1> HIDE DEF k
<1>3. Fine(k)
  BY <1>2, NoJobIsJob, NoneIsNoName DEF Fine, JobOK, Placed, Settling, Clear, IInv
<1> QED BY <1>3 DEF k, j

LEMMA CommitKeeps == ASSUME IInv, NEW h \in Handlers, Commit(h) PROVE IInv'
<1> DEFINE j == job[h]
           u == IF j.op = "signUp" THEN NextId ELSE j.user
           r == IF j.op = "signUp" THEN [NoUser EXCEPT !.there = TRUE, !.active = TRUE] ELSE user[u]
           name == IF j.name = "none" THEN r.name ELSE j.name
           hash == IF j.hash = None THEN r.hash ELSE j.hash
           old == IF name \in {j.old, "none"} THEN "none" ELSE j.old
           row == [r EXCEPT !.name = name, !.hash = hash]
           k == [Reconcile(NoJob, u) EXCEPT !.old = old]
<1>1. j \in Job /\ JobOK(j) /\ j.pc = "commit" /\ (~blind => Clear(j))
  BY JobTyped DEF Commit, At
<1>2. UNCHANGED <<roster, budget, notes>>
  BY DEF Commit
<1>3. CASE Set(h, NoJob) /\ UNCHANGED user
  BY <1>2, <1>3, IdleKeeps
<1>4. CASE u \in UserIds /\ user' = [user EXCEPT ![u] = row] /\ Set(h, k)
  <2>1. "none" \notin foreign
    BY NoneIsNoName DEF IInv
  <2>2. r \in Row /\ (~blind => r.name \notin foreign)
    <3>1. CASE j.op = "signUp"
      <4>1. [NoUser EXCEPT !.there = TRUE, !.active = TRUE] \in Row
        BY NoUserRow DEF Row
      <4>2. [NoUser EXCEPT !.there = TRUE, !.active = TRUE].name = "none"
        BY DEF NoUser
      <4> QED BY <2>1, <3>1, <4>1, <4>2
    <3>2. CASE j.op # "signUp"
      BY <1>4, <3>2, UserTyped
    <3> QED BY <3>1, <3>2
  <2>3. name \in Names \cup {"none"} /\ (~blind => name \notin foreign)
    BY <1>1, <2>2 DEF Job, Row, Clear
  <2>4. hash \in Hashes \cup {None}
    BY <1>1, <2>2 DEF Job, Row
  <2>5. old \in Names \cup {"none"} /\ (~blind => old \notin foreign)
    BY <1>1, <2>1 DEF Job, Clear
  <2> HIDE DEF r, name, hash, old, u
  <2>6. row \in Row /\ row.name = name
    BY <2>2, <2>3, <2>4 DEF Row
  <2>7. Fine(k)
    BY <1>4, <2>5, AfterCommitFine
  <2> HIDE DEF row, k
  <2> QED BY <1>2, <1>4, <2>3, <2>6, <2>7, WriteUser
<1> QED BY <1>3, <1>4 DEF Commit

LEMMA DeactivateKeeps == ASSUME IInv, NEW h \in Handlers, Deactivate(h) PROVE IInv'
<1> DEFINE j == job[h]
           u == j.user
           r == user[u]
           row == [r EXCEPT !.active = FALSE]
           k == Reconcile(j, u)
<1>1. j \in Job /\ JobOK(j) /\ j.pc = "remove" /\ (~blind => Clear(j))
  BY JobTyped DEF Deactivate, At
<1>2. u \in UserIds
  BY <1>1 DEF JobOK, Placed
<1>3. r \in Row /\ (~blind => r.name \notin foreign)
  BY <1>2, UserTyped
<1>4. Fine(k)
  BY <1>1, <1>2, ReconcileFine DEF Clear
<1>5. user' = [user EXCEPT ![u] = row] /\ Set(h, k) /\ UNCHANGED <<roster, budget, notes>>
  BY DEF Deactivate
<1> HIDE DEF j, u, k, r
<1>6. row \in Row /\ row.name = r.name
  BY <1>3 DEF Row
<1> HIDE DEF row
<1> QED BY <1>2, <1>3, <1>4, <1>5, <1>6, WriteUser

LEMMA MergeKeeps == ASSUME IInv, NEW h \in Handlers, Merge(h) PROVE IInv'
<1> DEFINE j == job[h]
           s == j.user
           n == j.other
           o == AlsoReconcile(n)
           b == [j EXCEPT !.other = o]
           k == Reconcile(b, s)
<1>1. j \in Job /\ JobOK(j) /\ j.pc = "merge" /\ (~blind => Clear(j))
  BY JobTyped DEF Merge, At
<1>2. s \in UserIds /\ n \in UserIds
  BY <1>1 DEF JobOK, Placed
<1>3. Set(h, k) /\ UNCHANGED <<roster, budget, notes>>
  BY DEF Merge
<1>4. user' = [user EXCEPT
        ![n].active = FALSE,
        ![n].name = IF user[s].name = "none" THEN "none" ELSE @,
        ![s].name = IF user[s].name = "none" THEN user[n].name ELSE @,
        ![s].hash = IF @ = None THEN user[n].hash ELSE @]
  BY DEF Merge
<1>5. o \in UserIds \cup {Nobody}
  BY <1>2 DEF AlsoReconcile
<1> HIDE DEF s, n, o
<1>6. Fine(k)
  <2>1. b \in Job /\ b.row = j.row /\ b.old = j.old
    BY SMTT(30), <1>1, <1>5 DEF Job
  <2> HIDE DEF b, j
  <2> QED BY <1>1, <1>2, <2>1, ReconcileFine DEF Clear
<1> HIDE DEF k
<1>7. user \in [UserIds -> Row]
  BY DEF IInv, TypeOK
<1>8. user' \in [UserIds -> Row]
  <2> DEFINE a == IF user[s].name = "none" THEN "none" ELSE user[n].name
             rn == [user[n] EXCEPT !.active = FALSE, !.name = a]
             mid == [user EXCEPT ![n] = rn]
             c == IF user[s].name = "none" THEN user[n].name ELSE mid[s].name
             d == IF mid[s].hash = None THEN user[n].hash ELSE mid[s].hash
             rs == [mid[s] EXCEPT !.name = c, !.hash = d]
  <2>1. user[n] \in Row
    BY <1>2, <1>7
  <2>2. a \in Names \cup {"none"}
    BY <2>1 DEF Row
  <2>3. user' = [mid EXCEPT ![s] = rs]
    BY ZenonT(60), <1>2, <1>4, <1>7
  <2> HIDE DEF a
  <2>4. rn \in Row
    BY <2>1, <2>2 DEF Row
  <2> HIDE DEF rn
  <2>5. mid \in [UserIds -> Row]
    BY <1>7, <2>4
  <2> HIDE DEF mid
  <2>6. mid[s] \in Row
    BY <1>2, <2>5
  <2>7. c \in Names \cup {"none"} /\ d \in Hashes \cup {None}
    BY <2>1, <2>6 DEF Row
  <2> HIDE DEF c, d
  <2>8. rs \in Row
    BY <2>6, <2>7 DEF Row
  <2> HIDE DEF rs
  <2> QED BY <2>3, <2>5, <2>8
<1>9. \A u \in UserIds : user'[u].name \in {user[u].name, user[n].name, "none"}
  BY <1>2, <1>4, <1>7 DEF Row
<1>10. ~blind => \A u \in UserIds : user'[u].name \notin foreign
  BY <1>2, <1>9, UserTyped, NoneIsNoName DEF IInv
<1> QED BY <1>3, <1>6, <1>8, <1>10, WriteUsers

-----------------------------------------------------------------------------
(* Reconciles *)

LEMMA MarkCleanFine ==
  ASSUME TypeOK, NEW j \in Job, j.user \in UserIds,
         ~blind => j.row.name \notin foreign /\ j.old \notin foreign
  PROVE  Fine(MarkClean(j))
<1>1. CASE j.row.dirty
  <2> DEFINE k == [j EXCEPT !.pc = "tidy"]
  <2>1. k \in Job /\ k.pc = "tidy" /\ k.user = j.user /\ k.row = j.row /\ k.old = j.old
    BY SMTT(30) DEF Job, Points
  <2>2. MarkClean(j) = k
    BY <1>1 DEF MarkClean
  <2> HIDE DEF k
  <2> QED BY <2>1, <2>2 DEF Fine, JobOK, Placed, Settling, Clear
<1>2. CASE ~j.row.dirty
  BY <1>2, ReturnFine DEF MarkClean
<1> QED BY <1>1, <1>2

\* A reconcile that has read the row, or the entry too.
LEMMA PointFine ==
  ASSUME NEW j \in Job, j.user \in UserIds, j.row.name \in Names, NEW pc \in {"read", "write"},
         ~blind => j.row.name \notin foreign /\ j.old \notin foreign
  PROVE  Fine([j EXCEPT !.pc = pc])
<1> DEFINE k == [j EXCEPT !.pc = pc]
<1>1. k \in Job /\ k.pc = pc /\ k.user = j.user /\ k.row = j.row /\ k.old = j.old
  BY SMTT(30) DEF Job, Points
<1> HIDE DEF k
<1>2. Fine(k)
  BY <1>1 DEF Fine, JobOK, Placed, Settling, Clear
<1> QED BY <1>2 DEF k

LEMMA ReadRowKeeps == ASSUME IInv, NEW h \in Handlers, ReadRow(h) PROVE IInv'
<1> DEFINE i == job[h]
           r == user[i.user]
           j == [i EXCEPT !.row = r]
           k == IF j.row.name = "none" THEN MarkClean(j) ELSE [j EXCEPT !.pc = "read"]
<1>1. i \in Job /\ JobOK(i) /\ i.pc = "row" /\ (~blind => Clear(i)) /\ TypeOK
  BY JobTyped DEF ReadRow, At, IInv
<1>2. i.user \in UserIds
  BY <1>1 DEF JobOK, Placed
<1>3. r \in Row /\ (~blind => r.name \notin foreign)
  BY <1>2, UserTyped
<1>4. Set(h, k) /\ UNCHANGED <<user, roster, budget, foreign, blind, left, lost>>
  BY DEF ReadRow
<1>5. untold' \subseteq UserIds
  BY DEF ReadRow, IInv, TypeOK
<1> HIDE DEF i, r
<1>6. j \in Job /\ j.user = i.user /\ j.row = r /\ j.old = i.old
  BY SMTT(30), <1>1, <1>3 DEF Job
<1> HIDE DEF j
<1>7. ~blind => j.row.name \notin foreign /\ j.old \notin foreign
  BY <1>1, <1>3, <1>6 DEF Clear
<1>8. Fine(k)
  <2>1. CASE j.row.name = "none"
    BY <1>1, <1>2, <1>6, <1>7, <2>1, MarkCleanFine
  <2>2. CASE j.row.name # "none"
    <3>1. j.row.name \in Names
      BY <1>3, <1>6, <2>2 DEF Row
    <3> QED BY <1>2, <1>6, <1>7, <2>2, <3>1, PointFine
  <2> QED BY <2>1, <2>2
<1> HIDE DEF k
<1> QED BY <1>4, <1>5, <1>8, OnlyJob

LEMMA ReadEntryKeeps == ASSUME IInv, NEW h \in Handlers, ReadEntry(h) PROVE IInv'
<1> DEFINE i == job[h]
           e == roster[i.row.name]
           j == [i EXCEPT !.seen = e]
           k == IF DesiredEntry(j.row, j.seen) = j.seen THEN MarkClean(j)
                                                        ELSE [j EXCEPT !.pc = "write"]
<1>1. i \in Job /\ JobOK(i) /\ i.pc = "read" /\ (~blind => Clear(i)) /\ TypeOK
  BY JobTyped DEF ReadEntry, At, IInv
<1>2. i.user \in UserIds /\ i.row.name \in Names
  BY <1>1 DEF JobOK, Placed
<1>3. e \in Hashes \cup {None, Locked}
  BY <1>1, <1>2 DEF TypeOK
<1>4. Set(h, k) /\ UNCHANGED <<user, roster, budget, foreign, blind, left, lost>>
  BY DEF ReadEntry, notes
<1>5. untold' \subseteq UserIds
  BY DEF ReadEntry, IInv, TypeOK, notes
<1> HIDE DEF i, e
<1>6. j \in Job /\ j.user = i.user /\ j.row = i.row /\ j.old = i.old
  BY SMTT(30), <1>1, <1>3 DEF Job
<1> HIDE DEF j
<1>7. ~blind => j.row.name \notin foreign /\ j.old \notin foreign
  BY <1>1, <1>6 DEF Clear
<1>8. Fine(k)
  BY <1>1, <1>2, <1>6, <1>7, MarkCleanFine, PointFine
<1> HIDE DEF k
<1> QED BY <1>4, <1>5, <1>8, OnlyJob

\* What a reconcile writes, and where.
LEMMA PutTyped ==
  ASSUME IInv, NEW h \in Handlers, At(h, "write")
  PROVE  /\ job[h].user \in UserIds /\ job[h].row.name \in Names
         /\ DesiredEntry(job[h].row, job[h].seen) \in Hashes \cup {None, Locked}
         /\ ~blind => job[h].row.name \notin foreign
<1>1. job[h] \in Job /\ JobOK(job[h]) /\ (~blind => Clear(job[h])) /\ job[h].pc = "write"
  BY JobTyped DEF At
<1>2. job[h].row \in Row /\ job[h].seen \in Hashes \cup {None, Locked}
  BY <1>1 DEF Job
<1> QED BY <1>1, <1>2, DesiredTyped DEF JobOK, Placed, Clear

LEMMA WriteEntryKeeps == ASSUME IInv, NEW h \in Handlers, WriteEntry(h) PROVE IInv'
<1> DEFINE j == job[h]
           n == j.row.name
           e == DesiredEntry(j.row, j.seen)
           k == [j EXCEPT !.pc = "tidy"]
<1>1. j.user \in UserIds /\ n \in Names /\ e \in Hashes \cup {None, Locked} /\ (~blind => n \notin foreign)
  BY PutTyped DEF WriteEntry
<1>2. Fine(j)
  BY JobTyped
<1>3. roster' = [roster EXCEPT ![n] = e] /\ Set(h, k) /\ UNCHANGED <<user, budget, notes>>
  BY DEF WriteEntry, Put, Go
<1> HIDE DEF j, n, e
<1>4. Fine(k)
  BY <1>1, <1>2, OtherPointFine DEF Points, Settling
<1> HIDE DEF k
<1>5. fails' \in Nat
  BY <1>3 DEF IInv, TypeOK, budget
<1> QED BY <1>1, <1>3, <1>4, <1>5, WriteRoster DEF budget, notes

LEMMA TidyKeeps == ASSUME IInv, NEW h \in Handlers, Tidy(h) PROVE IInv'
<1> DEFINE j == job[h]
           u == j.user
           r == user[u]
           row == [r EXCEPT !.dirty = FALSE]
           k == Return(j)
<1>1. j \in Job /\ JobOK(j) /\ j.pc = "tidy" /\ (~blind => Clear(j))
  BY JobTyped DEF Tidy, At
<1>2. u \in UserIds
  BY <1>1 DEF JobOK, Placed
<1>3. r \in Row /\ (~blind => r.name \notin foreign)
  BY <1>2, UserTyped
<1>4. Fine(k)
  BY <1>1, ReturnFine DEF Clear, IInv
<1>5. user' = [user EXCEPT ![u] = row] /\ Set(h, k) /\ UNCHANGED <<roster, budget, notes>>
  BY DEF Tidy
<1> HIDE DEF j, u, k, r
<1>6. row \in Row /\ row.name = r.name
  BY <1>3 DEF Row
<1> HIDE DEF row
<1> QED BY <1>2, <1>3, <1>4, <1>5, <1>6, WriteUser

LEMMA MarkDirtyKeeps == ASSUME IInv, NEW h \in Handlers, MarkDirty(h) PROVE IInv'
<1> DEFINE j == job[h]
           u == j.user
           r == user[u]
           row == [r EXCEPT !.dirty = TRUE]
           k == Return(j)
<1>1. j \in Job /\ JobOK(j) /\ j.pc = "dirty" /\ (~blind => Clear(j))
  BY JobTyped DEF MarkDirty, At
<1>2. u \in UserIds
  BY <1>1 DEF JobOK, Placed
<1>3. r \in Row /\ (~blind => r.name \notin foreign)
  BY <1>2, UserTyped
<1>4. Fine(k)
  BY <1>1, ReturnFine DEF Clear, IInv
<1>5. user' = [user EXCEPT ![u] = row] /\ Set(h, k) /\ UNCHANGED <<roster, budget, notes>>
  BY DEF MarkDirty
<1> HIDE DEF j, u, k, r
<1>6. row \in Row /\ row.name = r.name
  BY <1>3 DEF Row
<1> HIDE DEF row
<1> QED BY <1>2, <1>3, <1>4, <1>5, <1>6, WriteUser

LEMMA LockReadKeeps == ASSUME IInv, NEW h \in Handlers, LockRead(h) PROVE IInv'
<1>1. CASE roster[job[h].old] \in Hashes
  <2> DEFINE j == job[h]
             k == [j EXCEPT !.pc = "lockWrite"]
  <2>1. Fine(j) /\ JobOK(j) /\ j.pc = "lockRead"
    BY JobTyped DEF LockRead, At
  <2>2. j.old \in Names
    BY <2>1 DEF JobOK, Placed
  <2>3. Set(h, k)
    BY <1>1 DEF LockRead, Go
  <2> HIDE DEF j
  <2>4. Fine(k)
    BY <2>1, <2>2, OtherPointFine DEF Points, Settling
  <2> HIDE DEF k
  <2>5. UNCHANGED <<user, roster, budget, foreign, blind, left, lost>> /\ untold' \subseteq UserIds
    BY DEF LockRead, notes, IInv, TypeOK
  <2> QED BY <2>3, <2>4, <2>5, OnlyJob
<1>2. CASE roster[job[h].old] \notin Hashes
  BY <1>2, IdleKeeps DEF LockRead
<1> QED BY <1>1, <1>2

LEMMA LockWriteKeeps == ASSUME IInv, NEW h \in Handlers, LockWrite(h) PROVE IInv'
<1> DEFINE n == job[h].old
<1>1. JobOK(job[h]) /\ job[h].pc = "lockWrite" /\ (~blind => Clear(job[h]))
  BY JobTyped DEF LockWrite, At
<1>2. n \in Names /\ (~blind => n \notin foreign)
  BY <1>1 DEF JobOK, Placed, Clear
<1>3. roster' = [roster EXCEPT ![n] = Locked] /\ Set(h, NoJob) /\ UNCHANGED <<user, budget, notes>>
  BY DEF LockWrite
<1>4. Fine(NoJob) /\ fails' \in Nat
  BY <1>3, NoJobFine DEF IInv, TypeOK, budget
<1> HIDE DEF n
<1> QED BY <1>2, <1>3, <1>4, WriteRoster DEF budget, notes

LEMMA DoneKeeps == ASSUME IInv, NEW h \in Handlers, Done(h) PROVE IInv'
BY IdleKeeps DEF Done

-----------------------------------------------------------------------------
(* The import *)

LEMMA ImportReadKeeps == ASSUME IInv, NEW h \in Handlers, ImportRead(h) PROVE IInv'
<1> DEFINE j == job[h]
           e == roster[Some(j.ids)]
           k == [j EXCEPT !.pc = "find", !.seen = e]
<1>1. j \in Job /\ JobOK(j) /\ j.pc = "entry" /\ (~blind => Clear(j))
  BY JobTyped DEF ImportRead, At
<1>2. j.ids # {}
  BY <1>1 DEF JobOK, Placed
<1>3. e \in Hashes \cup {None, Locked}
  <2>1. Some(j.ids) \in Names
    BY <1>1, <1>2, SomeIn DEF Job
  <2> QED BY <2>1 DEF IInv, TypeOK
<1>4. Set(h, k) /\ UNCHANGED <<user, roster, budget, foreign, blind, left, lost>> /\ untold' \subseteq UserIds
  BY DEF ImportRead, notes, IInv, TypeOK
<1> HIDE DEF j, e
<1>5. k \in Job /\ k.pc = "find" /\ k.ids = j.ids /\ k.row = j.row /\ k.old = j.old
  BY ZenonT(60), <1>1, <1>3 DEF Job, Points
<1> HIDE DEF k
<1>6. Fine(k)
  BY <1>1, <1>2, <1>5 DEF Fine, JobOK, Placed, Settling, Clear
<1> QED BY <1>4, <1>6, OnlyJob

LEMMA ImportFindKeeps == ASSUME IInv, NEW h \in Handlers, ImportFind(h) PROVE IInv'
<1> DEFINE j == job[h]
           k == IF Holder(Some(j.ids)) # {} THEN Imported(j) ELSE [j EXCEPT !.pc = "create"]
<1>1. j \in Job /\ Fine(j) /\ JobOK(j) /\ j.pc = "find" /\ (~blind => Clear(j)) /\ TypeOK
  BY JobTyped DEF ImportFind, At, IInv
<1>2. j.ids # {}
  BY <1>1 DEF JobOK, Placed
<1>3. Set(h, k) /\ UNCHANGED <<user, roster, budget, foreign, blind, left, lost>> /\ untold' \subseteq UserIds
  BY DEF ImportFind, notes, IInv, TypeOK
<1> HIDE DEF j
<1>4. Fine(Imported(j))
  BY <1>1, ImportedFine DEF Clear
<1>5. Fine([j EXCEPT !.pc = "create"])
  BY <1>1, <1>2, OtherPointFine DEF Points, Settling
<1>6. Fine(k)
  BY <1>4, <1>5
<1> HIDE DEF k
<1> QED BY <1>3, <1>6, OnlyJob

\* The new user's name is nobody else's any more.
LEMMA ImportCreateKeeps == ASSUME IInv, NEW h \in Handlers, ImportCreate(h) PROVE IInv'
<1> DEFINE j == job[h]
           n == Some(j.ids)
           e == UsableHash(j.seen)
           row == [there |-> TRUE, name |-> n, active |-> TRUE, hash |-> e, dirty |-> FALSE]
           k == Imported(j)
<1>1. j \in Job /\ Fine(j) /\ JobOK(j) /\ j.pc = "create" /\ (~blind => Clear(j)) /\ TypeOK
  BY JobTyped DEF ImportCreate, At, IInv
<1>2. n \in Names
  <2>1. j.ids # {} /\ j.ids \subseteq Names
    BY <1>1 DEF JobOK, Placed, Job
  <2> QED BY <2>1, SomeIn
<1>3. e \in Hashes \cup {None}
  BY DEF UsableHash
<1>4. Fine(k)
  BY <1>1, ImportedFine DEF Clear
<1>5. Set(h, k) /\ UNCHANGED <<roster, budget, blind, untold, left, lost>>
  BY DEF ImportCreate
<1>6. \/ UNCHANGED <<user, foreign>>
      \/ /\ NextId \in UserIds
         /\ user' = [user EXCEPT ![NextId] = row]
         /\ foreign' = foreign \ {n}
  BY DEF ImportCreate
<1> HIDE DEF j, n, e, k
<1>7. row \in Row /\ row.name = n
  BY <1>2, <1>3 DEF Row
<1> HIDE DEF row
<1>8. job' \in [Handlers -> Job] /\ JobsFine'
  BY <1>4, <1>5, <1>6, SetFine DEF ForeignShrinks
<1>9. user' \in [UserIds -> Row] /\ foreign' \subseteq foreign
  BY <1>1, <1>6, <1>7 DEF TypeOK
<1>10. TypeOK'
  BY <1>1, <1>5, <1>8, <1>9 DEF TypeOK, budget
<1>11. ~blind' => UsersClear'
  BY <1>1, <1>5, <1>6, <1>7 DEF IInv, TypeOK, UsersClear
<1>12. ~blind' => EntriesStand'
  BY <1>5, <1>9 DEF IInv, EntriesStand
<1> QED BY <1>8, <1>10, <1>11, <1>12 DEF IInv

LEMMA StepKeeps == ASSUME IInv, NEW h \in Handlers, Step(h) PROVE IInv'
BY CheckKeeps, OwnerKeeps, CommitKeeps, DeactivateKeeps, MergeKeeps, ReadRowKeeps, ReadEntryKeeps,
   WriteEntryKeeps, TidyKeeps, MarkDirtyKeeps, LockReadKeeps, LockWriteKeeps, DoneKeeps,
   ImportReadKeeps, ImportFindKeeps, ImportCreateKeeps DEF Step

-----------------------------------------------------------------------------
(* Failures *)

LEMMA SpoiltFine ==
  ASSUME IInv, NEW h \in Handlers
  PROVE  /\ Fine(Spoilt(h)) /\ Spoilt(h) \in Job
         /\ Spoilt(h).pc = job[h].pc /\ Spoilt(h).user = job[h].user
         /\ Spoilt(h).row = job[h].row /\ Spoilt(h).old = job[h].old
         /\ Spoilt(h).name = job[h].name /\ Spoilt(h).op = job[h].op
<1>1. Fine(Spoilt(h))
  BY JobTyped, SoundFine DEF Spoilt
<1> QED BY <1>1, JobTyped DEF Spoilt, Job

\* The check that could not read the roster: blind' excuses the name.
LEMMA CheckFailsKeeps == ASSUME IInv, NEW h \in Handlers, CheckFails(h) PROVE IInv'
<1> DEFINE j == Spoilt(h)
           k == [j EXCEPT !.pc = "commit"]
<1>1. Fine(j) /\ j \in Job /\ JobOK(j) /\ j.pc = "check"
  BY SpoiltFine DEF CheckFails, At, Fine
<1>2. Set(h, k) /\ Mishap /\ blind' = TRUE /\ UNCHANGED <<user, roster, left, lost>>
  BY DEF CheckFails
<1> HIDE DEF j
<1>3. k \in Job /\ k.pc = "commit" /\ k.user = j.user /\ k.op = j.op
  BY SMTT(30), <1>1 DEF Job, Points
<1> HIDE DEF k
<1>4. JobOK(k)
  BY <1>1, <1>3 DEF JobOK, Placed, Settling
<1>5. job' \in [Handlers -> Job]
  BY <1>2, <1>3 DEF IInv, TypeOK, Set
<1>6. JobsFine'
  <2>1. ASSUME NEW g \in Handlers PROVE JobOK(job'[g])
    BY <1>2, <1>4, JobTyped DEF Set, IInv, TypeOK
  <2> QED BY <1>2, <2>1 DEF JobsFine, Fine, JobOK, Placed, Settling
<1>7. TypeOK'
  BY <1>2, <1>5 DEF IInv, TypeOK, Mishap
<1> QED BY <1>2, <1>6, <1>7 DEF IInv

LEMMA StatementFailsKeeps == ASSUME IInv, NEW h \in Handlers, StatementFails(h) PROVE IInv'
<1>1. Mishap /\ UNCHANGED <<user, roster, blind>> /\ left' \subseteq Names /\ lost' \in BOOLEAN
  BY DEF StatementFails, IInv, TypeOK
<1>2. CASE Set(h, Imported(Spoilt(h)))
  <2>1. Fine(Imported(Spoilt(h)))
    BY SpoiltFine, ImportedFine DEF IInv, Fine, Clear
  <2> QED BY <1>1, <1>2, <2>1, OnlyJobFails
<1>3. CASE Set(h, NoJob)
  BY <1>1, <1>3, NoJobFine, OnlyJobFails DEF IInv
<1> QED BY <1>2, <1>3 DEF StatementFails

LEMMA RosterFailsKeeps == ASSUME IInv, NEW h \in Handlers, RosterFails(h) PROVE IInv'
<1> DEFINE j == Spoilt(h)
           k == [j EXCEPT !.pc = "dirty"]
<1>1. Fine(j) /\ JobOK(j) /\ j.pc \in {"read", "write", "tidy"}
  BY SpoiltFine DEF RosterFails, Fine
<1>2. j.user \in UserIds
  BY <1>1 DEF JobOK, Placed
<1>3. Set(h, k) /\ Mishap /\ UNCHANGED <<user, blind, left, lost>>
  BY DEF RosterFails
<1>4. UNCHANGED roster \/ (At(h, "write") /\ Put(job[h]))
  BY DEF RosterFails, At
<1>5. Fine(k)
  <2> HIDE DEF j
  <2> QED BY <1>1, <1>2, OtherPointFine DEF Points, Settling
<1> HIDE DEF k
<1>6. CASE UNCHANGED roster
  BY <1>3, <1>5, <1>6, OnlyJobFails DEF IInv, TypeOK
<1>7. CASE At(h, "write") /\ Put(job[h])
  <2> DEFINE n == job[h].row.name
             e == DesiredEntry(job[h].row, job[h].seen)
  <2>1. n \in Names /\ e \in Hashes \cup {None, Locked} /\ (~blind => n \notin foreign)
    BY <1>7, PutTyped
  <2>2. roster' = [roster EXCEPT ![n] = e]
    BY <1>7 DEF Put
  <2>3. fails' \in Nat
    BY <1>3 DEF Mishap, IInv, TypeOK
  <2> HIDE DEF n, e
  <2> QED BY <1>3, <1>5, <2>1, <2>2, <2>3, WriteRoster DEF Mishap
<1> QED BY <1>4, <1>6, <1>7

LEMMA MarkFailsKeeps == ASSUME IInv, NEW h \in Handlers, MarkFails(h) PROVE IInv'
<1>1. Mishap /\ UNCHANGED <<user, roster, blind>> /\ left' \subseteq Names /\ lost' \in BOOLEAN
  BY DEF MarkFails, IInv, TypeOK
<1>2. Fine(Return(Spoilt(h))) /\ Set(h, Return(Spoilt(h)))
  BY SpoiltFine, ReturnFine DEF IInv, Fine, Clear, MarkFails
<1> QED BY <1>1, <1>2, OnlyJobFails

LEMMA LockFailsKeeps == ASSUME IInv, NEW h \in Handlers, LockFails(h) PROVE IInv'
<1>1. JobOK(job[h]) /\ job[h].pc \in {"lockRead", "lockWrite"}
  BY JobTyped DEF LockFails
<1>2. job[h].old \in Names
  BY <1>1 DEF JobOK, Placed
<1>3. Mishap /\ UNCHANGED <<user, roster, blind>> /\ left' \subseteq Names /\ lost' \in BOOLEAN
  BY <1>2 DEF LockFails, IInv, TypeOK
<1>4. Set(h, NoJob) /\ Fine(NoJob)
  BY NoJobFine DEF LockFails, IInv
<1> QED BY <1>3, <1>4, OnlyJobFails

LEMMA FailureKeeps == ASSUME IInv, NEW h \in Handlers, Failure(h) PROVE IInv'
BY CheckFailsKeeps, StatementFailsKeeps, RosterFailsKeeps, MarkFailsKeeps, LockFailsKeeps DEF Failure

LEMMA CrashKeeps == ASSUME IInv, Crash PROVE IInv'
<1>1. job' \in [Handlers -> Job] /\ \A h \in Handlers : job'[h] = NoJob
  BY NoJobIsJob DEF Crash
<1>2. TypeOK'
  BY <1>1 DEF Crash, Mishap, IInv, TypeOK
<1>3. JobsFine'
  <2>1. Fine(NoJob)
    BY NoJobFine DEF IInv
  <2> QED BY <1>1, <2>1 DEF JobsFine, Fine, JobOK, Placed, Settling, Clear, Crash, Mishap
<1> QED BY <1>2, <1>3 DEF IInv, UsersClear, EntriesStand, Crash, Mishap

LEMMA FlipKeeps == ASSUME IInv, NEW u \in UserIds, Flip(u) PROVE IInv'
<1> DEFINE r == user[u]
           a == ~r.active
           row == [r EXCEPT !.active = a]
<1>1. r \in Row /\ (~blind => r.name \notin foreign)
  BY UserTyped
<1>2. a \in BOOLEAN
  BY <1>1 DEF Row
<1>3. user' = [user EXCEPT ![u] = row]
  BY DEF Flip
<1> HIDE DEF r, a
<1>4. row \in Row /\ row.name = r.name
  BY <1>1, <1>2 DEF Row
<1> HIDE DEF row
<1>5. ASSUME NEW g \in Handlers PROVE job'[g] \in Job /\ Fine(job'[g])
  <2>1. job'[g] = [job[g] EXCEPT !.sound = FALSE]
    BY DEF Flip, Disturbed
  <2> QED BY <2>1, JobTyped, SoundFine DEF Fine, JobOK, Placed
<1>6. job' \in [Handlers -> Job]
  <2>1. job' = [g \in Handlers |-> job'[g]]
    BY DEF Flip, Disturbed
  <2> QED BY <1>5, <2>1
<1>7. JobsFine'
  BY <1>5 DEF JobsFine, Fine, Clear, JobOK, Placed, Settling, Flip
<1>8. ops' \in 0..MaxOps
  <2>1. ops \in 0..MaxOps /\ ops < MaxOps /\ ops' = ops + 1
    BY DEF Flip, IInv, TypeOK
  <2> QED BY <2>1, LaptopAssumption
<1>9. TypeOK'
  BY <1>3, <1>4, <1>6, <1>8 DEF Flip, IInv, TypeOK
<1>10. ~blind' => UsersClear'
  BY <1>1, <1>3, <1>4 DEF IInv, TypeOK, UsersClear, Flip
<1> QED BY <1>7, <1>9, <1>10 DEF IInv, EntriesStand, Flip

-----------------------------------------------------------------------------
(* The theorems *)

LEMMA NextKeeps == ASSUME IInv, [Next]_vars PROVE IInv'
<1>1. CASE UNCHANGED vars
  BY <1>1 DEF vars, IInv, TypeOK, JobsFine, Fine, JobOK, Placed, Settling, Clear, UsersClear, EntriesStand
<1>2. CASE Next
  BY <1>2, StartKeeps, TickKeeps, StepKeeps, FailureKeeps, FlipKeeps, CrashKeeps DEF Next
<1> QED BY <1>1, <1>2

LEMMA InitIInv == ASSUME Init PROVE IInv
<1> PICK n \in {m \in Names : roster[m] = Old} \cup {"none"} :
      /\ user = [u \in UserIds |->
                   IF u = 1 THEN [NoUser EXCEPT !.there = TRUE, !.active = TRUE, !.name = n,
                                                !.hash = IF n = "none" THEN None ELSE Old]
                            ELSE NoUser]
      /\ foreign = {m \in Names : roster[m] # None} \ {n}
  BY DEF Init
<1>1. n \in Names \cup {"none"} /\ n \notin foreign
  OBVIOUS
<1>2. \A u \in UserIds : user[u] \in Row /\ user[u].name \in {n, "none"}
  <2> DEFINE x == IF n = "none" THEN None ELSE Old
             row == [NoUser EXCEPT !.there = TRUE, !.active = TRUE, !.name = n, !.hash = x]
  <2>1. x \in Hashes \cup {None}
    BY DEF Hashes
  <2>2. \A u \in UserIds : user[u] = IF u = 1 THEN row ELSE NoUser
    OBVIOUS
  <2> HIDE DEF x
  <2>3. row \in Row /\ row.name = n
    BY <1>1, <2>1 DEF NoUser, Row
  <2> HIDE DEF row
  <2> QED BY <2>2, <2>3, NoUserRow DEF NoUser
<1>3. user \in [UserIds -> Row]
  BY <1>2
<1>4. job \in [Handlers -> Job] /\ \A h \in Handlers : job[h] = NoJob
  BY NoJobIsJob DEF Init
<1>5. roster \in [Names -> {None, Locked, Old}]
  BY DEF Init
<1>6. TypeOK
  <2>1. roster \in [Names -> Hashes \cup {None, Locked}]
    <3>1. {None, Locked, Old} \subseteq Hashes \cup {None, Locked}
      BY DEF Hashes
    <3> QED BY <1>5, <3>1
  <2>2. ops \in 0..MaxOps /\ races \in Nat /\ fails \in Nat
    BY LaptopAssumption DEF Init
  <2>3. foreign \subseteq Names /\ left \subseteq Names /\ untold \subseteq UserIds
    BY DEF Init
  <2>4. blind \in BOOLEAN /\ lost \in BOOLEAN
    BY DEF Init
  <2> QED BY <1>3, <1>4, <2>1, <2>2, <2>3, <2>4 DEF TypeOK
<1>7. JobsFine
  BY <1>4, <1>6, NoJobFine DEF JobsFine
<1>8. UsersClear
  BY <1>1, <1>2, <1>6, NoneIsNoName DEF UsersClear
<1>9. EntriesStand
  BY <1>5 DEF EntriesStand
<1> QED BY <1>6, <1>7, <1>8, <1>9 DEF IInv

\* Users, entries and requests keep their types, whatever interleaves, fails or crashes.
THEOREM TypeCorrect == Spec => []TypeOK
<1>1. IInv => TypeOK
  BY DEF IInv
<1> QED BY <1>1, InitIInv, NextKeeps, PTL DEF Spec

\* rosterIdTakenByOther does its work under every interleaving: a roster entry that a
\* laptop made, and that no import has claimed, never becomes a user's.
THEOREM NobodyTakesOver == Spec => []NoTakeover
<1>1. IInv => NoTakeover
  BY DEF IInv, UsersClear, EntriesStand, NoTakeover, Holder, Known
<1> QED BY <1>1, InitIInv, NextKeeps, PTL DEF Spec

-----------------------------------------------------------------------------
(* What a request does to the entries that do not agree *)

Reconciling == {"row", "read", "write", "tidy", "dirty"}
Locking     == {"lockRead", "lockWrite"}

\* A row that nobody has is as it was made, the ids are given in order, and names are unique.
Blank       == \A u \in UserIds : user[u].there \/ user[u] = NoUser
InOrder     == \E k \in Nat : Known = 1..k
UniqueNames == \A u, v \in Known : user[u].name = user[v].name /\ user[u].name # "none" => u = v

\* Requests are about users who exist.
OfKnown(j) ==
  /\ j.todo \subseteq Known
  /\ j.other \in Known \cup {Nobody}
  /\ j.pc \in Reconciling \cup {"remove", "merge"} => j.user \in Known
  /\ Settling(j.pc) /\ j.op # "signUp" => j.user \in Known
  /\ j.pc = "merge" => j.other # Nobody /\ j.other # j.user

\* What a request has read is still so, if no other came across it: the row, the entry, the
\* name to lock after a rename.
Good(j) ==
  /\ j.pc \in {"read", "write"} => j.row = user[j.user]
  /\ j.pc = "tidy" => Agrees(j.user)
  /\ Settling(j.pc) /\ j.op = "signUp" => j.old = "none"
  /\ Settling(j.pc) /\ j.op # "signUp" =>
       /\ j.old \in {"none", user[j.user].name}
       /\ j.name = "none" \/ user[j.user].name \in {"none", j.name, j.old}
  /\ j.pc \in {"remove", "merge"} => j.old = "none"
  /\ j.pc \in Reconciling \cup Locking => j.old = "none" \/ Holder(j.old) = {}
  /\ j.pc \in {"find", "create"} => j.seen = roster[Some(j.ids)]

\* The users a request has still to reconcile, and the name it has still to lock.
Awaits(j, v) ==
  /\ j.pc \in Reconciling
  /\ v \in j.todo \/ v = j.other \/ (v = j.user /\ j.pc # "tidy")
Leaves(j) == IF j.pc \in Reconciling \cup Locking THEN {j.old} ELSE {}

\* Whatever disagrees is marked, forgotten by a path that does not reconcile, or on its way.
Covering(j) ==
  /\ \A v \in Known : Agrees(v) \/ user[v].dirty \/ v \in untold \/ Awaits(j, v)
  /\ \A n \in Names : roster[n] \in Hashes /\ Holder(n) = {} => n \in foreign \cup left \cup Leaves(j)

\* A push-all leaves behind it entries that agree.
PushPoint(j) == j.pc \in {"row", "read", "write", "tidy", "done"} /\ j.old = "none" /\ j.other = Nobody
Repairing(j) ==
  /\ PushPoint(j)
  /\ \A v \in Known : Agrees(v) \/ Awaits(j, v)

OthersIdle(h) == \A g \in Handlers : g # h => At(g, "idle")

RInv ==
  /\ Blank /\ InOrder /\ UniqueNames
  /\ \A h \in Handlers : OfKnown(job[h])
  /\ races = 0 => \A h \in Handlers : At(h, "idle") \/ OthersIdle(h)
  /\ \A h \in Handlers : job[h].sound => OthersIdle(h) /\ Good(job[h]) /\ Repairing(job[h])
  /\ races = 0 /\ Quiet /\ ~lost => Covering(NoJob)
  /\ races = 0 => \A h \in Handlers : OthersIdle(h) => Good(job[h]) /\ (~lost => Covering(job[h]))

LEMMA IdleGood == ASSUME NEW j, j.pc = "idle" PROVE Good(j)
BY DEF Good, Settling, Reconciling, Locking

\* Requests that have nothing to do cover the same.
LEMMA IdleAlike ==
  ASSUME NEW i, NEW j, i.pc = "idle", j.pc = "idle", Covering(i)
  PROVE  Covering(j)
BY DEF Covering, Awaits, Leaves, Reconciling, Locking

\* A step of one request that is under way, told by its own record before and after.
LEMMA Moves ==
  ASSUME IInv, RInv, NEW h \in Handlers, ~At(h, "idle"),
         \A g \in Handlers : g # h => job'[g] = job[g],
         races' = races, lost => lost',
         Blank', InOrder', UniqueNames', Known \subseteq Known',
         OfKnown(job[h])', job'[h].sound => job[h].sound,
         Good(job[h]) => Good(job[h])',
         Good(job[h]) /\ Covering(job[h]) /\ ~lost' => Covering(job[h])',
         Good(job[h]) /\ Repairing(job[h]) /\ job'[h].sound => Repairing(job[h])'
  PROVE  RInv'
<1>1. \A g \in Handlers : OfKnown(job[g])'
  <2>1. ASSUME NEW g \in Handlers, g # h PROVE OfKnown(job[g])'
    <3>1. OfKnown(job[g]) /\ job'[g] = job[g]
      BY <2>1 DEF RInv
    <3> QED BY <3>1 DEF OfKnown
  <2> QED BY <2>1
<1>2. \A g \in Handlers : g # h => ~job[g].sound
  BY DEF RInv, OthersIdle
<1>3. \A g \in Handlers : job'[g].sound => OthersIdle(g)' /\ Good(job[g])' /\ Repairing(job[g])'
  <2>1. ASSUME job'[h].sound PROVE OthersIdle(h)' /\ Good(job[h])' /\ Repairing(job[h])'
    BY <2>1 DEF RInv, OthersIdle, At
  <2> QED BY <1>2, <2>1
<1>4. ASSUME races = 0
      PROVE  /\ OthersIdle(h) /\ OthersIdle(h)'
             /\ Good(job[h])'
             /\ ~lost' => Covering(job[h])'
  <2>1. OthersIdle(h) /\ Good(job[h]) /\ (~lost => Covering(job[h]))
    BY <1>4 DEF RInv
  <2>2. OthersIdle(h)'
    BY <2>1 DEF OthersIdle, At
  <2> QED BY <2>1, <2>2
<1>5. races' = 0 => \A g \in Handlers : At(g, "idle")' \/ OthersIdle(g)'
  BY <1>4 DEF OthersIdle, At
<1>6. ASSUME races = 0, NEW g \in Handlers, g # h, OthersIdle(g)'
      PROVE  Good(job[g])' /\ (~lost' => Covering(job[g])')
  <2>1. job'[g].pc = "idle" /\ job'[h].pc = "idle"
    BY <1>4, <1>6 DEF OthersIdle, At
  <2>2. Good(job[g])'
    BY <2>1 DEF Good, Settling, Reconciling, Locking
  <2>3. Covering(job[h])' => Covering(job[g])'
    BY <2>1 DEF Covering, Awaits, Leaves, Reconciling, Locking
  <2> QED BY <1>4, <1>6, <2>2, <2>3
<1>7. races' = 0 => \A g \in Handlers : OthersIdle(g)' => Good(job[g])' /\ (~lost' => Covering(job[g])')
  BY <1>4, <1>6
<1>8. races' = 0 /\ Quiet' /\ ~lost' => Covering(NoJob)'
  <2>1. ASSUME Quiet', Covering(job[h])' PROVE Covering(NoJob)'
    <3>1. job'[h].pc = "idle" /\ NoJob.pc = "idle"
      BY <2>1, NoJobIsJob DEF Quiet, At
    <3> QED BY <2>1, <3>1 DEF Covering, Awaits, Leaves, Reconciling, Locking
  <2> QED BY <1>4, <2>1
<1> QED BY <1>1, <1>3, <1>5, <1>7, <1>8 DEF RInv

\* The fields the entries depend on.
SameRows ==
  \A v \in UserIds : /\ user'[v].there = user[v].there /\ user'[v].name = user[v].name
                     /\ user'[v].hash = user[v].hash /\ user'[v].active = user[v].active

LEMMA SameRowsSame ==
  ASSUME SameRows, roster' = roster, IInv
  PROVE  /\ Known' = Known
         /\ \A n : Holder(n)' = Holder(n)
         /\ \A v \in UserIds : Agrees(v)' <=> Agrees(v)
<1>1. Known' = Known
  BY DEF SameRows, Known
<1>2. \A n : Holder(n)' = Holder(n)
  BY <1>1 DEF SameRows, Holder, Known
<1>3. \A v \in UserIds : Agrees(v)' <=> Agrees(v)
  BY DEF SameRows, Agrees, Eligible
<1> QED BY <1>1, <1>2, <1>3

\* A step that writes no more than a mark.
LEMMA Proceeds ==
  ASSUME IInv, RInv, NEW h \in Handlers, ~At(h, "idle"),
         \A g \in Handlers : g # h => job'[g] = job[g],
         SameRows, Blank', roster' = roster, races' = races, lost => lost',
         foreign' = foreign, left \subseteq left',
         OfKnown(job[h])',
         job'[h].sound => job[h].sound /\ (PushPoint(job[h]) => PushPoint(job'[h])),
         Good(job[h]) => Good(job[h])',
         \A n \in Leaves(job[h]) : n \in Leaves(job'[h]) \cup left' \/ n \notin Names
                                   \/ roster[n] \notin Hashes \/ lost',
         Good(job[h]) => \A v \in Known : Awaits(job[h], v) =>
            Agrees(v) \/ Awaits(job'[h], v) \/ (user'[v].dirty /\ ~job'[h].sound) \/ (lost' /\ ~job'[h].sound),
         Good(job[h]) => \A v \in Known : user[v].dirty \/ v \in untold =>
            Agrees(v) \/ Awaits(job'[h], v) \/ user'[v].dirty \/ v \in untold'
  PROVE  RInv'
<1>1. /\ Known' = Known
      /\ \A n : Holder(n)' = Holder(n)
      /\ \A v \in UserIds : Agrees(v)' <=> Agrees(v)
  BY SameRowsSame
<1>2. Known \subseteq UserIds
  BY DEF Known
<1>3. InOrder' /\ UniqueNames'
  BY <1>1, <1>2 DEF RInv, InOrder, UniqueNames, SameRows
<1>4. ASSUME Good(job[h]), Covering(job[h]), ~lost' PROVE Covering(job[h])'
  BY <1>1, <1>2, <1>4 DEF Covering
<1>5. ASSUME Good(job[h]), Repairing(job[h]), job'[h].sound PROVE Repairing(job[h])'
  BY <1>1, <1>2, <1>5 DEF Repairing, PushPoint
<1> QED BY <1>1, <1>3, <1>4, <1>5, Moves

-----------------------------------------------------------------------------
(* The next reconcile of a request *)

\* What Return makes of a request's record: the next user's turn, the old name's, or the end.
LEMMA ReturnShape ==
  ASSUME NEW j \in Job, NEW k, k = Return(j)
  PROVE  /\ k.pc \in {"row", "lockRead", "done", "idle"}
         /\ k.pc = "row" => /\ k.user \in j.todo \/ (k.user = j.other /\ j.other # Nobody)
                            /\ k.old = j.old /\ k.op = j.op
         /\ k.todo \subseteq j.todo
         /\ k.other = Nobody
         /\ k.pc = "lockRead" => k.old = j.old
         /\ k.pc \in {"done", "idle"} => j.old = "none" /\ k.old = "none"
         /\ \A v : v \in j.todo \/ (v = j.other /\ v # Nobody) =>
                     k.pc = "row" /\ (v \in k.todo \/ v = k.user)
         /\ k.sound => j.sound /\ k.pc \in {"row", "done"}
<1>0. /\ NoJob.pc = "idle" /\ NoJob.todo = {} /\ NoJob.other = Nobody /\ NoJob.old = "none"
      /\ NoJob.sound = FALSE
  BY DEF NoJob
<1>j. NoJob \in Job
  BY NoJobIsJob
<1>1. CASE j.other # Nobody
  <2> DEFINE i == [j EXCEPT !.other = Nobody, !.row = NoUser, !.seen = None]
  <2>1. k = [i EXCEPT !.pc = "row", !.user = j.other]
    BY <1>1 DEF Return, Reconcile
  <2>2. /\ i \in Job /\ i.other = Nobody /\ i.old = j.old /\ i.op = j.op /\ i.todo = j.todo
        /\ i.sound = j.sound
    BY ZenonT(60), NoUserRow DEF Job
  <2> HIDE DEF i
  <2>3. /\ k.pc = "row" /\ k.user = j.other /\ k.old = j.old /\ k.op = j.op /\ k.todo = j.todo
        /\ k.other = Nobody /\ k.sound = j.sound
    BY <2>1, <2>2 DEF Job
  <2> QED BY <1>1, <2>3
<1>2. CASE j.other = Nobody /\ j.todo # {}
  <2> DEFINE u == Some(j.todo)
             i == [j EXCEPT !.todo = j.todo \ {u}, !.row = NoUser, !.seen = None]
  <2>1. k = [i EXCEPT !.pc = "row", !.user = u]
    BY <1>2 DEF Return, Reconcile
  <2>2. u \in j.todo
    BY <1>2, SomeIn
  <2> HIDE DEF u
  <2>3. j.todo \ {u} \in SUBSET UserIds
    BY DEF Job
  <2>4. /\ i \in Job /\ i.other = j.other /\ i.old = j.old /\ i.op = j.op /\ i.todo = j.todo \ {u}
        /\ i.sound = j.sound
    BY ZenonT(60), NoUserRow, <2>3 DEF Job
  <2> HIDE DEF i
  <2>5. /\ k.pc = "row" /\ k.user = u /\ k.old = j.old /\ k.op = j.op /\ k.todo = j.todo \ {u}
        /\ k.other = Nobody /\ k.sound = j.sound
    BY <1>2, <2>1, <2>4 DEF Job
  <2> QED BY <1>2, <2>2, <2>5
<1>3. CASE j.other = Nobody /\ j.todo = {} /\ j.old # "none"
  <2>1. k = [NoJob EXCEPT !.pc = "lockRead", !.old = j.old]
    BY <1>3 DEF Return
  <2>2. k.pc = "lockRead" /\ k.old = j.old /\ k.todo = {} /\ k.other = Nobody /\ k.sound = FALSE
    BY <2>1, <1>0, <1>j DEF Job
  <2> QED BY <1>3, <2>2
<1>4. CASE j.other = Nobody /\ j.todo = {} /\ j.old = "none" /\ j.op = "pushAll"
  <2>1. k = [NoJob EXCEPT !.pc = "done", !.sound = j.sound]
    BY <1>4 DEF Return
  <2>2. k.pc = "done" /\ k.old = "none" /\ k.todo = {} /\ k.other = Nobody /\ k.sound = j.sound
    BY <2>1, <1>0, <1>j DEF Job
  <2> QED BY <1>4, <2>2
<1>5. CASE j.other = Nobody /\ j.todo = {} /\ j.old = "none" /\ j.op # "pushAll"
  <2>1. k = NoJob
    BY <1>5 DEF Return
  <2> QED BY <1>0, <1>5, <2>1
<1> QED BY <1>1, <1>2, <1>3, <1>4, <1>5

\* After a reconcile, what was left to do still is.
LEMMA ReturnRest ==
  ASSUME IInv, NEW h \in Handlers, job[h].pc \in Reconciling, OfKnown(job[h]),
         NEW j \in Job, j.todo = job[h].todo, j.other = job[h].other, j.old = job[h].old,
         j.sound => job[h].sound,
         job'[h] = Return(j), Known' = Known, \A n : Holder(n)' = Holder(n)
  PROVE  /\ OfKnown(job[h])'
         /\ Good(job[h]) => Good(job[h])'
         /\ job'[h].sound => job[h].sound /\ (PushPoint(job[h]) => PushPoint(job'[h]))
         /\ \A n \in Leaves(job[h]) : n \in Leaves(job'[h]) \/ n \notin Names
         /\ \A v \in Known : Awaits(job[h], v) => v = job[h].user \/ Awaits(job'[h], v)
<1> DEFINE k == job'[h]
<1>1. /\ k.pc \in {"row", "lockRead", "done", "idle"}
      /\ k.pc = "row" => /\ k.user \in j.todo \/ (k.user = j.other /\ j.other # Nobody)
                         /\ k.old = j.old /\ k.op = j.op
      /\ k.todo \subseteq j.todo
      /\ k.other = Nobody
      /\ k.pc = "lockRead" => k.old = j.old
      /\ k.pc \in {"done", "idle"} => j.old = "none" /\ k.old = "none"
      /\ \A v : v \in j.todo \/ (v = j.other /\ v # Nobody) =>
                  k.pc = "row" /\ (v \in k.todo \/ v = k.user)
      /\ k.sound => j.sound /\ k.pc \in {"row", "done"}
  BY ReturnShape
<1>2. "none" \notin Names /\ Nobody \notin Known
  BY LaptopAssumption, NobodyIsNoUser DEF Known
<1>3. OfKnown(job[h])'
  BY <1>1 DEF OfKnown, Settling, Reconciling
<1>4. Good(job[h]) => Good(job[h])'
  BY <1>1 DEF Good, Settling, Reconciling, Locking
<1>5. \A n \in Leaves(job[h]) : n \in Leaves(k) \/ n \notin Names
  BY <1>1, <1>2 DEF Leaves, Reconciling, Locking
<1>6. \A v \in Known : Awaits(job[h], v) => v = job[h].user \/ Awaits(k, v)
  BY <1>1, <1>2 DEF Awaits, Reconciling
<1>7. k.sound => job[h].sound /\ (PushPoint(job[h]) => PushPoint(k))
  BY <1>1 DEF PushPoint
<1> QED BY <1>3, <1>4, <1>5, <1>6, <1>7

-----------------------------------------------------------------------------
(* reconcile *)

\* An entry is right when it is what desiredEntry says, whatever was there before.
LEMMA DesiredIsRight ==
  ASSUME NEW r \in Row, NEW e \in Hashes \cup {None, Locked}
  PROVE  IF Eligible(r) THEN DesiredEntry(r, e) = r.hash ELSE DesiredEntry(r, e) \notin Hashes
<1>1. None \notin Hashes /\ Locked \notin Hashes
  BY LaptopAssumption DEF Hashes, HashOf, Old, None, Locked
<1> QED BY <1>1 DEF DesiredEntry

LEMMA AtReconcile ==
  ASSUME IInv, RInv, NEW h \in Handlers, job[h].pc \in Reconciling
  PROVE  /\ ~At(h, "idle") /\ job[h] \in Job /\ OfKnown(job[h]) /\ Blank
         /\ job[h].user \in Known /\ job[h].user \in UserIds /\ user[job[h].user] \in Row
         /\ job[h].pc \in {"read", "write"} => job[h].row.name \in Names
<1>1. OfKnown(job[h]) /\ job[h] \in Job /\ JobOK(job[h]) /\ Blank
  BY JobTyped DEF RInv
<1>2. job[h].user \in Known
  BY <1>1 DEF OfKnown, Reconciling
<1>3. job[h].user \in UserIds
  BY <1>2 DEF Known
<1> QED BY <1>1, <1>2, <1>3, UserTyped DEF At, Reconciling, JobOK, Placed

\* Returning from a reconcile whose user's entry is right, or whose user is marked.
LEMMA Returns ==
  ASSUME IInv, RInv, NEW h \in Handlers, job[h].pc \in Reconciling,
         \A g \in Handlers : g # h => job'[g] = job[g],
         NEW j \in Job, j.todo = job[h].todo, j.other = job[h].other, j.old = job[h].old,
         j.sound => job[h].sound,
         job'[h] = Return(j),
         SameRows, Blank', roster' = roster, races' = races, lost => lost',
         foreign' = foreign, left \subseteq left',
         Good(job[h]) => \/ Agrees(job[h].user)
                         \/ ~j.sound /\ (user'[job[h].user].dirty \/ lost'),
         Good(job[h]) => \A v \in Known : user[v].dirty \/ v \in untold =>
            Agrees(v) \/ user'[v].dirty \/ v \in untold'
  PROVE  RInv'
<1>1. Known' = Known /\ \A n : Holder(n)' = Holder(n)
  BY SameRowsSame
<1>2. ~At(h, "idle") /\ OfKnown(job[h])
  BY AtReconcile
<1>3. /\ OfKnown(job[h])'
      /\ Good(job[h]) => Good(job[h])'
      /\ job'[h].sound => job[h].sound /\ (PushPoint(job[h]) => PushPoint(job'[h]))
      /\ \A n \in Leaves(job[h]) : n \in Leaves(job'[h]) \/ n \notin Names
      /\ \A v \in Known : Awaits(job[h], v) => v = job[h].user \/ Awaits(job'[h], v)
  BY <1>1, <1>2, ReturnRest
<1>4. job'[h].sound => j.sound
  BY ReturnShape
<1> QED BY <1>2, <1>3, <1>4, Proceeds

\* Going on with the reconcile of the same user.
LEMMA StaysOn ==
  ASSUME IInv, RInv, NEW h \in Handlers, job[h].pc \in Reconciling,
         \A g \in Handlers : g # h => job'[g] = job[g],
         job'[h].pc \in Reconciling,
         job'[h].user = job[h].user, job'[h].todo = job[h].todo, job'[h].other = job[h].other,
         job'[h].old = job[h].old,
         job'[h].sound => job[h].sound /\ job'[h].pc # "dirty",
         job'[h].pc \in {"read", "write"} /\ Good(job[h]) => job'[h].row = user[job[h].user],
         job'[h].pc = "tidy" /\ Good(job[h]) => Agrees(job[h].user),
         user' = user, roster' = roster, races' = races, lost => lost',
         foreign' = foreign, left \subseteq left',
         \A v \in Known : v \in untold => v \in untold' \/ (v = job[h].user /\ job'[h].pc # "tidy")
                                                       \/ Agrees(v)
  PROVE  RInv'
<1>1. SameRows /\ Known' = Known /\ (\A n : Holder(n)' = Holder(n))
      /\ \A v \in UserIds : Agrees(v)' <=> Agrees(v)
  <2>1. SameRows
    BY DEF SameRows
  <2> QED BY <2>1, SameRowsSame
<1>2. ~At(h, "idle") /\ OfKnown(job[h]) /\ Blank /\ job[h].user \in UserIds
  BY AtReconcile
<1>3. Blank'
  BY <1>2 DEF Blank
<1>4. OfKnown(job[h])'
  BY <1>1, <1>2 DEF OfKnown, Settling, Reconciling
<1>5. Good(job[h]) => Good(job[h])'
  BY <1>1, <1>2 DEF Good, Settling, Reconciling, Locking
<1>6. job'[h].sound => job[h].sound /\ (PushPoint(job[h]) => PushPoint(job'[h]))
  BY DEF PushPoint, Reconciling
<1>7. \A n \in Leaves(job[h]) : n \in Leaves(job'[h])
  BY DEF Leaves
<1>8. Good(job[h]) => \A v \in Known : Awaits(job[h], v) => Agrees(v) \/ Awaits(job'[h], v)
  BY DEF Awaits
<1>9. \A v \in Known : user[v].dirty \/ v \in untold =>
            Agrees(v) \/ Awaits(job'[h], v) \/ user'[v].dirty \/ v \in untold'
  BY DEF Awaits
<1> QED BY <1>1, <1>2, <1>3, <1>4, <1>5, <1>6, <1>7, <1>8, <1>9, Proceeds

LEMMA ReadRowRepairs == ASSUME IInv, RInv, NEW h \in Handlers, ReadRow(h) PROVE RInv'
<1> DEFINE r == user[job[h].user]
           j == [job[h] EXCEPT !.row = r]
<1>1. job[h].pc = "row" /\ UNCHANGED <<user, roster, budget, foreign, blind, left, lost>>
      /\ untold' = untold \ {job[h].user}
  <2>1. j.user = job[h].user
    BY JobTyped DEF Job
  <2> QED BY <2>1 DEF ReadRow, At
<1>2. /\ job[h].pc \in Reconciling /\ job[h] \in Job /\ Blank /\ r \in Row
      /\ job[h].user \in UserIds
  BY <1>1, AtReconcile DEF Reconciling
<1>3. job' = [job EXCEPT ![h] = IF r.name # "none" THEN [j EXCEPT !.pc = "read"]
                                ELSE IF r.dirty THEN [j EXCEPT !.pc = "tidy"] ELSE Return(j)]
  <2>1. j.row = r
    BY <1>2 DEF Job
  <2> HIDE DEF r
  <2>2. Set(h, IF j.row.name = "none" THEN MarkClean(j) ELSE [j EXCEPT !.pc = "read"])
    BY DEF ReadRow, r
  <2> HIDE DEF j
  <2> QED BY <2>1, <2>2 DEF Set, MarkClean
<1>4. /\ j \in Job /\ j.todo = job[h].todo /\ j.other = job[h].other /\ j.old = job[h].old
      /\ j.sound = job[h].sound /\ j.row = r /\ j.user = job[h].user
  <2> HIDE DEF r
  <2> QED BY <1>2 DEF Job
<1>5. \A g \in Handlers : g # h => job'[g] = job[g]
  BY <1>3 DEF IInv, TypeOK
<1>6. r.name = "none" => Agrees(job[h].user)
  BY DEF Agrees
<1>7. races' = races /\ Blank'
  BY <1>1, <1>2 DEF budget, Blank
<1> HIDE DEF j
<1>8. CASE r.name # "none"
  <2>1. job'[h] = [j EXCEPT !.pc = "read"]
    BY <1>3, <1>8 DEF IInv, TypeOK
  <2>2. /\ job'[h].pc = "read" /\ job'[h].todo = j.todo /\ job'[h].other = j.other
        /\ job'[h].old = j.old /\ job'[h].sound = j.sound /\ job'[h].row = j.row
        /\ job'[h].user = j.user
    BY <1>4, <2>1 DEF Job
  <2> QED BY <1>1, <1>2, <1>4, <1>5, <1>7, <2>2, StaysOn DEF Reconciling
<1>9. CASE r.name = "none" /\ r.dirty
  <2>1. job'[h] = [j EXCEPT !.pc = "tidy"]
    BY <1>3, <1>9 DEF IInv, TypeOK
  <2>2. /\ job'[h].pc = "tidy" /\ job'[h].todo = j.todo /\ job'[h].other = j.other
        /\ job'[h].old = j.old /\ job'[h].sound = j.sound /\ job'[h].row = j.row
        /\ job'[h].user = j.user
    BY <1>4, <2>1 DEF Job
  <2> QED BY <1>1, <1>2, <1>4, <1>5, <1>6, <1>7, <1>9, <2>2, StaysOn DEF Reconciling
<1>10. CASE r.name = "none" /\ ~r.dirty
  <2>1. job'[h] = Return(j)
    BY <1>3, <1>10 DEF IInv, TypeOK
  <2>2. SameRows
    BY <1>1 DEF SameRows
  <2>3. \A v \in Known : user[v].dirty \/ v \in untold => Agrees(v) \/ user'[v].dirty \/ v \in untold'
    BY <1>1, <1>6, <1>10
  <2> QED BY <1>1, <1>2, <1>4, <1>5, <1>6, <1>7, <1>10, <2>1, <2>2, <2>3, Returns
<1>11. r.dirty \in BOOLEAN
  BY <1>2 DEF Row
<1> QED BY <1>8, <1>9, <1>10

\* The entry agrees once it is what desiredEntry makes of the row.
LEMMA DesiredAgrees ==
  ASSUME NEW r \in Row, NEW e \in Hashes \cup {None, Locked}, NEW u,
         user[u] = r, roster[r.name] = DesiredEntry(r, e)
  PROVE  Agrees(u)
BY DesiredIsRight DEF Agrees

LEMMA ReadEntryRepairs == ASSUME IInv, RInv, NEW h \in Handlers, ReadEntry(h) PROVE RInv'
<1> DEFINE e == roster[job[h].row.name]
           j == [job[h] EXCEPT !.seen = e]
<1>1. job[h].pc = "read" /\ UNCHANGED <<user, roster, budget, notes>>
  BY DEF ReadEntry, At
<1>2. /\ job[h].pc \in Reconciling /\ job[h] \in Job /\ Blank /\ job[h].row.name \in Names
      /\ job[h].row \in Row
  BY <1>1, AtReconcile DEF Reconciling, Job
<1>3. e \in Hashes \cup {None, Locked}
  BY <1>2 DEF IInv, TypeOK
<1>4. /\ j \in Job /\ j.todo = job[h].todo /\ j.other = job[h].other /\ j.old = job[h].old
      /\ j.sound = job[h].sound /\ j.row = job[h].row /\ j.seen = e /\ j.user = job[h].user
  <2> HIDE DEF e
  <2> QED BY SMTT(30), <1>2, <1>3 DEF Job
<1>5. job' = [job EXCEPT ![h] = IF DesiredEntry(j.row, j.seen) # j.seen THEN [j EXCEPT !.pc = "write"]
                                ELSE IF j.row.dirty THEN [j EXCEPT !.pc = "tidy"] ELSE Return(j)]
  <2>1. Set(h, IF DesiredEntry(j.row, j.seen) = j.seen THEN MarkClean(j) ELSE [j EXCEPT !.pc = "write"])
    BY DEF ReadEntry
  <2> HIDE DEF j
  <2> QED BY <2>1 DEF Set, MarkClean
<1>6. \A g \in Handlers : g # h => job'[g] = job[g]
  BY <1>5 DEF IInv, TypeOK
<1>7. Good(job[h]) => job[h].row = user[job[h].user]
  BY <1>1 DEF Good
<1>8. Good(job[h]) /\ DesiredEntry(j.row, j.seen) = j.seen => Agrees(job[h].user)
  BY <1>2, <1>3, <1>4, <1>7, DesiredAgrees
<1>9. races' = races /\ Blank' /\ lost' = lost /\ foreign' = foreign /\ left' = left /\ untold' = untold
  BY <1>1, <1>2 DEF budget, Blank, notes
<1> HIDE DEF j, e
<1>10. CASE DesiredEntry(j.row, j.seen) # j.seen
  <2>1. job'[h] = [j EXCEPT !.pc = "write"]
    BY <1>5, <1>10 DEF IInv, TypeOK
  <2>2. /\ job'[h].pc = "write" /\ job'[h].todo = j.todo /\ job'[h].other = j.other
        /\ job'[h].old = j.old /\ job'[h].sound = j.sound /\ job'[h].row = j.row
        /\ job'[h].user = j.user
    BY <1>4, <2>1 DEF Job
  <2> QED BY <1>1, <1>2, <1>4, <1>6, <1>7, <1>9, <2>2, StaysOn DEF Reconciling
<1>11. CASE DesiredEntry(j.row, j.seen) = j.seen /\ j.row.dirty
  <2>1. job'[h] = [j EXCEPT !.pc = "tidy"]
    BY <1>5, <1>11 DEF IInv, TypeOK
  <2>2. /\ job'[h].pc = "tidy" /\ job'[h].todo = j.todo /\ job'[h].other = j.other
        /\ job'[h].old = j.old /\ job'[h].sound = j.sound /\ job'[h].row = j.row
        /\ job'[h].user = j.user
    BY <1>4, <2>1 DEF Job
  <2> QED BY <1>1, <1>2, <1>4, <1>6, <1>8, <1>9, <1>11, <2>2, StaysOn DEF Reconciling
<1>12. CASE DesiredEntry(j.row, j.seen) = j.seen /\ ~j.row.dirty
  <2>1. job'[h] = Return(j)
    BY <1>5, <1>12 DEF IInv, TypeOK
  <2>2. SameRows
    BY <1>1 DEF SameRows
  <2> QED BY <1>1, <1>2, <1>4, <1>6, <1>8, <1>9, <1>12, <2>1, <2>2, Returns
<1>13. j.row.dirty \in BOOLEAN
  BY <1>2, <1>4 DEF Row
<1> QED BY <1>10, <1>11, <1>12, <1>13

\* Writing the entry: nobody else has the name.
LEMMA PutRepairs ==
  ASSUME IInv, RInv, NEW h \in Handlers, At(h, "write"), Put(job[h]),
         \A g \in Handlers : g # h => job'[g] = job[g],
         job'[h].pc \in {"tidy", "dirty"}, job'[h].user = job[h].user,
         job'[h].todo = job[h].todo, job'[h].other = job[h].other, job'[h].old = job[h].old,
         job'[h].sound => job[h].sound /\ job'[h].pc # "dirty",
         user' = user, races' = races, lost' = lost, foreign' = foreign, left' = left, untold' = untold
  PROVE  RInv'
<1> DEFINE u == job[h].user
           n == job[h].row.name
           e == DesiredEntry(job[h].row, job[h].seen)
<1>1. /\ job[h].pc \in Reconciling /\ job[h] \in Job /\ Blank /\ n \in Names /\ job[h].row \in Row
      /\ u \in Known /\ OfKnown(job[h]) /\ ~At(h, "idle") /\ job[h].pc = "write"
      /\ job[h].seen \in Hashes \cup {None, Locked} /\ n # "none"
  BY AtReconcile, LaptopAssumption DEF Reconciling, Job, At
<1>2. e \in Hashes \cup {None, Locked} /\ roster' = [roster EXCEPT ![n] = e]
  BY <1>1, DesiredTyped DEF Put
<1>3. roster' \in [Names -> Hashes \cup {None, Locked}] /\ roster'[n] = e
      /\ \A m \in Names : m # n => roster'[m] = roster[m]
  <2> HIDE DEF n, e
  <2> QED BY <1>1, <1>2 DEF IInv, TypeOK
<1>4. Known' = Known /\ \A m : Holder(m)' = Holder(m)
  BY DEF Known, Holder
<1>5. Blank' /\ InOrder' /\ UniqueNames'
  BY <1>1, <1>4 DEF RInv, Blank, InOrder, UniqueNames
<1>6. OfKnown(job[h])'
  BY <1>1, <1>4 DEF OfKnown, Settling, Reconciling
<1>7. Good(job[h]) => user[u] = job[h].row
  BY <1>1 DEF Good
<1>8. Good(job[h]) => Agrees(u)'
  <2>1. SUFFICES ASSUME Good(job[h]) PROVE Agrees(u)'
    OBVIOUS
  <2>2. user'[u] = job[h].row /\ roster'[job[h].row.name] = e
    BY <1>3, <1>7, <2>1
  <2>3. IF Eligible(job[h].row) THEN e = job[h].row.hash ELSE e \notin Hashes
    BY <1>1, DesiredIsRight
  <2>4. u' = u
    OBVIOUS
  <2> HIDE DEF e, u
  <2> QED BY <2>2, <2>3, <2>4 DEF Agrees
<1>9. Good(job[h]) => \A v \in Known : v # u /\ Agrees(v) => Agrees(v)'
  <2>1. SUFFICES ASSUME Good(job[h]), NEW v \in Known, v # u, Agrees(v) PROVE Agrees(v)'
    OBVIOUS
  <2>2. user[v].name # n
    BY <1>1, <1>7, <2>1 DEF RInv, UniqueNames
  <2>3. user[v].name \in Names \cup {"none"}
    BY UserTyped DEF Known, Row
  <2>4. user[v].name # "none" => roster'[user[v].name] = roster[user[v].name]
    BY <1>3, <2>2, <2>3
  <2> QED BY <2>1, <2>4 DEF Agrees
<1>10. Good(job[h]) => Good(job[h])'
  <2>1. SUFFICES ASSUME Good(job[h]) PROVE Good(job[h])'
    OBVIOUS
  <2>2. Agrees(job[h].user)'
    BY <1>8, <2>1
  <2>3. job[h].old = "none" \/ Holder(job[h].old) = {}
    BY <1>1, <2>1 DEF Good
  <2>4. job'[h].old = "none" \/ Holder(job[h].old)' = {}
    BY <2>3 DEF Holder, Known
  <2> QED BY <2>2, <2>4 DEF Good, Settling, Reconciling, Locking
<1>11. \A v \in Known : Awaits(job[h], v) => v = u \/ Awaits(job'[h], v)
  BY <1>1 DEF Awaits, Reconciling
<1>12. u \in Holder(n) \/ ~Good(job[h])
  BY <1>1, <1>7 DEF Holder
<1>13. ASSUME Good(job[h]), Covering(job[h]), ~lost' PROVE Covering(job[h])'
  <2>1. ASSUME NEW v \in Known' PROVE Agrees(v)' \/ user'[v].dirty \/ v \in untold' \/ Awaits(job'[h], v)
    <3>1. v \in Known /\ (Agrees(v) \/ user[v].dirty \/ v \in untold \/ Awaits(job[h], v))
      BY <1>4, <1>13 DEF Covering
    <3> QED BY <1>8, <1>9, <1>11, <1>13, <3>1
  <2>2. ASSUME NEW m \in Names, roster'[m] \in Hashes, Holder(m)' = {}
        PROVE  m \in foreign' \cup left' \cup Leaves(job'[h])
    <3>1. m # n /\ Holder(m) = {}
      BY <1>4, <1>12, <1>13, <2>2
    <3>2. m \in foreign \cup left \cup Leaves(job[h])
      BY <1>3, <1>13, <2>2, <3>1 DEF Covering
    <3>3. Leaves(job'[h]) = Leaves(job[h])
      BY <1>1 DEF Leaves, Reconciling
    <3> QED BY <3>2, <3>3
  <2> QED BY <2>1, <2>2 DEF Covering
<1>14. ASSUME Good(job[h]), Repairing(job[h]), job'[h].sound PROVE Repairing(job[h])'
  <2>1. ASSUME NEW v \in Known' PROVE Agrees(v)' \/ Awaits(job'[h], v)
    <3>1. v \in Known /\ (Agrees(v) \/ Awaits(job[h], v))
      BY <1>4, <1>14 DEF Repairing
    <3> QED BY <1>8, <1>9, <1>11, <1>14, <3>1
  <2> QED BY <1>14, <2>1 DEF Repairing, PushPoint
<1> QED BY <1>1, <1>4, <1>5, <1>6, <1>10, <1>13, <1>14, Moves

LEMMA WriteEntryRepairs == ASSUME IInv, RInv, NEW h \in Handlers, WriteEntry(h) PROVE RInv'
<1>1. job[h] \in Job /\ job' = [job EXCEPT ![h] = [job[h] EXCEPT !.pc = "tidy"]]
  BY JobTyped DEF WriteEntry, Go, Set
<1>2. job'[h] = [job[h] EXCEPT !.pc = "tidy"] /\ \A g \in Handlers : g # h => job'[g] = job[g]
  BY <1>1 DEF IInv, TypeOK
<1>3. /\ job'[h].pc = "tidy" /\ job'[h].user = job[h].user
      /\ job'[h].todo = job[h].todo /\ job'[h].other = job[h].other /\ job'[h].old = job[h].old
      /\ job'[h].sound = job[h].sound
  BY <1>1, <1>2 DEF Job
<1> QED BY <1>2, <1>3, PutRepairs DEF WriteEntry, budget, notes

\* Writing the mark, one way or the other.
LEMMA Marks ==
  ASSUME IInv, RInv, NEW h \in Handlers, job[h].pc \in Reconciling, NEW d \in BOOLEAN,
         user' = [user EXCEPT ![job[h].user].dirty = d]
  PROVE  /\ SameRows /\ Blank'
         /\ user'[job[h].user].dirty = d
         /\ \A v \in Known : v # job[h].user => user'[v].dirty = user[v].dirty
<1> DEFINE u == job[h].user
<1>1. u \in Known /\ u \in UserIds /\ Blank /\ user[u] \in Row
  BY AtReconcile
<1>2. user' = [user EXCEPT ![u] = [user[u] EXCEPT !.dirty = d]]
  OBVIOUS
<1>3. user'[u] = [user[u] EXCEPT !.dirty = d] /\ \A v \in UserIds : v # u => user'[v] = user[v]
  <2> HIDE DEF u
  <2> QED BY <1>1, <1>2 DEF IInv, TypeOK
<1>4. /\ user'[u].there = user[u].there /\ user'[u].name = user[u].name
      /\ user'[u].hash = user[u].hash /\ user'[u].active = user[u].active
      /\ user'[u].dirty = d
  BY <1>1, <1>3 DEF Row
<1>5. SameRows
  BY <1>3, <1>4 DEF SameRows
<1>6. Blank'
  <2>1. user[u].there
    BY <1>1 DEF Known
  <2> QED BY <1>1, <1>3, <1>4, <2>1 DEF Blank
<1> QED BY <1>3, <1>4, <1>5, <1>6 DEF Known

LEMMA TidyRepairs == ASSUME IInv, RInv, NEW h \in Handlers, Tidy(h) PROVE RInv'
<1>1. /\ job[h].pc = "tidy" /\ job[h] \in Job
      /\ user' = [user EXCEPT ![job[h].user].dirty = FALSE]
      /\ job' = [job EXCEPT ![h] = Return(job[h])] /\ UNCHANGED <<roster, budget, notes>>
  BY JobTyped DEF Tidy, At, Set
<1>2. job'[h] = Return(job[h]) /\ \A g \in Handlers : g # h => job'[g] = job[g]
  BY <1>1 DEF IInv, TypeOK
<1>3. /\ SameRows /\ Blank'
      /\ \A v \in Known : v # job[h].user => user'[v].dirty = user[v].dirty
  BY <1>1, Marks DEF Reconciling
<1>4. Good(job[h]) => Agrees(job[h].user)
  BY <1>1 DEF Good
<1>5. Good(job[h]) => \A v \in Known : user[v].dirty \/ v \in untold =>
            Agrees(v) \/ user'[v].dirty \/ v \in untold'
  BY <1>1, <1>3, <1>4 DEF notes
<1>6. lost' = lost /\ foreign' = foreign /\ left' = left /\ races' = races /\ roster' = roster
  BY <1>1 DEF notes, budget
<1>7. job[h].pc \in Reconciling
  BY <1>1 DEF Reconciling
<1> QED BY <1>1, <1>2, <1>3, <1>4, <1>5, <1>6, <1>7, Returns

LEMMA MarkDirtyRepairs == ASSUME IInv, RInv, NEW h \in Handlers, MarkDirty(h) PROVE RInv'
<1>1. /\ job[h].pc = "dirty" /\ job[h] \in Job
      /\ user' = [user EXCEPT ![job[h].user].dirty = TRUE]
      /\ job' = [job EXCEPT ![h] = Return(job[h])] /\ UNCHANGED <<roster, budget, notes>>
  BY JobTyped DEF MarkDirty, At, Set
<1>2. job'[h] = Return(job[h]) /\ \A g \in Handlers : g # h => job'[g] = job[g]
  BY <1>1 DEF IInv, TypeOK
<1>3. /\ SameRows /\ Blank' /\ user'[job[h].user].dirty
      /\ \A v \in Known : v # job[h].user => user'[v].dirty = user[v].dirty
  BY <1>1, Marks DEF Reconciling
<1>4. ~job[h].sound
  BY <1>1 DEF RInv, Repairing, PushPoint
<1>5. Good(job[h]) => \A v \in Known : user[v].dirty \/ v \in untold =>
            Agrees(v) \/ user'[v].dirty \/ v \in untold'
  BY <1>1, <1>3 DEF notes
<1>6. lost' = lost /\ foreign' = foreign /\ left' = left /\ races' = races /\ roster' = roster
  BY <1>1 DEF notes, budget
<1>7. job[h].pc \in Reconciling
  BY <1>1 DEF Reconciling
<1> QED BY <1>1, <1>2, <1>3, <1>4, <1>5, <1>6, <1>7, Returns

-----------------------------------------------------------------------------
(* Its failures *)

LEMMA SpoiltShape ==
  ASSUME IInv, NEW h \in Handlers
  PROVE  /\ Spoilt(h) \in Job /\ Spoilt(h).pc = job[h].pc /\ Spoilt(h).user = job[h].user
         /\ Spoilt(h).row = job[h].row /\ Spoilt(h).seen = job[h].seen
         /\ Spoilt(h).old = job[h].old /\ Spoilt(h).todo = job[h].todo
         /\ Spoilt(h).other = job[h].other /\ Spoilt(h).op = job[h].op
         /\ Spoilt(h).name = job[h].name
         /\ ~Spoilt(h).sound
BY JobTyped DEF Spoilt, Job

LEMMA RosterFailsRepairs == ASSUME IInv, RInv, NEW h \in Handlers, RosterFails(h) PROVE RInv'
<1>1. /\ job[h].pc \in {"read", "write", "tidy"}
      /\ job' = [job EXCEPT ![h] = [Spoilt(h) EXCEPT !.pc = "dirty"]]
      /\ user' = user /\ races' = races /\ lost' = lost /\ foreign' = foreign /\ left' = left
      /\ untold' = untold
  BY DEF RosterFails, Mishap, Set
<1>2. job'[h] = [Spoilt(h) EXCEPT !.pc = "dirty"] /\ \A g \in Handlers : g # h => job'[g] = job[g]
  BY <1>1 DEF IInv, TypeOK
<1>3. /\ job'[h].pc = "dirty" /\ job'[h].user = job[h].user
      /\ job'[h].todo = job[h].todo /\ job'[h].other = job[h].other /\ job'[h].old = job[h].old
      /\ job'[h].sound = FALSE
  BY <1>2, SpoiltShape DEF Job
<1>4. CASE roster' = roster
  BY <1>1, <1>2, <1>3, <1>4, StaysOn DEF Reconciling
<1>5. CASE At(h, "write") /\ Put(job[h])
  BY <1>1, <1>2, <1>3, <1>5, PutRepairs
<1> QED BY <1>4, <1>5 DEF RosterFails, At

LEMMA MarkFailsRepairs == ASSUME IInv, RInv, NEW h \in Handlers, MarkFails(h) PROVE RInv'
<1>1. /\ job[h].pc \in {"row", "dirty", "tidy"}
      /\ job' = [job EXCEPT ![h] = Return(Spoilt(h))]
      /\ user' = user /\ roster' = roster /\ races' = races /\ foreign' = foreign /\ left' = left
      /\ untold' = untold /\ lost' = (lost \/ job[h].pc # "tidy")
  BY DEF MarkFails, Mishap, Set
<1>2. job'[h] = Return(Spoilt(h)) /\ \A g \in Handlers : g # h => job'[g] = job[g]
  BY <1>1 DEF IInv, TypeOK
<1>3. job[h].pc \in Reconciling
  BY <1>1 DEF Reconciling
<1>4. SameRows /\ Blank'
  BY <1>1 DEF SameRows, RInv, Blank
<1>5. Good(job[h]) => Agrees(job[h].user) \/ lost'
  BY <1>1 DEF Good
<1>6. Good(job[h]) => \A v \in Known : user[v].dirty \/ v \in untold =>
            Agrees(v) \/ user'[v].dirty \/ v \in untold'
  BY <1>1
<1> QED BY <1>1, <1>2, <1>3, <1>4, <1>5, <1>6, SpoiltShape, Returns

-----------------------------------------------------------------------------
(* Requests begin *)

LEMMA Begins ==
  ASSUME IInv, RInv, NEW h \in Handlers, NEW j \in Job, Begin(h, j), OfKnown(j),
         Quiet => Good(j), Quiet /\ j.sound => Repairing(j)
  PROVE  RInv'
<1> DEFINE b == j.sound /\ Quiet
<1>1. UNCHANGED <<user, roster, fails, foreign, untold, left, lost>> /\ At(h, "idle")
      /\ races' = IF Quiet THEN races ELSE races + 1
  BY DEF Begin, notes
<1>2. job' = [Disturbed(job) EXCEPT ![h] = [j EXCEPT !.sound = b]]
  BY DEF Begin
<1>b. b \in BOOLEAN
  BY DEF Job
<1> HIDE DEF b
<1>3. /\ job'[h].pc = j.pc /\ job'[h].user = j.user /\ job'[h].name = j.name /\ job'[h].op = j.op
      /\ job'[h].other = j.other /\ job'[h].row = j.row /\ job'[h].seen = j.seen
      /\ job'[h].todo = j.todo /\ job'[h].ids = j.ids /\ job'[h].old = j.old /\ job'[h].sound = b
  <2>1. job'[h] = [j EXCEPT !.sound = b]
    BY <1>2 DEF Disturbed
  <2> QED BY <2>1 DEF Job
<1>4. \A g \in Handlers : g # h =>
         /\ job'[g].pc = job[g].pc /\ job'[g].user = job[g].user /\ job'[g].op = job[g].op
         /\ job'[g].other = job[g].other /\ job'[g].todo = job[g].todo /\ ~job'[g].sound
  <2>1. \A g \in Handlers : g # h => job'[g] = [job[g] EXCEPT !.sound = FALSE]
    BY <1>2 DEF Disturbed
  <2>2. \A i \in Job : LET k == [i EXCEPT !.sound = FALSE] IN
           /\ k.pc = i.pc /\ k.user = i.user /\ k.op = i.op
           /\ k.other = i.other /\ k.todo = i.todo /\ ~k.sound
    BY SMTT(30) DEF Job
  <2>3. ASSUME NEW g \in Handlers, g # h
        PROVE  /\ job'[g].pc = job[g].pc /\ job'[g].user = job[g].user /\ job'[g].op = job[g].op
               /\ job'[g].other = job[g].other /\ job'[g].todo = job[g].todo /\ ~job'[g].sound
    <3>1. job[g] \in Job /\ job'[g] = [job[g] EXCEPT !.sound = FALSE]
      BY <2>1, <2>3, JobTyped
    <3> QED BY <2>2, <3>1
  <2> QED BY <2>3
<1>5. Known' = Known /\ (\A n : Holder(n)' = Holder(n)) /\ \A v : Agrees(v)' <=> Agrees(v)
  BY <1>1 DEF Known, Holder, Agrees
<1>6. Blank' /\ InOrder' /\ UniqueNames'
  BY <1>1, <1>5 DEF RInv, Blank, InOrder, UniqueNames
<1>7. ASSUME NEW g \in Handlers PROVE OfKnown(job[g])'
  <2>1. CASE g = h
    BY <1>3, <1>5, <2>1 DEF OfKnown
  <2>2. CASE g # h
    <3>1. OfKnown(job[g])
      BY DEF RInv
    <3> QED BY <1>4, <1>5, <2>2, <3>1 DEF OfKnown
  <2> QED BY <2>1, <2>2
<1>8. races' = 0 => races = 0 /\ Quiet
  BY <1>1 DEF IInv, TypeOK
<1>9. Quiet => \A g \in Handlers : g # h => job'[g].pc = "idle"
  BY <1>4 DEF Quiet, At
<1>10. Quiet => OthersIdle(h)'
  BY <1>9 DEF OthersIdle, At
<1>11. races' = 0 => \A g \in Handlers : At(g, "idle")' \/ OthersIdle(g)'
  BY <1>8, <1>9, <1>10 DEF OthersIdle, At
<1>12. Quiet => Good(job[h])'
  <2>1. SUFFICES ASSUME Quiet PROVE Good(job[h])'
    OBVIOUS
  <2>2. Good(j) /\ user' = user /\ roster' = roster
    BY <1>1, <2>1
  <2>3. j.pc = "tidy" => Agrees(job[h].user)'
    <3>1. j.pc = "tidy" => Agrees(j.user)
      BY <2>2 DEF Good
    <3> QED BY <1>3, <2>2, <3>1 DEF Agrees
  <2>4. j.pc \in Reconciling \cup Locking => job'[h].old = "none" \/ Holder(job[h].old)' = {}
    <3>1. j.pc \in Reconciling \cup Locking => j.old = "none" \/ Holder(j.old) = {}
      BY <2>2 DEF Good
    <3>2. Holder(j.old) = Holder(job[h].old)'
      BY <1>3, <2>2 DEF Holder, Known
    <3> QED BY <1>3, <3>1, <3>2
  <2>5. Settling(j.pc) /\ j.op # "signUp" =>
           /\ j.old \in {"none", user'[j.user].name}
           /\ j.name = "none" \/ user'[j.user].name \in {"none", j.name, j.old}
    BY <2>2 DEF Good
  <2>6. /\ j.pc \in {"read", "write"} => j.row = user'[j.user]
        /\ Settling(j.pc) /\ j.op = "signUp" => j.old = "none"
        /\ j.pc \in {"remove", "merge"} => j.old = "none"
        /\ j.pc \in {"find", "create"} => j.seen = roster'[Some(j.ids)]
    BY <2>2 DEF Good
  <2> QED BY <1>3, <2>3, <2>4, <2>5, <2>6 DEF Good
<1>13. ASSUME NEW g \in Handlers, job'[g].sound
       PROVE  OthersIdle(g)' /\ Good(job[g])' /\ Repairing(job[g])'
  <2>1. g = h /\ Quiet /\ j.sound
    BY <1>3, <1>4, <1>13 DEF b
  <2>2. \A v \in Known : Agrees(v) \/ Awaits(j, v)
    BY <2>1 DEF Repairing
  <2>3. \A v : Awaits(j, v) => Awaits(job'[h], v)
    BY <1>3 DEF Awaits
  <2>4. \A v \in Known' : Agrees(v)' \/ Awaits(job'[h], v)
    BY <1>5, <2>2, <2>3
  <2>5. PushPoint(job'[h])
    BY <1>3, <2>1 DEF Repairing, PushPoint
  <2> QED BY <1>10, <1>12, <2>1, <2>4, <2>5 DEF Repairing
<1>14. ASSUME Quiet, races = 0, ~lost PROVE \A g \in Handlers : Covering(job[g])'
  <2>1. Covering(NoJob) /\ NoJob.pc = "idle"
    BY <1>14, NoJobIsJob DEF RInv
  <2>2. /\ \A v \in Known : Agrees(v) \/ user[v].dirty \/ v \in untold
        /\ \A n \in Names : roster[n] \in Hashes /\ Holder(n) = {} => n \in foreign \cup left
    BY <2>1 DEF Covering, Awaits, Leaves, Reconciling, Locking
  <2> QED BY <1>1, <1>5, <2>2 DEF Covering
<1>15. ASSUME Quiet, NEW g \in Handlers PROVE Good(job[g])' \/ g = h
  <2>1. g = h \/ job'[g].pc = "idle"
    BY <1>9, <1>15
  <2> QED BY <2>1 DEF Good, Settling, Reconciling, Locking
<1>16. races' = 0 => \A g \in Handlers : Good(job[g])' /\ (~lost' => Covering(job[g])')
  BY <1>1, <1>8, <1>12, <1>14, <1>15
<1>17. races' = 0 /\ Quiet' /\ ~lost' => Covering(NoJob)'
  <2>1. SUFFICES ASSUME races' = 0, Quiet', ~lost' PROVE Covering(NoJob)'
    OBVIOUS
  <2>2. Covering(job[h])' /\ job'[h].pc = "idle" /\ NoJob.pc = "idle"
    BY <1>16, <2>1, NoJobIsJob DEF Quiet, At
  <2> QED BY <2>2 DEF Covering, Awaits, Leaves, Reconciling, Locking
<1> QED BY <1>6, <1>7, <1>11, <1>13, <1>16, <1>17 DEF RInv

\* A request whose record says nothing yet that could be stale.
LEMMA Requests ==
  ASSUME IInv, RInv, NEW h \in Handlers, NEW op, NEW j \in Job, Request(h, op, j),
         j.todo \subseteq Known, j.other \in Known \cup {Nobody},
         j.pc \in {"idle", "done", "remove", "merge", "row", "entry"} \/ Settling(j.pc),
         j.pc \in {"row", "remove", "merge"} => j.user \in Known,
         j.pc = "merge" => j.other # Nobody /\ j.other # j.user,
         Settling(j.pc) /\ op # "signUp" =>
           /\ j.user \in Known /\ j.old \in {"none", user[j.user].name}
           /\ j.name = "none" \/ user[j.user].name \in {"none", j.name, j.old},
         ~Settling(j.pc) \/ op = "signUp" => j.old = "none",
         j.sound => PushPoint(j) /\ \A v \in Known : Agrees(v) \/ Awaits(j, v)
  PROVE  RInv'
<1> DEFINE o == IF op \in {"signUp", "pushAll", "import"} THEN op ELSE "none"
           k == [j EXCEPT !.op = o]
<1>1. o \in {"none", "signUp", "pushAll", "import"} /\ (op = "signUp" <=> o = "signUp")
  OBVIOUS
<1>2. Begin(h, k)
  BY DEF Request
<1> HIDE DEF o
<1>3. /\ k \in Job /\ k.op = o /\ k.pc = j.pc /\ k.user = j.user /\ k.name = j.name
      /\ k.other = j.other /\ k.row = j.row /\ k.seen = j.seen /\ k.todo = j.todo /\ k.ids = j.ids
      /\ k.old = j.old /\ k.sound = j.sound
  BY <1>1 DEF Job
<1> HIDE DEF k
<1>4. OfKnown(k)
  BY <1>1, <1>3 DEF OfKnown, Settling, Reconciling
<1>5. Good(k)
  BY <1>1, <1>3 DEF Good, Settling, Reconciling, Locking
<1>6. k.sound => Repairing(k)
  BY <1>3 DEF Repairing, PushPoint, Awaits
<1> QED BY <1>2, <1>3, <1>4, <1>5, <1>6, Begins

LEMMA NoJobEmpty ==
  /\ NoJob \in Job /\ NoJob.pc = "idle" /\ NoJob.todo = {} /\ NoJob.other = Nobody
  /\ NoJob.old = "none" /\ NoJob.sound = FALSE
BY NoJobIsJob DEF NoJob

LEMMA StartOwnRepairs ==
  ASSUME IInv, RInv, NEW h \in Handlers, NEW u \in UserIds, NEW n \in Names \cup {"none"},
         NEW p \in BOOLEAN, StartOwn(h, u, n, p)
  PROVE  RInv'
<1> DEFINE x == IF p THEN HashOf(ops + 1) ELSE None
           pc == IF n = "none" THEN "commit" ELSE "check"
           j == [NoJob EXCEPT !.pc = pc, !.user = u, !.name = n, !.hash = x]
<1>1. x \in Hashes \cup {None}
  BY NextHash DEF StartOwn, Request
<1>2. pc \in Points /\ pc \in {"check", "commit"}
  BY DEF Points
<1>3. Request(h, "own", j)
  BY DEF StartOwn
<1>4. u \in Known /\ (n = "none" \/ user[u].name \in {"none", n})
  BY DEF StartOwn, RInv, Blank, NoUser, Known
<1> HIDE DEF x, pc
<1>5. /\ j \in Job /\ j.pc = pc /\ j.user = u /\ j.name = n /\ j.old = NoJob.old
      /\ j.todo = NoJob.todo /\ j.other = NoJob.other /\ j.sound = NoJob.sound
  BY ZenonT(60), <1>1, <1>2, NoJobIsJob DEF Job
<1> HIDE DEF j
<1> QED BY <1>2, <1>3, <1>4, <1>5, NoJobEmpty, Requests DEF Settling

LEMMA StartAdminRepairs ==
  ASSUME IInv, RInv, NEW h \in Handlers, NEW u \in UserIds, NEW n \in Names \cup {"none"},
         NEW p \in BOOLEAN, StartAdmin(h, u, n, p)
  PROVE  RInv'
<1> DEFINE x == IF p THEN HashOf(ops + 1) ELSE None
           pc == IF n = "none" THEN "commit" ELSE "check"
           old == user[u].name
           j == [NoJob EXCEPT !.pc = pc, !.user = u, !.name = n, !.hash = x, !.old = old]
<1>1. x \in Hashes \cup {None}
  BY NextHash DEF StartAdmin, Request
<1>2. pc \in Points /\ pc \in {"check", "commit"}
  BY DEF Points
<1>3. Request(h, "admin", j)
  BY DEF StartAdmin
<1>4. u \in Known /\ old \in Names \cup {"none"}
  BY UserTyped DEF StartAdmin, Known, Row
<1> HIDE DEF x, pc, old
<1>5. /\ j \in Job /\ j.pc = pc /\ j.user = u /\ j.name = n /\ j.old = old
      /\ j.todo = NoJob.todo /\ j.other = NoJob.other /\ j.sound = NoJob.sound
  BY ZenonT(60), <1>1, <1>2, <1>4, NoJobIsJob DEF Job
<1> HIDE DEF j
<1>6. user[j.user].name = old
  BY <1>5 DEF old
<1> QED BY <1>2, <1>3, <1>4, <1>5, <1>6, NoJobEmpty, Requests DEF Settling

LEMMA StartSignUpRepairs ==
  ASSUME IInv, RInv, NEW h \in Handlers, NEW n \in Names, StartSignUp(h, n)
  PROVE  RInv'
<1> DEFINE x == HashOf(ops + 1)
           j == [NoJob EXCEPT !.pc = "check", !.name = n, !.hash = x]
<1>1. x \in Hashes
  BY NextHash DEF StartSignUp, Request
<1>2. Request(h, "signUp", j)
  BY DEF StartSignUp
<1> HIDE DEF x
<1>3. /\ j \in Job /\ j.pc = "check" /\ j.old = NoJob.old
      /\ j.todo = NoJob.todo /\ j.other = NoJob.other /\ j.sound = NoJob.sound
  BY ZenonT(60), <1>1, NoJobIsJob DEF Job, Points
<1> HIDE DEF j
<1> QED BY <1>2, <1>3, NoJobEmpty, Requests DEF Settling

LEMMA StartRemoveRepairs ==
  ASSUME IInv, RInv, NEW h \in Handlers, NEW u \in UserIds, StartRemove(h, u)
  PROVE  RInv'
<1> DEFINE j == [NoJob EXCEPT !.pc = "remove", !.user = u]
<1>1. Request(h, "remove", j) /\ u \in Known
  BY DEF StartRemove, Known
<1>2. /\ j \in Job /\ j.pc = "remove" /\ j.user = u /\ j.old = NoJob.old
      /\ j.todo = NoJob.todo /\ j.other = NoJob.other /\ j.sound = NoJob.sound
  BY ZenonT(60), NoJobIsJob DEF Job, Points
<1> HIDE DEF j
<1> QED BY <1>1, <1>2, NoJobEmpty, Requests DEF Settling

LEMMA StartMergeRepairs ==
  ASSUME IInv, RInv, NEW h \in Handlers, NEW u \in UserIds, NEW n \in UserIds, StartMerge(h, u, n)
  PROVE  RInv'
<1> DEFINE j == [NoJob EXCEPT !.pc = "merge", !.user = u, !.other = n]
<1>1. Request(h, "merge", j) /\ u \in Known /\ n \in Known /\ u # n /\ n # Nobody
  BY NobodyIsNoUser DEF StartMerge, Known
<1>2. /\ j \in Job /\ j.pc = "merge" /\ j.user = u /\ j.other = n /\ j.old = NoJob.old
      /\ j.todo = NoJob.todo /\ j.sound = NoJob.sound
  BY ZenonT(60), NoJobIsJob DEF Job, Points
<1> HIDE DEF j
<1> QED BY <1>1, <1>2, NoJobEmpty, Requests DEF Settling

LEMMA StartPushNowRepairs ==
  ASSUME IInv, RInv, NEW h \in Handlers, NEW u \in UserIds, StartPushNow(h, u)
  PROVE  RInv'
<1> DEFINE j == [NoJob EXCEPT !.pc = "row", !.user = u]
<1>1. Request(h, "pushNow", j) /\ u \in Known
  BY DEF StartPushNow, Reconcile, Known
<1>2. /\ j \in Job /\ j.pc = "row" /\ j.user = u /\ j.old = NoJob.old
      /\ j.todo = NoJob.todo /\ j.other = NoJob.other /\ j.sound = NoJob.sound
  BY ZenonT(60), NoJobIsJob DEF Job, Points
<1> HIDE DEF j
<1> QED BY <1>1, <1>2, NoJobEmpty, Requests DEF Settling

\* What a push begins with.
LEMMA PushBegins ==
  ASSUME IInv, RInv, NEW T \in SUBSET Known, NEW j \in Job,
         j.todo = T, j.other = Nobody, j.old = "none", NEW k, k = Return(j)
  PROVE  /\ k \in Job /\ k.todo \subseteq Known /\ k.other = Nobody /\ k.old = "none"
         /\ k.pc \in {"idle", "done", "row"}
         /\ k.pc = "row" => k.user \in Known
         /\ \A v \in T : Awaits(k, v)
         /\ k.sound => PushPoint(k)
<1>1. /\ k.pc \in {"row", "lockRead", "done", "idle"}
      /\ k.pc = "row" => /\ k.user \in j.todo \/ (k.user = j.other /\ j.other # Nobody)
                         /\ k.old = j.old /\ k.op = j.op
      /\ k.todo \subseteq j.todo
      /\ k.other = Nobody
      /\ k.pc = "lockRead" => k.old = j.old
      /\ k.pc \in {"done", "idle"} => j.old = "none" /\ k.old = "none"
      /\ \A v : v \in j.todo \/ (v = j.other /\ v # Nobody) =>
                  k.pc = "row" /\ (v \in k.todo \/ v = k.user)
      /\ k.sound => j.sound /\ k.pc \in {"row", "done"}
  BY ReturnShape
<1>2. Fine(k)
  BY ReturnFine, NoneIsNoName DEF IInv
<1>3. k \in Job /\ (k.pc = "lockRead" => k.old \in Names)
  BY <1>2 DEF Fine, JobOK, Placed
<1>4. k.pc # "lockRead"
  BY <1>1, <1>3, LaptopAssumption
<1>5. \A v \in T : Awaits(k, v)
  BY <1>1 DEF Awaits, Reconciling
<1>6. k.sound => PushPoint(k)
  BY <1>1 DEF PushPoint
<1> QED BY <1>1, <1>3, <1>4, <1>5, <1>6

LEMMA StartPushAllRepairs ==
  ASSUME IInv, RInv, NEW h \in Handlers, StartPushAll(h)
  PROVE  RInv'
<1> DEFINE T == {u \in Known : user[u].name # "none"}
           j == [NoJob EXCEPT !.op = "pushAll", !.sound = TRUE, !.todo = T]
           k == Return(j)
<1>1. T \in SUBSET UserIds /\ T \in SUBSET Known
  BY DEF Known
<1>2. Request(h, "pushAll", k)
  BY DEF StartPushAll
<1>3. \A v \in Known : v \in T \/ Agrees(v)
  BY DEF Agrees
<1> HIDE DEF T
<1>4. j \in Job /\ j.old = NoJob.old /\ j.todo = T /\ j.other = NoJob.other
  BY ZenonT(60), <1>1, NoJobIsJob DEF Job
<1> HIDE DEF j
<1>5. /\ k \in Job /\ k.todo \subseteq Known /\ k.other = Nobody /\ k.old = "none"
      /\ k.pc \in {"idle", "done", "row"}
      /\ k.pc = "row" => k.user \in Known
      /\ \A v \in T : Awaits(k, v)
      /\ k.sound => PushPoint(k)
  BY <1>1, <1>4, NoJobEmpty, PushBegins
<1> HIDE DEF k
<1>6. \A v \in Known : Agrees(v) \/ Awaits(k, v)
  BY <1>3, <1>5
<1> QED BY <1>2, <1>5, <1>6, Requests DEF Settling

LEMMA TickRepairs ==
  ASSUME IInv, RInv, NEW h \in Handlers, Tick(h)
  PROVE  RInv'
<1> DEFINE T == {u \in Known : user[u].dirty}
           j == [NoJob EXCEPT !.todo = T]
           k == Return(j)
<1>1. T \in SUBSET UserIds /\ T \in SUBSET Known
  BY DEF Known
<1>2. Begin(h, k)
  BY DEF Tick, PushJob
<1> HIDE DEF T
<1>4. j \in Job /\ j.old = NoJob.old /\ j.todo = T /\ j.other = NoJob.other /\ j.sound = NoJob.sound
  BY SMTT(30), <1>1, NoJobIsJob DEF Job
<1> HIDE DEF j
<1>5. /\ k \in Job /\ k.todo \subseteq Known /\ k.other = Nobody /\ k.old = "none"
      /\ k.pc \in {"idle", "done", "row"}
      /\ k.pc = "row" => k.user \in Known
  BY <1>1, <1>4, NoJobEmpty, PushBegins
<1>6. ~k.sound
  BY <1>4, NoJobEmpty, ReturnShape
<1> HIDE DEF k
<1>7. OfKnown(k)
  BY <1>5 DEF OfKnown, Settling, Reconciling
<1>8. Good(k)
  BY <1>5 DEF Good, Settling, Reconciling, Locking
<1> QED BY <1>2, <1>5, <1>6, <1>7, <1>8, Begins

\* The import goes on to the next id, or ends.
LEMMA NextEntryShape ==
  ASSUME NEW j \in Job, NEW k, k = NextEntry(j)
  PROVE  /\ k \in Job /\ k.pc \in {"idle", "entry"} /\ k.todo \subseteq j.todo
         /\ k.other \in {j.other, Nobody} /\ k.old \in {j.old, "none"}
         /\ k.sound => j.sound
<1>1. CASE j.ids = {}
  BY <1>1, NoJobEmpty DEF NextEntry
<1>2. CASE j.ids # {}
  <2>1. k = [j EXCEPT !.seen = None, !.pc = "entry"]
    BY <1>2 DEF NextEntry
  <2>2. /\ k \in Job /\ k.pc = "entry" /\ k.todo = j.todo /\ k.other = j.other /\ k.old = j.old
        /\ k.sound = j.sound
    BY ZenonT(60), <2>1 DEF Job, Points
  <2> QED BY <2>2
<1> QED BY <1>1, <1>2

LEMMA ImportedShape ==
  ASSUME NEW j \in Job, NEW k, k = Imported(j)
  PROVE  /\ k \in Job /\ k.pc \in {"idle", "entry"} /\ k.todo \subseteq j.todo
         /\ k.other \in {j.other, Nobody}
         /\ k.sound => j.sound
<1> DEFINE i == [j EXCEPT !.ids = j.ids \ {Some(j.ids)}]
<1>1. i \in Job /\ i.todo = j.todo /\ i.other = j.other /\ i.sound = j.sound
  BY SMTT(30) DEF Job
<1>2. k = NextEntry(i)
  BY DEF Imported
<1> HIDE DEF i
<1> QED BY <1>1, <1>2, NextEntryShape

LEMMA StartImportRepairs ==
  ASSUME IInv, RInv, NEW h \in Handlers, StartImport(h)
  PROVE  RInv'
<1> DEFINE t == {n \in Names : roster[n] # None}
           j == [NoJob EXCEPT !.op = "import", !.ids = t]
           k == NextEntry(j)
<1>1. t \in SUBSET Names
  OBVIOUS
<1>2. Request(h, "import", k)
  BY DEF StartImport
<1> HIDE DEF t
<1>3. /\ j \in Job /\ j.old = NoJob.old /\ j.todo = NoJob.todo /\ j.other = NoJob.other
      /\ j.sound = NoJob.sound
  BY ZenonT(60), <1>1, NoJobIsJob DEF Job
<1> HIDE DEF j
<1>4. /\ k \in Job /\ k.pc \in {"idle", "entry"} /\ k.todo = {} /\ k.other = Nobody
      /\ k.old = "none" /\ ~k.sound
  BY <1>3, NoJobEmpty, NextEntryShape
<1> HIDE DEF k
<1> QED BY <1>2, <1>4, Requests DEF Settling

LEMMA StartRepairs == ASSUME IInv, RInv, NEW h \in Handlers, Start(h) PROVE RInv'
BY StartOwnRepairs, StartAdminRepairs, StartSignUpRepairs, StartRemoveRepairs, StartPushNowRepairs,
   StartMergeRepairs, StartPushAllRepairs, StartImportRepairs DEF Start

-----------------------------------------------------------------------------
(* Steps that write nothing *)

LEMMA Elsewhere ==
  ASSUME IInv, RInv, NEW h \in Handlers, ~At(h, "idle"), job[h].pc \notin Reconciling,
         \A g \in Handlers : g # h => job'[g] = job[g],
         user' = user, roster' = roster, races' = races, lost => lost',
         foreign' = foreign, left \subseteq left', untold' = untold,
         job'[h].todo \subseteq job[h].todo, job'[h].other \in {job[h].other, Nobody},
         job'[h].pc \in {"idle", "owner", "commit", "lockWrite", "entry", "find", "create"},
         Settling(job'[h].pc) => /\ Settling(job[h].pc) /\ job'[h].op = job[h].op
                                 /\ job'[h].user = job[h].user /\ job'[h].name = job[h].name
                                 /\ job'[h].old = job[h].old,
         job'[h].pc \in {"find", "create"} /\ Good(job[h]) => job'[h].seen = roster[Some(job'[h].ids)],
         job'[h].pc = "lockWrite" => job[h].pc = "lockRead" /\ job'[h].old = job[h].old,
         job[h].pc \in Locking /\ job'[h].pc # "lockWrite" =>
           job[h].old \in left' \/ roster[job[h].old] \notin Hashes \/ lost',
         job'[h].sound => job[h].sound /\ job[h].pc # "done"
  PROVE  RInv'
<1>1. SameRows /\ Known' = Known /\ \A n : Holder(n)' = Holder(n)
  BY DEF SameRows, Known, Holder
<1>2. OfKnown(job[h]) /\ Blank'
  BY DEF RInv, Blank
<1>3. OfKnown(job[h])'
  BY <1>1, <1>2 DEF OfKnown, Settling, Reconciling
<1>4. ~job'[h].sound
  <2>1. job[h].sound => job[h].pc \in Reconciling \/ job[h].pc = "done"
    BY DEF RInv, Repairing, PushPoint, Reconciling
  <2> QED BY <2>1
<1>5. Good(job[h]) => Good(job[h])'
  <2>1. SUFFICES ASSUME Good(job[h]) PROVE Good(job[h])'
    OBVIOUS
  <2>2. Settling(job'[h].pc) /\ job'[h].op = "signUp" => job'[h].old = "none"
    BY <2>1 DEF Good
  <2>3. Settling(job'[h].pc) /\ job'[h].op # "signUp" =>
          /\ job'[h].old \in {"none", user'[job'[h].user].name}
          /\ job'[h].name = "none" \/ user'[job'[h].user].name \in {"none", job'[h].name, job'[h].old}
    BY <2>1 DEF Good
  <2>4. job'[h].pc = "lockWrite" => job'[h].old = "none" \/ Holder(job[h].old)' = {}
    <3>1. job[h].pc = "lockRead" => job[h].old = "none" \/ Holder(job[h].old) = {}
      BY <2>1 DEF Good, Locking
    <3>2. job'[h].old = job[h].old => Holder(job[h].old)' = Holder(job[h].old)
      BY DEF Holder, Known
    <3> QED BY <3>1, <3>2
  <2>5. job'[h].pc \in {"find", "create"} => job'[h].seen = roster'[Some(job'[h].ids)]
    BY <2>1
  <2> QED BY <2>2, <2>3, <2>4, <2>5 DEF Good, Reconciling, Locking, Settling
<1>6. \A n \in Leaves(job[h]) : n \in Leaves(job'[h]) \cup left' \/ n \notin Names
                                   \/ roster[n] \notin Hashes \/ lost'
  BY DEF Leaves, Locking, Reconciling
<1>7. \A v : ~Awaits(job[h], v)
  BY DEF Awaits
<1> QED BY <1>1, <1>2, <1>3, <1>4, <1>5, <1>6, <1>7, Proceeds

\* The end of a request that owes nothing, or no more than it has put down.
LEMMA Ends ==
  ASSUME IInv, RInv, NEW h \in Handlers, ~At(h, "idle"), job[h].pc \notin Reconciling,
         Set(h, NoJob), user' = user, roster' = roster, races' = races, lost => lost',
         foreign' = foreign, left \subseteq left', untold' = untold,
         job[h].pc \in Locking =>
           job[h].old \in left' \/ roster[job[h].old] \notin Hashes \/ lost'
  PROVE  RInv'
<1>1. job'[h] = NoJob /\ \A g \in Handlers : g # h => job'[g] = job[g]
  BY DEF Set, IInv, TypeOK
<1>2. /\ job'[h].pc = "idle" /\ job'[h].todo = {} /\ job'[h].other = Nobody
      /\ job'[h].sound = FALSE
  BY <1>1, NoJobEmpty
<1> QED BY <1>1, <1>2, Elsewhere DEF Settling

LEMMA CheckRepairs == ASSUME IInv, RInv, NEW h \in Handlers, Check(h) PROVE RInv'
<1> DEFINE pc == IF roster[job[h].name] = None THEN "commit" ELSE "owner"
<1>1. /\ job[h].pc = "check" /\ job[h] \in Job /\ pc \in {"commit", "owner"}
      /\ job' = [job EXCEPT ![h] = [job[h] EXCEPT !.pc = pc]]
      /\ UNCHANGED <<user, roster, budget, notes>>
  BY JobTyped DEF Check, At, Go, Set
<1> HIDE DEF pc
<1>2. job'[h] = [job[h] EXCEPT !.pc = pc] /\ \A g \in Handlers : g # h => job'[g] = job[g]
  BY <1>1 DEF IInv, TypeOK
<1>3. /\ job'[h].pc = pc /\ job'[h].user = job[h].user /\ job'[h].name = job[h].name
      /\ job'[h].op = job[h].op /\ job'[h].old = job[h].old /\ job'[h].todo = job[h].todo
      /\ job'[h].other = job[h].other /\ job'[h].sound = job[h].sound
  BY <1>1, <1>2 DEF Job
<1> QED BY <1>1, <1>2, <1>3, Elsewhere DEF Settling, Reconciling, Locking, budget, notes, At

LEMMA OwnerRepairs == ASSUME IInv, RInv, NEW h \in Handlers, Owner(h) PROVE RInv'
<1>1. /\ job[h].pc = "owner" /\ job[h] \in Job
      /\ Set(h, NoJob) \/ job' = [job EXCEPT ![h] = [job[h] EXCEPT !.pc = "commit"]]
      /\ UNCHANGED <<user, roster, budget, notes>>
  BY JobTyped DEF Owner, At, Go, Set
<1>2. CASE Set(h, NoJob)
  BY <1>1, <1>2, Ends DEF Reconciling, Locking, budget, notes, At
<1>3. CASE job' = [job EXCEPT ![h] = [job[h] EXCEPT !.pc = "commit"]]
  <2>1. job'[h] = [job[h] EXCEPT !.pc = "commit"] /\ \A g \in Handlers : g # h => job'[g] = job[g]
    BY <1>3 DEF IInv, TypeOK
  <2>2. /\ job'[h].pc = "commit" /\ job'[h].user = job[h].user /\ job'[h].name = job[h].name
        /\ job'[h].op = job[h].op /\ job'[h].old = job[h].old /\ job'[h].todo = job[h].todo
        /\ job'[h].other = job[h].other /\ job'[h].sound = job[h].sound
    BY <1>1, <2>1 DEF Job
  <2> QED BY <1>1, <2>1, <2>2, Elsewhere DEF Settling, Reconciling, Locking, budget, notes, At
<1> QED BY <1>1, <1>2, <1>3

LEMMA LockReadRepairs == ASSUME IInv, RInv, NEW h \in Handlers, LockRead(h) PROVE RInv'
<1>1. /\ job[h].pc = "lockRead" /\ job[h] \in Job
      /\ \/ Set(h, NoJob) /\ roster[job[h].old] \notin Hashes
         \/ job' = [job EXCEPT ![h] = [job[h] EXCEPT !.pc = "lockWrite"]]
      /\ UNCHANGED <<user, roster, budget, notes>>
  BY JobTyped DEF LockRead, At, Go, Set
<1>2. CASE Set(h, NoJob) /\ roster[job[h].old] \notin Hashes
  BY <1>1, <1>2, Ends DEF Reconciling, Locking, budget, notes, At
<1>3. CASE job' = [job EXCEPT ![h] = [job[h] EXCEPT !.pc = "lockWrite"]]
  <2>1. job'[h] = [job[h] EXCEPT !.pc = "lockWrite"] /\ \A g \in Handlers : g # h => job'[g] = job[g]
    BY <1>3 DEF IInv, TypeOK
  <2>2. /\ job'[h].pc = "lockWrite" /\ job'[h].old = job[h].old /\ job'[h].todo = job[h].todo
        /\ job'[h].other = job[h].other /\ job'[h].sound = job[h].sound
    BY <1>1, <2>1 DEF Job
  <2> QED BY <1>1, <2>1, <2>2, Elsewhere DEF Settling, Reconciling, Locking, budget, notes, At
<1> QED BY <1>1, <1>2, <1>3

LEMMA DoneRepairs == ASSUME IInv, RInv, NEW h \in Handlers, Done(h) PROVE RInv'
BY Ends DEF Done, At, Reconciling, Locking, budget, notes

LEMMA ImportReadRepairs == ASSUME IInv, RInv, NEW h \in Handlers, ImportRead(h) PROVE RInv'
<1> DEFINE e == roster[Some(job[h].ids)]
<1>1. /\ job[h].pc = "entry" /\ job[h] \in Job
      /\ job' = [job EXCEPT ![h] = [job[h] EXCEPT !.pc = "find", !.seen = e]]
      /\ UNCHANGED <<user, roster, budget, notes>>
  BY JobTyped DEF ImportRead, At, Set
<1> HIDE DEF e
<1>2. /\ job'[h] = [job[h] EXCEPT !.pc = "find", !.seen = e]
      /\ \A g \in Handlers : g # h => job'[g] = job[g]
  BY <1>1 DEF IInv, TypeOK
<1>3. /\ job'[h].pc = "find" /\ job'[h].seen = e /\ job'[h].ids = job[h].ids
      /\ job'[h].todo = job[h].todo /\ job'[h].other = job[h].other /\ job'[h].sound = job[h].sound
  <2>1. \A i \in Job : LET k == [i EXCEPT !.pc = "find", !.seen = e] IN
           /\ k.pc = "find" /\ k.seen = e /\ k.ids = i.ids
           /\ k.todo = i.todo /\ k.other = i.other /\ k.sound = i.sound
    BY SMTT(30) DEF Job
  <2> QED BY <1>1, <1>2, <2>1
<1>4. job'[h].seen = roster[Some(job'[h].ids)]
  BY <1>3 DEF e
<1> QED BY <1>1, <1>2, <1>3, <1>4, Elsewhere DEF Settling, Reconciling, Locking, budget, notes, At

LEMMA ImportFindRepairs == ASSUME IInv, RInv, NEW h \in Handlers, ImportFind(h) PROVE RInv'
<1>1. /\ job[h].pc = "find" /\ job[h] \in Job
      /\ \/ job' = [job EXCEPT ![h] = Imported(job[h])]
         \/ job' = [job EXCEPT ![h] = [job[h] EXCEPT !.pc = "create"]]
      /\ UNCHANGED <<user, roster, budget, notes>>
  BY JobTyped DEF ImportFind, At, Set
<1>2. CASE job' = [job EXCEPT ![h] = Imported(job[h])]
  <2>1. job'[h] = Imported(job[h]) /\ \A g \in Handlers : g # h => job'[g] = job[g]
    BY <1>2 DEF IInv, TypeOK
  <2>2. /\ job'[h].pc \in {"idle", "entry"} /\ job'[h].todo \subseteq job[h].todo
        /\ job'[h].other \in {job[h].other, Nobody}
        /\ job'[h].sound => job[h].sound
    BY <1>1, <2>1, ImportedShape
  <2> QED BY <1>1, <2>1, <2>2, Elsewhere DEF Settling, Reconciling, Locking, budget, notes, At
<1>3. CASE job' = [job EXCEPT ![h] = [job[h] EXCEPT !.pc = "create"]]
  <2>1. job'[h] = [job[h] EXCEPT !.pc = "create"] /\ \A g \in Handlers : g # h => job'[g] = job[g]
    BY <1>3 DEF IInv, TypeOK
  <2>2. /\ job'[h].pc = "create" /\ job'[h].seen = job[h].seen /\ job'[h].ids = job[h].ids
        /\ job'[h].todo = job[h].todo /\ job'[h].other = job[h].other /\ job'[h].sound = job[h].sound
    BY <1>1, <2>1 DEF Job
  <2>3. Good(job[h]) => job'[h].seen = roster[Some(job'[h].ids)]
    BY <1>1, <2>2 DEF Good
  <2> QED BY <1>1, <2>1, <2>2, <2>3, Elsewhere DEF Settling, Reconciling, Locking, budget, notes, At
<1> QED BY <1>1, <1>2, <1>3

LEMMA CheckFailsRepairs == ASSUME IInv, RInv, NEW h \in Handlers, CheckFails(h) PROVE RInv'
<1>1. /\ job[h].pc = "check"
      /\ job' = [job EXCEPT ![h] = [Spoilt(h) EXCEPT !.pc = "commit"]]
      /\ UNCHANGED <<user, roster, left, lost, races, foreign, untold>>
  BY DEF CheckFails, At, Set, Mishap
<1>2. job'[h] = [Spoilt(h) EXCEPT !.pc = "commit"] /\ \A g \in Handlers : g # h => job'[g] = job[g]
  BY <1>1 DEF IInv, TypeOK
<1>3. /\ job'[h].pc = "commit" /\ job'[h].user = job[h].user /\ job'[h].name = job[h].name
      /\ job'[h].op = job[h].op /\ job'[h].old = job[h].old /\ job'[h].todo = job[h].todo
      /\ job'[h].other = job[h].other /\ job'[h].sound = FALSE
  BY <1>2, SpoiltShape DEF Job
<1> QED BY <1>1, <1>2, <1>3, Elsewhere DEF Settling, Reconciling, Locking, At

LEMMA StatementFailsRepairs == ASSUME IInv, RInv, NEW h \in Handlers, StatementFails(h) PROVE RInv'
<1>1. /\ job[h].pc \in {"owner", "commit", "remove", "merge", "entry", "find", "create"}
      /\ Set(h, NoJob) \/ job' = [job EXCEPT ![h] = Imported(Spoilt(h))]
      /\ UNCHANGED <<user, roster, left, lost, races, foreign, untold>>
  BY DEF StatementFails, Set, Mishap
<1>2. CASE Set(h, NoJob)
  BY <1>1, <1>2, Ends DEF Reconciling, Locking, At
<1>3. CASE job' = [job EXCEPT ![h] = Imported(Spoilt(h))]
  <2>1. job'[h] = Imported(Spoilt(h)) /\ \A g \in Handlers : g # h => job'[g] = job[g]
    BY <1>3 DEF IInv, TypeOK
  <2>2. /\ job'[h].pc \in {"idle", "entry"} /\ job'[h].todo \subseteq job[h].todo
        /\ job'[h].other \in {job[h].other, Nobody}
        /\ ~job'[h].sound
    BY <2>1, SpoiltShape, ImportedShape
  <2> QED BY <1>1, <2>1, <2>2, Elsewhere DEF Settling, Reconciling, Locking, At
<1> QED BY <1>1, <1>2, <1>3

LEMMA LockFailsRepairs == ASSUME IInv, RInv, NEW h \in Handlers, LockFails(h) PROVE RInv'
BY Ends DEF LockFails, Mishap, Reconciling, Locking, At

-----------------------------------------------------------------------------
(* Steps that write rows *)

\* The next id is given to nobody yet.
LEMMA IdsGiven ==
  ASSUME InOrder
  PROVE  /\ NextId \in Nat /\ NextId \notin Known
         /\ Known \cup {NextId} = 1..NextId
<1>1. PICK k \in Nat : Known = 1..k
  BY DEF InOrder
<1>2. Cardinality(1..k) = k
  BY <1>1, FS_Interval
<1>3. NextId = k + 1
  BY <1>1, <1>2 DEF NextId
<1> QED BY <1>1, <1>3

\* Writing the row of a user who is there, or of the next one.
LEMMA RowWritten ==
  ASSUME IInv, RInv, NEW u \in UserIds, NEW r \in Row, r.there, u \in Known \/ u = NextId,
         user' = [user EXCEPT ![u] = r],
         \A v \in Known : v # u => user[v].name # r.name \/ r.name = "none"
  PROVE  /\ Blank' /\ InOrder' /\ UniqueNames'
         /\ Known' = Known \cup {u}
         /\ user'[u] = r /\ \A v \in UserIds : v # u => user'[v] = user[v]
<1>1. user'[u] = r /\ \A v \in UserIds : v # u => user'[v] = user[v]
  BY DEF IInv, TypeOK
<1>2. Known' = Known \cup {u}
  BY <1>1 DEF Known
<1>3. Blank'
  BY <1>1 DEF RInv, Blank
<1>4. InOrder'
  <2>1. CASE u \in Known
    <3>1. Known' = Known
      BY <1>2, <2>1
    <3>2. PICK k \in Nat : Known = 1..k
      BY DEF RInv, InOrder
    <3> QED BY <3>1, <3>2 DEF InOrder
  <2>2. CASE u = NextId
    <3> DEFINE m == NextId
    <3>1. m \in Nat /\ Known \cup {m} = 1..m
      BY IdsGiven DEF RInv
    <3>2. Known' = 1..m
      BY <1>2, <2>2, <3>1
    <3> HIDE DEF m
    <3>3. \E k \in Nat : Known' = 1..k
      BY <3>1, <3>2
    <3> QED BY <3>3 DEF InOrder
  <2> QED BY <2>1, <2>2
<1>5. UniqueNames'
  <2>1. SUFFICES ASSUME NEW v \in Known', NEW w \in Known',
                        user'[v].name = user'[w].name, user'[v].name # "none"
                 PROVE  v = w
    BY DEF UniqueNames
  <2>2. v \in UserIds /\ w \in UserIds
    BY <2>1 DEF Known
  <2>3. CASE v = u \/ w = u
    BY <1>1, <1>2, <2>1, <2>2, <2>3
  <2>4. CASE v # u /\ w # u
    <3>1. v \in Known /\ w \in Known /\ user'[v] = user[v] /\ user'[w] = user[w]
      BY <1>1, <1>2, <2>1, <2>2, <2>4
    <3> QED BY <2>1, <3>1 DEF RInv, UniqueNames
  <2> QED BY <2>3, <2>4
<1> QED BY <1>1, <1>2, <1>3, <1>4, <1>5

\* A row written, and reconciled next.
WritesRow(h, u, r) ==
  /\ job[h].pc \in {"commit", "remove"}
  /\ \A g \in Handlers : g # h => job'[g] = job[g]
  /\ u \in UserIds /\ r \in Row /\ r.there
  /\ u \in Known \/ u = NextId
  /\ user' = [user EXCEPT ![u] = r]
  /\ \A v \in Known : v # u => user[v].name # r.name \/ r.name = "none"
  /\ UNCHANGED <<roster, budget, notes>>
  /\ job'[h].pc = "row" /\ job'[h].user = u /\ job'[h].todo \subseteq Known
  /\ job'[h].other \in Known \cup {Nobody}
  /\ job'[h].sound => job[h].sound
  /\ Good(job[h]) => \/ job'[h].old = "none"
                     \/ job'[h].old # r.name /\ u \in Known /\ job'[h].old = user[u].name
  /\ Good(job[h]) /\ u \in Known => user[u].name \in {r.name, job'[h].old, "none"}

LEMMA RowThenReconcile ==
  ASSUME IInv, RInv, NEW h \in Handlers, NEW u, NEW r, WritesRow(h, u, r)
  PROVE  RInv'
<1> USE DEF WritesRow
<1>1. /\ Blank' /\ InOrder' /\ UniqueNames'
      /\ Known' = Known \cup {u}
      /\ user'[u] = r /\ \A v \in UserIds : v # u => user'[v] = user[v]
  BY RowWritten
<1>2. ~At(h, "idle") /\ Known \subseteq UserIds /\ Known \subseteq Known'
  BY <1>1 DEF At, Known
<1>3. OfKnown(job[h])'
  BY <1>1 DEF OfKnown, Settling, Reconciling
<1>4. ~job[h].sound
  BY DEF RInv, Repairing, PushPoint
<1>5. \A v \in Known : v # u => (Agrees(v)' <=> Agrees(v))
  BY <1>1, <1>2 DEF Agrees
<1>6. Good(job[h]) => Good(job[h])'
  <2>1. SUFFICES ASSUME Good(job[h]), job'[h].old # "none" PROVE Holder(job[h].old)' = {}
    BY DEF Good, Settling, Reconciling, Locking
  <2>2. job'[h].old # r.name /\ u \in Known /\ job'[h].old = user[u].name
    BY <2>1
  <2>3. ASSUME NEW v \in Known', user'[v].name = job'[h].old PROVE FALSE
    <3>1. v # u
      BY <1>1, <2>2, <2>3
    <3>2. v \in Known /\ user[v].name = user[u].name
      BY <1>1, <1>2, <2>2, <2>3, <3>1
    <3> QED BY <2>1, <2>2, <3>1, <3>2 DEF RInv, UniqueNames
  <2> QED BY <2>3 DEF Holder
<1>7. ASSUME Good(job[h]), Covering(job[h]), ~lost' PROVE Covering(job[h])'
  <2>1. Leaves(job[h]) = {} /\ \A v : ~Awaits(job[h], v)
    BY DEF Leaves, Awaits, Reconciling, Locking
  <2>2. ASSUME NEW v \in Known' PROVE Agrees(v)' \/ user'[v].dirty \/ v \in untold' \/ Awaits(job'[h], v)
    <3>1. CASE v = u
      BY <3>1 DEF Awaits, Reconciling
    <3>2. CASE v # u
      <4>1. v \in Known /\ user'[v] = user[v] /\ untold' = untold
        BY <1>1, <1>2, <3>2 DEF notes
      <4> QED BY <1>5, <1>7, <2>1, <3>2, <4>1 DEF Covering
    <3> QED BY <3>1, <3>2
  <2>3. ASSUME NEW n \in Names, roster'[n] \in Hashes, Holder(n)' = {}
        PROVE  n \in foreign' \cup left' \cup Leaves(job'[h])
    <3>1. CASE Holder(n) = {}
      BY <1>7, <2>1, <2>3, <3>1 DEF Covering, notes
    <3>2. CASE Holder(n) # {}
      <4>1. PICK v \in Known : user[v].name = n
        BY <3>2 DEF Holder
      <4>2. v = u
        BY <1>1, <1>2, <2>3, <4>1 DEF Holder
      <4>3. r.name # n
        BY <1>1, <2>3 DEF Holder
      <4>4. n = job'[h].old
        BY <1>7, <4>1, <4>2, <4>3, LaptopAssumption
      <4> QED BY <4>4 DEF Leaves, Reconciling
    <3> QED BY <3>1, <3>2
  <2> QED BY <2>2, <2>3 DEF Covering
<1> QED BY <1>1, <1>2, <1>3, <1>4, <1>6, <1>7, Moves DEF budget, notes

LEMMA CommitRepairs == ASSUME IInv, RInv, NEW h \in Handlers, Commit(h) PROVE RInv'
<1> DEFINE j == job[h]
           u == IF j.op = "signUp" THEN NextId ELSE j.user
           r == IF j.op = "signUp" THEN [NoUser EXCEPT !.there = TRUE, !.active = TRUE] ELSE user[u]
           name == IF j.name = "none" THEN r.name ELSE j.name
           hash == IF j.hash = None THEN r.hash ELSE j.hash
           old == IF name \in {j.old, "none"} THEN "none" ELSE j.old
           row == [r EXCEPT !.name = name, !.hash = hash]
           k == [NoJob EXCEPT !.pc = "row", !.user = u, !.old = old]
<1>1. j \in Job /\ j.pc = "commit" /\ OfKnown(j) /\ UniqueNames
  BY JobTyped DEF Commit, At, RInv
<1>2. UNCHANGED <<roster, budget, notes>>
  BY DEF Commit
<1>3. CASE Set(h, NoJob) /\ UNCHANGED user
  BY <1>1, <1>2, <1>3, Ends DEF Reconciling, Locking, budget, notes, At
<1>4. CASE /\ j.name # "none" => Holder(j.name) \subseteq {u}
           /\ u \in UserIds /\ user' = [user EXCEPT ![u] = row] /\ Set(h, k)
  <2>1. r \in Row /\ r.there /\ (j.op = "signUp" => r.name = "none") /\ (u \in Known => r = user[u])
        /\ (u \in Known \/ u = NextId) /\ (j.op # "signUp" => u = j.user /\ u \in Known)
    <3>1. CASE j.op = "signUp"
      <4>1. [NoUser EXCEPT !.there = TRUE, !.active = TRUE] \in Row
        BY NoUserRow DEF Row
      <4>2. /\ [NoUser EXCEPT !.there = TRUE, !.active = TRUE].name = "none"
            /\ [NoUser EXCEPT !.there = TRUE, !.active = TRUE].there
        BY DEF NoUser
      <4>3. NextId \notin Known
        BY IdsGiven DEF RInv
      <4> QED BY <3>1, <4>1, <4>2, <4>3
    <3>2. CASE j.op # "signUp"
      <4>1. u \in Known
        BY <1>1, <3>2 DEF OfKnown, Settling
      <4>2. user[u].there
        BY <4>1 DEF Known
      <4> QED BY <1>4, <3>2, <4>1, <4>2, UserTyped
    <3> QED BY <3>1, <3>2
  <2>2. name \in Names \cup {"none"} /\ hash \in Hashes \cup {None} /\ old \in Names \cup {"none"}
    <3> HIDE DEF r
    <3> QED BY SMTT(30), <1>1, <2>1 DEF Job, Row
  <2>3. \A v \in Known : v # u => user[v].name # name \/ name = "none"
    <3>1. CASE j.name # "none"
      BY <1>4, <3>1 DEF Holder
    <3>2. CASE j.name = "none" /\ u \in Known
      BY <1>1, <2>1, <3>2 DEF UniqueNames
    <3>3. CASE j.name = "none" /\ j.op = "signUp"
      BY <2>1, <3>3
    <3> QED BY <2>1, <3>1, <3>2, <3>3
  <2>4. ~Settling("row") /\ Settling("commit")
    BY DEF Settling
  <2>5. Good(j) => /\ j.op = "signUp" => j.old = "none"
                   /\ j.op # "signUp" =>
                        /\ j.old \in {"none", user[u].name}
                        /\ j.name = "none" \/ user[u].name \in {"none", j.name, j.old}
    BY <1>1, <2>1, <2>4 DEF Good
  <2>6. Good(j) => old = "none" \/ (old # name /\ u \in Known /\ old = user[u].name)
    BY <2>1, <2>5
  <2>7. Good(j) /\ u \in Known => user[u].name \in {name, old, "none"}
    <3>1. u \in Known => j.op # "signUp"
      BY IdsGiven DEF RInv
    <3> QED BY <2>1, <2>5, <3>1
  <2>8. row \in Row /\ row.name = name /\ row.there
    <3> HIDE DEF r, name, hash
    <3> QED BY <2>1, <2>2 DEF Row
  <2>9. job'[h] = k /\ \A g \in Handlers : g # h => job'[g] = job[g]
    BY <1>4 DEF Set, IInv, TypeOK
  <2> HIDE DEF row, name, hash, old, r
  <2>10. /\ k.pc = "row" /\ k.user = u /\ k.old = old /\ k.todo = {} /\ k.other = Nobody
         /\ k.sound = FALSE
    <3> HIDE DEF u
    <3>1. \A x, y : LET i == [NoJob EXCEPT !.pc = "row", !.user = x, !.old = y] IN
                      /\ i.pc = "row" /\ i.user = x /\ i.old = y /\ i.todo = {}
                      /\ i.other = Nobody /\ i.sound = FALSE
      BY DEF NoJob
    <3> QED BY <3>1
  <2>11. /\ job'[h].pc = "row" /\ job'[h].user = u /\ job'[h].todo \subseteq Known
         /\ job'[h].other \in Known \cup {Nobody} /\ job'[h].old = old /\ ~job'[h].sound
    BY <2>9, <2>10
  <2> HIDE DEF k, u
  <2>12. /\ Good(job[h]) => \/ job'[h].old = "none"
                            \/ job'[h].old # row.name /\ u \in Known /\ job'[h].old = user[u].name
         /\ Good(job[h]) /\ u \in Known => user[u].name \in {row.name, job'[h].old, "none"}
    BY <2>6, <2>7, <2>8, <2>11
  <2>13. \A v \in Known : v # u => user[v].name # row.name \/ row.name = "none"
    BY <2>3, <2>8
  <2>14. job[h].pc \in {"commit", "remove"}
    BY <1>1
  <2>15. u \in UserIds /\ user' = [user EXCEPT ![u] = row]
    BY <1>4
  <2>16. u \in Known \/ u = NextId
    BY <2>1
  <2> HIDE DEF j
  <2>17. WritesRow(h, u, row)
    BY <1>2, <2>8, <2>9, <2>11, <2>12, <2>13, <2>14, <2>15, <2>16 DEF WritesRow
  <2> QED BY <2>17, RowThenReconcile
<1>5. k = [Reconcile(NoJob, u) EXCEPT !.old = old]
  BY DEF Reconcile, NoJob
<1> QED BY <1>3, <1>4, <1>5 DEF Commit

LEMMA DeactivateRepairs == ASSUME IInv, RInv, NEW h \in Handlers, Deactivate(h) PROVE RInv'
<1> DEFINE j == job[h]
           u == j.user
           r == user[u]
           row == [r EXCEPT !.active = FALSE]
           k == [j EXCEPT !.pc = "row", !.user = u]
<1>1. j \in Job /\ j.pc = "remove" /\ OfKnown(j)
  BY JobTyped DEF Deactivate, At, RInv
<1>2. u \in Known /\ u \in UserIds
  BY <1>1 DEF OfKnown, Known
<1>3. r \in Row /\ r.there
  BY <1>2, UserTyped DEF Known
<1>4. user' = [user EXCEPT ![u] = row] /\ Set(h, k) /\ UNCHANGED <<roster, budget, notes>>
  BY DEF Deactivate, Reconcile
<1>5. row \in Row /\ row.name = r.name /\ row.there
  <2> HIDE DEF r
  <2> QED BY <1>3 DEF Row
<1>6. \A v \in Known : v # u => user[v].name # row.name \/ row.name = "none"
  BY <1>2, <1>5 DEF RInv, UniqueNames
<1>7. job'[h] = k /\ \A g \in Handlers : g # h => job'[g] = job[g]
  BY <1>4 DEF Set, IInv, TypeOK
<1>8. /\ k.pc = "row" /\ k.user = u /\ k.old = j.old /\ k.todo = j.todo /\ k.other = j.other
      /\ k.sound = j.sound
  BY <1>1 DEF Job
<1>9. j.todo \subseteq Known /\ j.other \in Known \cup {Nobody}
  BY <1>1 DEF OfKnown
<1>10. Good(j) => j.old = "none"
  BY <1>1 DEF Good
<1>11. user[u].name = row.name
  BY <1>5
<1>12. /\ job'[h].pc = "row" /\ job'[h].user = u /\ job'[h].todo \subseteq Known
       /\ job'[h].other \in Known \cup {Nobody} /\ job'[h].old = j.old
       /\ job'[h].sound = job[h].sound
  BY <1>7, <1>8, <1>9
<1>13. job[h].pc \in {"commit", "remove"} /\ (Good(job[h]) => job'[h].old = "none")
  BY <1>1, <1>10, <1>12
<1> HIDE DEF k, u, row, r, j
<1>14. WritesRow(h, u, row)
  BY <1>2, <1>3, <1>4, <1>5, <1>6, <1>7, <1>11, <1>12, <1>13 DEF WritesRow
<1> QED BY <1>14, RowThenReconcile

\* What a merge does to the rows: the two names change hands or stay, nothing else gets one.
LEMMA MergedRows ==
  ASSUME IInv, NEW s \in UserIds, NEW n \in UserIds, s # n,
         user' = [user EXCEPT
           ![n].active = FALSE,
           ![n].name = IF user[s].name = "none" THEN "none" ELSE @,
           ![s].name = IF user[s].name = "none" THEN user[n].name ELSE @,
           ![s].hash = IF @ = None THEN user[n].hash ELSE @]
  PROVE  /\ user'[n].there = user[n].there /\ user'[s].there = user[s].there
         /\ IF user[s].name = "none"
              THEN user'[n].name = "none" /\ user'[s].name = user[n].name
              ELSE user'[n].name = user[n].name /\ user'[s].name = user[s].name
         /\ \A v \in UserIds : v \notin {s, n} => user'[v] = user[v]
<1>1. user \in [UserIds -> Row]
  BY DEF IInv, TypeOK
<1> DEFINE a == IF user[s].name = "none" THEN "none" ELSE user[n].name
           rn == [user[n] EXCEPT !.active = FALSE, !.name = a]
           mid == [user EXCEPT ![n] = rn]
           c == IF user[s].name = "none" THEN user[n].name ELSE mid[s].name
           d == IF mid[s].hash = None THEN user[n].hash ELSE mid[s].hash
           rs == [mid[s] EXCEPT !.name = c, !.hash = d]
<1>2. user[n] \in Row /\ user[s] \in Row
  BY <1>1
<1>3. user' = [mid EXCEPT ![s] = rs]
  BY ZenonT(60), <1>1
<1>4. mid[s] = user[s] /\ mid[n] = rn /\ \A v \in UserIds : v # n => mid[v] = user[v]
  BY <1>1
<1>5. c = IF user[s].name = "none" THEN user[n].name ELSE user[s].name
  BY <1>4
<1> HIDE DEF a, c, d
<1>6. rn.there = user[n].there /\ rn.name = a
  BY <1>2 DEF Row
<1>7. rs.there = user[s].there /\ rs.name = c
  BY <1>2, <1>4 DEF Row
<1>8. DOMAIN mid = UserIds
  BY <1>1
<1> HIDE DEF rn, mid, rs
<1>9. user'[s] = rs /\ user'[n] = mid[n] /\ \A v \in UserIds : v # s => user'[v] = mid[v]
  BY <1>3, <1>8
<1> QED BY <1>4, <1>5, <1>6, <1>7, <1>9 DEF a

LEMMA MergeRepairs == ASSUME IInv, RInv, NEW h \in Handlers, Merge(h) PROVE RInv'
<1> DEFINE j == job[h]
           s == j.user
           n == j.other
           o == AlsoReconcile(n)
           k == [j EXCEPT !.pc = "row", !.user = s, !.other = o]
<1>1. j \in Job /\ j.pc = "merge" /\ OfKnown(j)
  BY JobTyped DEF Merge, At, RInv
<1>2. s \in Known /\ n \in Known /\ s # n /\ s \in UserIds /\ n \in UserIds /\ j.todo \subseteq Known
  BY <1>1 DEF OfKnown, Known
<1>3. UNCHANGED <<roster, budget, notes>>
  BY DEF Merge
<1>4. user' = [user EXCEPT
        ![n].active = FALSE,
        ![n].name = IF user[s].name = "none" THEN "none" ELSE @,
        ![s].name = IF user[s].name = "none" THEN user[n].name ELSE @,
        ![s].hash = IF @ = None THEN user[n].hash ELSE @]
  BY DEF Merge
<1>5. /\ user'[n].there = user[n].there /\ user'[s].there = user[s].there
      /\ IF user[s].name = "none"
           THEN user'[n].name = "none" /\ user'[s].name = user[n].name
           ELSE user'[n].name = user[n].name /\ user'[s].name = user[s].name
      /\ \A v \in UserIds : v \notin {s, n} => user'[v] = user[v]
  <2> HIDE DEF s, n
  <2> QED BY <1>2, <1>4, MergedRows
<1>6. o = IF user[n].name = "none" THEN Nobody ELSE n
  BY DEF AlsoReconcile
<1>7. Set(h, Reconcile([j EXCEPT !.other = o], s))
  BY DEF Merge
<1>8. /\ job'[h].pc = "row" /\ job'[h].user = s /\ job'[h].other = o
      /\ job'[h].todo = j.todo /\ job'[h].old = j.old /\ job'[h].sound = j.sound
      /\ \A g \in Handlers : g # h => job'[g] = job[g]
  <2> HIDE DEF j, s, o
  <2>1. \A i \in Job : \A x, y : LET z == Reconcile([i EXCEPT !.other = x], y) IN
           /\ z.pc = "row" /\ z.user = y /\ z.other = x
           /\ z.todo = i.todo /\ z.old = i.old /\ z.sound = i.sound
    BY SMTT(30) DEF Job, Reconcile
  <2>2. /\ job'[h] = Reconcile([j EXCEPT !.other = o], s)
        /\ \A g \in Handlers : g # h => job'[g] = job[g]
    BY <1>7 DEF Set, IInv, TypeOK
  <2> QED BY <1>1, <2>1, <2>2
<1> HIDE DEF s, n, o, k
<1>9. Known' = Known
  <2>1. \A v \in UserIds : user'[v].there = user[v].there
    BY <1>5
  <2> QED BY <2>1 DEF Known
<1>10. Blank' /\ InOrder'
  <2>1. \A v \in UserIds : user'[v].there \/ user'[v] = NoUser
    BY <1>2, <1>5 DEF RInv, Blank, Known
  <2> QED BY <1>9, <2>1 DEF Blank, RInv, InOrder
<1>11. UniqueNames'
  <2>1. SUFFICES ASSUME NEW v \in Known, NEW w \in Known,
                        user'[v].name = user'[w].name, user'[v].name # "none"
                 PROVE  v = w
    BY <1>9 DEF UniqueNames
  <2>2. v \in UserIds /\ w \in UserIds
    BY DEF Known
  <2>3. \A x, y \in Known : user[x].name = user[y].name /\ user[x].name # "none" => x = y
    BY DEF RInv, UniqueNames
  <2>4. CASE user[s].name = "none"
    BY <1>2, <1>5, <2>1, <2>2, <2>3, <2>4
  <2>5. CASE user[s].name # "none"
    <3>1. user'[v].name = user[v].name /\ user'[w].name = user[w].name
      BY <1>5, <2>2, <2>5
    <3> QED BY <2>1, <2>3, <3>1
  <2> QED BY <2>4, <2>5
<1>12. OfKnown(job[h])'
  BY <1>2, <1>6, <1>8, <1>9 DEF OfKnown, Settling, Reconciling
<1>13. ~j.sound
  BY <1>1 DEF RInv, Repairing, PushPoint
<1>14. Good(j) => Good(job[h])'
  <2>1. Good(j) => j.old = "none"
    BY <1>1 DEF Good
  <2> QED BY <1>8, <2>1 DEF Good, Settling, Reconciling, Locking
<1>15. ASSUME Covering(j) PROVE Covering(job[h])'
  <2>1. Leaves(j) = {} /\ \A v : ~Awaits(j, v)
    BY <1>1 DEF Leaves, Awaits, Reconciling, Locking
  <2>2. ASSUME NEW v \in Known PROVE Agrees(v)' \/ user'[v].dirty \/ v \in untold' \/ Awaits(job'[h], v)
    <3>1. CASE v = s
      BY <1>8, <3>1 DEF Awaits, Reconciling
    <3>2. CASE v = n /\ user[n].name # "none"
      BY <1>6, <1>8, <3>2 DEF Awaits, Reconciling
    <3>3. CASE v = n /\ user[n].name = "none"
      BY <1>5, <3>3 DEF Agrees
    <3>4. CASE v \notin {s, n}
      <4>1. user'[v] = user[v] /\ untold' = untold /\ roster' = roster
        BY <1>3, <1>5, <3>4 DEF notes, Known
      <4>2. Agrees(v)' <=> Agrees(v)
        BY <4>1 DEF Agrees
      <4> QED BY <1>15, <2>1, <4>1, <4>2 DEF Covering
    <3> QED BY <3>1, <3>2, <3>3, <3>4
  <2>3. ASSUME NEW m \in Names, roster'[m] \in Hashes, Holder(m)' = {}
        PROVE  m \in foreign' \cup left' \cup Leaves(job'[h])
    <3>1. Holder(m) = {}
      <4>1. SUFFICES ASSUME NEW v \in Known, user[v].name = m PROVE FALSE
        BY DEF Holder
      <4>2. m # "none"
        BY LaptopAssumption
      <4>3. \A w \in Known : user'[w].name # m
        BY <1>9, <2>3 DEF Holder
      <4>4. v \in {s, n}
        BY <1>5, <4>1, <4>3 DEF Known
      <4> QED BY <1>2, <1>5, <4>1, <4>2, <4>3, <4>4
    <3>2. m \in foreign \cup left
      BY <1>3, <1>15, <2>1, <2>3, <3>1 DEF Covering
    <3> QED BY <1>3, <3>2 DEF notes
  <2> QED BY <1>9, <2>2, <2>3 DEF Covering
<1>16. ~At(h, "idle") /\ races' = races /\ lost' = lost
  BY <1>1, <1>3 DEF At, budget, notes
<1> QED BY <1>8, <1>9, <1>10, <1>11, <1>12, <1>13, <1>14, <1>15, <1>16, Moves

\* The old name is locked: nobody has it.
LEMMA LockWriteRepairs == ASSUME IInv, RInv, NEW h \in Handlers, LockWrite(h) PROVE RInv'
<1> DEFINE j == job[h]
           n == j.old
<1>1. j \in Job /\ JobOK(j) /\ j.pc = "lockWrite" /\ OfKnown(j)
  BY JobTyped DEF LockWrite, At, RInv
<1>2. n \in Names /\ n # "none"
  BY <1>1, LaptopAssumption DEF JobOK, Placed
<1>3. roster' = [roster EXCEPT ![n] = Locked] /\ Set(h, NoJob) /\ UNCHANGED <<user, budget, notes>>
  BY DEF LockWrite
<1>4. job'[h] = NoJob /\ \A g \in Handlers : g # h => job'[g] = job[g]
  BY <1>3 DEF Set, IInv, TypeOK
<1>5. /\ job'[h].pc = "idle" /\ job'[h].todo = {} /\ job'[h].other = Nobody
      /\ job'[h].old = "none" /\ ~job'[h].sound
  BY <1>4, NoJobEmpty
<1>6. Known' = Known /\ \A m : Holder(m)' = Holder(m)
  BY <1>3 DEF Known, Holder
<1>7. Blank' /\ InOrder' /\ UniqueNames'
  BY <1>3, <1>6 DEF RInv, Blank, InOrder, UniqueNames
<1>8. OfKnown(job[h])'
  BY <1>5 DEF OfKnown, Settling, Reconciling
<1>9. Good(job[h])'
  BY <1>5 DEF Good, Settling, Reconciling, Locking
<1>10. roster'[n] = Locked /\ \A m \in Names : m # n => roster'[m] = roster[m]
  BY <1>2, <1>3 DEF IInv, TypeOK
<1>11. Locked \notin Hashes
  BY LaptopAssumption DEF Locked, Hashes, Old, HashOf
<1>12. ASSUME Good(j), Covering(j) PROVE Covering(job[h])'
  <2>1. Leaves(j) = {n} /\ \A v : ~Awaits(j, v)
    BY <1>1 DEF Leaves, Awaits, Reconciling, Locking
  <2>2. Holder(n) = {}
    BY <1>1, <1>2, <1>12 DEF Good, Locking
  <2>3. ASSUME NEW v \in Known PROVE Agrees(v)' \/ user'[v].dirty \/ v \in untold'
    <3>1. user'[v] = user[v] /\ untold' = untold
      BY <1>3 DEF notes
    <3>2. user[v].name # n /\ user[v].name \in Names \cup {"none"}
      <4>1. user[v] \in Row
        BY UserTyped DEF Known
      <4> QED BY <2>2, <4>1 DEF Holder, Row
    <3>3. Agrees(v)' <=> Agrees(v)
      BY <1>10, <3>1, <3>2 DEF Agrees
    <3> QED BY <1>12, <2>1, <3>1, <3>3 DEF Covering
  <2>4. ASSUME NEW m \in Names, roster'[m] \in Hashes, Holder(m)' = {}
        PROVE  m \in foreign' \cup left'
    <3>1. m # n /\ roster[m] \in Hashes /\ Holder(m) = {}
      BY <1>6, <1>10, <1>11, <2>4
    <3>2. m \in foreign \cup left
      BY <1>12, <2>1, <3>1 DEF Covering
    <3> QED BY <1>3, <3>2 DEF notes
  <2> QED BY <1>6, <2>3, <2>4 DEF Covering
<1>13. ~At(h, "idle") /\ races' = races /\ lost' = lost
  BY <1>1, <1>3 DEF At, budget, notes
<1> QED BY <1>4, <1>5, <1>6, <1>7, <1>8, <1>9, <1>12, <1>13, Moves

LEMMA ImportCreateRepairs == ASSUME IInv, RInv, NEW h \in Handlers, ImportCreate(h) PROVE RInv'
<1> DEFINE j == job[h]
           n == Some(j.ids)
           e == UsableHash(j.seen)
           u == NextId
           r == [there |-> TRUE, name |-> n, active |-> TRUE, hash |-> e, dirty |-> FALSE]
<1>1. j \in Job /\ JobOK(j) /\ j.pc = "create" /\ OfKnown(j)
  BY JobTyped DEF ImportCreate, At, RInv
<1>2. n \in Names /\ n # "none"
  <2>1. j.ids # {} /\ j.ids \subseteq Names
    BY <1>1 DEF JobOK, Placed, Job
  <2> QED BY <2>1, SomeIn, LaptopAssumption
<1>3. Set(h, Imported(j)) /\ UNCHANGED <<roster, budget, blind, untold, left, lost>>
  BY DEF ImportCreate
<1>4. job'[h] = Imported(j) /\ \A g \in Handlers : g # h => job'[g] = job[g]
  BY <1>3 DEF Set, IInv, TypeOK
<1>5. /\ job'[h].pc \in {"idle", "entry"} /\ job'[h].todo \subseteq j.todo
      /\ job'[h].other \in {j.other, Nobody}
      /\ job'[h].sound => j.sound
  BY <1>1, <1>4, ImportedShape
<1>6. ~At(h, "idle") /\ races' = races /\ lost' = lost
  BY <1>1, <1>3 DEF At, budget
<1>7. CASE UNCHANGED <<user, foreign>>
  BY <1>1, <1>3, <1>4, <1>5, <1>6, <1>7, Elsewhere DEF Settling, Reconciling, Locking
<1>8. CASE /\ Holder(n) = {} /\ u \in UserIds
           /\ user' = [user EXCEPT ![u] = r] /\ foreign' = foreign \ {n}
  <2>1. e \in Hashes \cup {None} /\ (j.seen \in Hashes => e = j.seen) /\ (j.seen \notin Hashes => e = None)
    BY DEF UsableHash
  <2> HIDE DEF e, u
  <2>2. r \in Row /\ r.there /\ r.active = TRUE /\ r.name = n /\ r.hash = e
    BY <1>2, <2>1 DEF Row
  <2> HIDE DEF n, r
  <2>3. \A v \in Known : v # u => user[v].name # r.name \/ r.name = "none"
    BY <1>8, <2>2 DEF Holder
  <2>4. u \in UserIds /\ u = NextId /\ user' = [user EXCEPT ![u] = r]
    BY <1>8 DEF u
  <2>5. /\ Blank' /\ InOrder' /\ UniqueNames'
        /\ Known' = Known \cup {u}
        /\ user'[u] = r /\ \A v \in UserIds : v # u => user'[v] = user[v]
    BY <2>2, <2>3, <2>4, RowWritten
  <2>6. OfKnown(job[h])'
    BY <1>1, <1>5, <2>5 DEF OfKnown, Settling, Reconciling
  <2>7. Good(job[h])'
    BY <1>5 DEF Good, Settling, Reconciling, Locking
  <2>8. ~j.sound
    BY <1>1 DEF RInv, Repairing, PushPoint
  <2>9. ASSUME Good(j), Covering(j) PROVE Covering(job[h])'
    <3>1. Leaves(j) = {} /\ \A v : ~Awaits(j, v)
      BY <1>1 DEF Leaves, Awaits, Reconciling, Locking
    <3>2. ASSUME NEW v \in Known' PROVE Agrees(v)' \/ user'[v].dirty \/ v \in untold'
      <4>1. CASE v = u
        <5>1. roster'[n] = j.seen
          BY <1>1, <1>3, <2>9 DEF Good, n
        <5>2. None \notin Hashes
          BY LaptopAssumption DEF None, Hashes, Old, HashOf
        <5> QED BY <2>1, <2>2, <2>5, <4>1, <5>1, <5>2 DEF Agrees, Eligible
      <4>2. CASE v # u
        <5>1. v \in Known /\ user'[v] = user[v] /\ untold' = untold /\ roster' = roster
          BY <1>3, <2>5, <4>2 DEF Known
        <5>2. Agrees(v)' <=> Agrees(v)
          BY <5>1 DEF Agrees
        <5> QED BY <2>9, <3>1, <5>1, <5>2 DEF Covering
      <4> QED BY <4>1, <4>2
    <3>3. ASSUME NEW m \in Names, roster'[m] \in Hashes, Holder(m)' = {}
          PROVE  m \in foreign' \cup left'
      <4>1. m # n
        BY <2>2, <2>5, <3>3 DEF Holder
      <4>2. Holder(m) = {}
        <5>1. SUFFICES ASSUME NEW v \in Known, user[v].name = m PROVE FALSE
          BY DEF Holder
        <5>2. v # u
          BY <2>4, IdsGiven DEF RInv
        <5>3. v \in Known' /\ user'[v].name = m
          BY <2>5, <5>1, <5>2 DEF Known
        <5> QED BY <3>3, <5>3 DEF Holder
      <4>3. m \in foreign \cup left
        BY <1>3, <2>9, <3>1, <3>3, <4>2 DEF Covering
      <4> QED BY <1>3, <1>8, <4>1, <4>3
    <3> QED BY <3>2, <3>3 DEF Covering
  <2>10. Known \subseteq Known'
    BY <2>5
  <2> QED BY <1>4, <1>5, <1>6, <2>5, <2>6, <2>7, <2>8, <2>9, <2>10, Moves
<1> QED BY <1>7, <1>8 DEF ImportCreate

LEMMA StepRepairs == ASSUME IInv, RInv, NEW h \in Handlers, Step(h) PROVE RInv'
BY CheckRepairs, OwnerRepairs, CommitRepairs, DeactivateRepairs, MergeRepairs, ReadRowRepairs,
   ReadEntryRepairs, WriteEntryRepairs, TidyRepairs, MarkDirtyRepairs, LockReadRepairs,
   LockWriteRepairs, DoneRepairs, ImportReadRepairs, ImportFindRepairs, ImportCreateRepairs DEF Step

LEMMA FailureRepairs == ASSUME IInv, RInv, NEW h \in Handlers, Failure(h) PROVE RInv'
BY CheckFailsRepairs, StatementFailsRepairs, RosterFailsRepairs, MarkFailsRepairs, LockFailsRepairs
   DEF Failure

-----------------------------------------------------------------------------
(* Flips and crashes *)

LEMMA FlipRepairs == ASSUME IInv, RInv, NEW u \in UserIds, Flip(u) PROVE RInv'
<1> DEFINE r == user[u]
           a == ~r.active
           row == [r EXCEPT !.active = a]
<1>1. r \in Row /\ r.there /\ u \in Known
  BY UserTyped DEF Flip, Known
<1>2. a \in BOOLEAN
  BY <1>1 DEF Row
<1>3. /\ user' = [user EXCEPT ![u] = row] /\ job' = Disturbed(job) /\ untold' = untold \cup {u}
      /\ UNCHANGED <<roster, foreign, left, lost>>
      /\ races' = IF Quiet THEN races ELSE races + 1
  BY DEF Flip
<1> HIDE DEF r, a
<1>4. row.there = TRUE /\ row.name = r.name
  BY <1>1, <1>2 DEF Row
<1> HIDE DEF row
<1>5. /\ user'[u] = row /\ \A v \in UserIds : v # u => user'[v] = user[v]
      /\ \A v \in UserIds : user'[v].there = user[v].there /\ user'[v].name = user[v].name
  <2>1. user'[u] = row /\ \A v \in UserIds : v # u => user'[v] = user[v]
    BY <1>3 DEF IInv, TypeOK
  <2>2. user[u].there = TRUE /\ user[u].name = r.name
    BY <1>1 DEF r, Row
  <2> QED BY <1>4, <2>1, <2>2
<1>6. Known' = Known /\ \A n : Holder(n)' = Holder(n)
  <2>1. Known' = Known
    BY <1>5 DEF Known
  <2> QED BY <1>5, <2>1 DEF Holder, Known
<1>7. \A h \in Handlers : /\ job'[h].pc = job[h].pc /\ job'[h].op = job[h].op
                          /\ job'[h].user = job[h].user
                          /\ job'[h].todo = job[h].todo /\ job'[h].other = job[h].other
                          /\ ~job'[h].sound
  <2>1. \A i \in Job : LET k == [i EXCEPT !.sound = FALSE] IN
           /\ k.pc = i.pc /\ k.op = i.op /\ k.user = i.user /\ k.todo = i.todo
           /\ k.other = i.other /\ ~k.sound
    BY SMTT(30) DEF Job
  <2>2. ASSUME NEW h \in Handlers PROVE job'[h] = [job[h] EXCEPT !.sound = FALSE] /\ job[h] \in Job
    BY <1>3, JobTyped DEF Disturbed
  <2> QED BY <2>1, <2>2
<1>8. Blank' /\ InOrder' /\ UniqueNames'
  <2>1. \A v \in UserIds : user'[v].there \/ user'[v] = NoUser
    BY <1>4, <1>5 DEF RInv, Blank
  <2>2. \A v, w \in Known : user'[v].name = user'[w].name /\ user'[v].name # "none" => v = w
    BY <1>5 DEF RInv, UniqueNames, Known
  <2> QED BY <1>6, <2>1, <2>2 DEF Blank, RInv, InOrder, UniqueNames
<1>9. \A h \in Handlers : OfKnown(job[h])'
  <2>1. ASSUME NEW h \in Handlers PROVE OfKnown(job[h])'
    <3>1. OfKnown(job[h])
      BY DEF RInv
    <3> QED BY <1>6, <1>7, <3>1 DEF OfKnown
  <2> QED BY <2>1
<1>10. Quiet' <=> Quiet
  BY <1>7 DEF Quiet, At
<1>11. races' = 0 => Quiet /\ races = 0
  <2>1. races \in Nat
    BY DEF IInv, TypeOK
  <2> QED BY <1>3, <2>1
<1>12. ASSUME races' = 0 PROVE \A h \in Handlers : job'[h].pc = "idle"
  BY <1>7, <1>11, <1>12 DEF Quiet, At
<1>13. \A h \in Handlers : job'[h].pc = "idle" => Good(job[h])'
  BY DEF Good, Settling, Reconciling, Locking
<1>14. ASSUME races' = 0, ~lost' PROVE Covering(NoJob)'
  <2>1. Covering(NoJob)
    BY <1>3, <1>11, <1>14 DEF RInv
  <2>2. Leaves(NoJob) = {} /\ \A v : ~Awaits(NoJob, v)
    BY NoJobEmpty DEF Leaves, Awaits, Reconciling, Locking
  <2>3. ASSUME NEW v \in Known PROVE Agrees(v)' \/ user'[v].dirty \/ v \in untold'
    <3>1. CASE v = u
      BY <1>3, <3>1
    <3>2. CASE v # u
      <4>1. user'[v] = user[v] /\ roster' = roster
        BY <1>3, <1>5, <3>2 DEF Known
      <4>2. Agrees(v)' <=> Agrees(v)
        BY <4>1 DEF Agrees
      <4> QED BY <1>3, <2>1, <2>2, <4>1, <4>2 DEF Covering
    <3> QED BY <3>1, <3>2
  <2>4. \A n \in Names : roster'[n] \in Hashes /\ Holder(n)' = {} => n \in foreign' \cup left'
    BY <1>3, <1>6, <2>1, <2>2 DEF Covering
  <2> QED BY <1>6, <2>3, <2>4 DEF Covering
<1>15. ASSUME races' = 0, ~lost', NEW h \in Handlers PROVE Covering(job[h])'
  <2>1. job'[h].pc = "idle" /\ NoJob.pc = "idle"
    BY <1>12, <1>15, NoJobIsJob
  <2>2. Covering(NoJob)'
    BY <1>14, <1>15
  <2> QED BY <2>1, <2>2 DEF Covering, Awaits, Leaves, Reconciling, Locking
<1> QED BY <1>7, <1>8, <1>9, <1>12, <1>13, <1>14, <1>15 DEF RInv, At

\* A crash gives up every request: from then on the roster may disagree unmarked.
LEMMA CrashRepairs == ASSUME IInv, RInv, Crash PROVE RInv'
<1>1. /\ \A h \in Handlers : job'[h] = NoJob
      /\ lost' = TRUE /\ UNCHANGED <<user, roster, left, races, foreign, untold>>
  BY DEF Crash, Mishap
<1>2. \A h \in Handlers : /\ job'[h].pc = "idle" /\ job'[h].todo = {} /\ job'[h].other = Nobody
                          /\ ~job'[h].sound
  BY <1>1, NoJobEmpty
<1>3. Known' = Known
  BY <1>1 DEF Known
<1>4. Blank' /\ InOrder' /\ UniqueNames'
  BY <1>1, <1>3 DEF RInv, Blank, InOrder, UniqueNames
<1>5. \A h \in Handlers : OfKnown(job[h])'
  BY <1>2 DEF OfKnown, Settling, Reconciling
<1>6. \A h \in Handlers : Good(job[h])'
  BY <1>2 DEF Good, Settling, Reconciling, Locking
<1> QED BY <1>1, <1>2, <1>4, <1>5, <1>6 DEF RInv, At

-----------------------------------------------------------------------------
(* The entries agree, and what repairs them *)

LEMMA NextRepairs == ASSUME IInv, RInv, [Next]_vars PROVE RInv'
<1>1. CASE UNCHANGED vars
  <2>1. /\ user' = user /\ roster' = roster /\ job' = job /\ races' = races /\ foreign' = foreign
        /\ untold' = untold /\ left' = left /\ lost' = lost
    BY <1>1 DEF vars
  <2>2. Known' = Known /\ (\A n : Holder(n)' = Holder(n)) /\ \A v : Agrees(v)' <=> Agrees(v)
    BY <2>1 DEF Known, Holder, Agrees
  <2>3. Blank' /\ InOrder' /\ UniqueNames'
    BY <2>1, <2>2 DEF RInv, Blank, InOrder, UniqueNames
  <2>4. \A h \in Handlers : (OfKnown(job[h])' <=> OfKnown(job[h])) /\ (Good(job[h])' <=> Good(job[h]))
    BY <2>1, <2>2 DEF OfKnown, Good
  <2>5. \A h \in Handlers : /\ Repairing(job[h])' <=> Repairing(job[h])
                            /\ Covering(job[h])' <=> Covering(job[h])
    BY <2>1, <2>2 DEF Repairing, Covering
  <2>6. Covering(NoJob)' <=> Covering(NoJob)
    BY <2>1, <2>2 DEF Covering
  <2> QED BY <2>1, <2>3, <2>4, <2>5, <2>6 DEF RInv, OthersIdle, Quiet, At
<1>2. CASE Next
  BY <1>2, StartRepairs, TickRepairs, StepRepairs, FailureRepairs, FlipRepairs, CrashRepairs DEF Next
<1> QED BY <1>1, <1>2

LEMMA InitRepairs == ASSUME Init PROVE RInv
<1> PICK n \in {m \in Names : roster[m] = Old} \cup {"none"} :
      /\ user = [u \in UserIds |->
                   IF u = 1 THEN [NoUser EXCEPT !.there = TRUE, !.active = TRUE, !.name = n,
                                                !.hash = IF n = "none" THEN None ELSE Old]
                            ELSE NoUser]
      /\ foreign = {m \in Names : roster[m] # None} \ {n}
  BY DEF Init
<1> DEFINE x == IF n = "none" THEN None ELSE Old
           row == [NoUser EXCEPT !.there = TRUE, !.active = TRUE, !.name = n, !.hash = x]
<1>1. 1 \in UserIds
  BY LaptopAssumption DEF UserIds
<1>2. user[1] = row /\ \A u \in UserIds : u # 1 => user[u] = NoUser
  BY <1>1
<1>3. \A h \in Handlers : job[h] = NoJob
  BY DEF Init
<1>4. roster \in [Names -> {None, Locked, Old}]
  BY DEF Init
<1> HIDE DEF x
<1>5. row.there = TRUE /\ row.name = n /\ row.hash = x /\ NoUser.there = FALSE /\ row.active = TRUE
  BY DEF NoUser
<1> HIDE DEF row
<1>6. Known = {1}
  BY <1>1, <1>2, <1>5 DEF Known
<1>7. Blank /\ UniqueNames
  BY <1>2, <1>5, <1>6 DEF Blank, UniqueNames
<1>8. InOrder
  <2>1. Known = 1..1 /\ 1 \in Nat
    BY <1>6
  <2> QED BY <2>1 DEF InOrder
<1>9. \A h \in Handlers : /\ job[h].pc = "idle" /\ job[h].todo = {} /\ job[h].other = Nobody
                          /\ ~job[h].sound
  BY <1>3, NoJobEmpty
<1>10. \A h \in Handlers : OfKnown(job[h]) /\ Good(job[h])
  BY <1>9 DEF OfKnown, Good, Settling, Reconciling, Locking
<1>11. Agrees(1)
  <2>1. n # "none" => roster[n] = Old /\ x = Old /\ Old # None
    BY DEF x, Old, None
  <2> QED BY <1>2, <1>5, <2>1 DEF Agrees, Eligible
<1>12. ASSUME NEW j PROVE Covering(j)
  <2>1. ASSUME NEW m \in Names, roster[m] \in Hashes, Holder(m) = {} PROVE m \in foreign
    <3>1. roster[m] # None
      BY <2>1, LaptopAssumption DEF None, Hashes, Old, HashOf
    <3>2. m # n
      BY <1>2, <1>5, <1>6, <2>1 DEF Holder
    <3> QED BY <3>1, <3>2
  <2> QED BY <1>6, <1>11, <2>1 DEF Covering
<1> QED BY <1>7, <1>8, <1>9, <1>10, <1>12 DEF RInv, At

\* pushAll repairs the bucket: whatever raced, failed or crashed before, when a push-all that
\* nothing came across answers, the entry of everybody known agrees with the row.
THEOREM AfterPushAllEntriesAgree == Spec => []PushAllRepairs
<1>1. RInv => PushAllRepairs
  <2>1. SUFFICES ASSUME RInv, NEW h \in Handlers, At(h, "done"), job[h].sound, NEW u \in Known
                 PROVE  Agrees(u)
    BY DEF PushAllRepairs
  <2>2. Repairing(job[h])
    BY <2>1 DEF RInv
  <2>3. ~Awaits(job[h], u)
    BY <2>1 DEF Awaits, Reconciling, At
  <2> QED BY <2>2, <2>3 DEF Repairing
<1> QED BY <1>1, InitIInv, InitRepairs, NextKeeps, NextRepairs, PTL DEF Spec

\* reconcile's promise, as long as no two requests overlap and none ends without a mark: when
\* all is quiet, every entry agrees with its row or the row is marked for the job, and the
\* name nobody holds any more is locked.
THEOREM QuietRosterAgrees == Spec => []RosterAgrees
<1>1. RInv => RosterAgrees
  <2>1. Leaves(NoJob) = {} /\ \A v : ~Awaits(NoJob, v)
    BY NoJobEmpty DEF Leaves, Awaits, Reconciling, Locking
  <2> QED BY <2>1 DEF RInv, RosterAgrees, Covering
<1> QED BY <1>1, InitIInv, InitRepairs, NextKeeps, NextRepairs, PTL DEF Spec
=============================================================================
