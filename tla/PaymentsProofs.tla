--------------------------- MODULE PaymentsProofs ---------------------------
(***************************************************************************)
(* Theorems about Payments, for every set of workers, users, tasks, memos  *)
(* and payments.  The first two hold under any interleaving of requests    *)
(* and expiries, the others when a user has one request at a time (Serial).*)
(* That a task is paid for once needs more: that payments are recorded     *)
(* before their locks expire (Timely), and that no lock expires while a    *)
(* submission that found no payment is on its way to the lock (Swift).     *)
(***************************************************************************)
EXTENDS Payments, TLAPS

-----------------------------------------------------------------------------
(* Type correctness: the tables and redis, then the handlers' variables. *)

DataOK ==
  /\ completed \in [Users -> SUBSET Tasks]
  /\ cooling \in [Users -> SUBSET Cats]
  /\ nextMemo \in [Users -> MemoDict]
  /\ taskCache \in [Users \X Cats -> Tasks \cup {Empty, None}]
  /\ payLocks \subseteq Users \X Tasks
  /\ memoCache \in [Memos -> Request \cup {None}]
  /\ payments \in [PayIds -> Payment \cup {None}]
  /\ txRow \in [PayIds -> Row \cup {None}]
  /\ memoOwner \in [Memos -> Users \cup {None}]
  /\ turn \in [Users \X Tasks -> Nat]

WorkersOK ==
  /\ pc \in [Workers -> Steps]
  /\ job \in [Workers -> Job]
  /\ \A w \in Workers : JobOK(w)

\* JobOK for a worker about to stand at step s with local variables j.
Fits(s, j) ==
  /\ s \in ServeSteps \cup SubmitSteps => j.user \in Users /\ j.cat \in Cats
  /\ s \in {"mint", "fill"} => j.task \in Tasks \cup {Empty}
  /\ s \in SubmitSteps \cup {"record"} => j.task \in Tasks
  /\ s \in {"replace", "announce", "send", "record"} => j.memo \in Memos
  /\ s = "record" => j.user \in Users /\ j.pay \in PayIds

\* An idle handler's local variables have their types, and any may be set.
LEMMA NoJobType == NoJob \in Job
BY DEF NoJob, NoMemos, Job, MemoDict

\* One worker moves on with local variables that fit the step it moves to.
LEMMA WorkerMoves ==
  ASSUME WorkersOK, NEW w \in Workers, NEW s \in Steps, NEW j \in Job, Fits(s, j),
         pc' = [pc EXCEPT ![w] = s], job' = [job EXCEPT ![w] = j]
  PROVE  WorkersOK'
<1>1. pc' \in [Workers -> Steps] /\ job' \in [Workers -> Job]
  BY DEF WorkersOK
<1>2. ASSUME NEW v \in Workers PROVE JobOK(v)'
  <2>1. CASE v = w
    <3>1. pc'[v] = s /\ job'[v] = j
      BY <2>1 DEF WorkersOK
    <3>2. QED
      BY <3>1 DEF JobOK, Fits
  <2>2. CASE v # w
    <3>1. pc'[v] = pc[v] /\ job'[v] = job[v]
      BY <2>2 DEF WorkersOK
    <3>2. QED
      BY <3>1 DEF JobOK, WorkersOK
  <2>3. QED
    BY <2>1, <2>2
<1>3. QED
  BY <1>1, <1>2 DEF WorkersOK

\* A worker that goes on with the local variables it has.
LEMMA WorkerGoes ==
  ASSUME WorkersOK, NEW w \in Workers, NEW s \in Steps, Fits(s, job[w]), Goto(w, s),
         UNCHANGED job
  PROVE  WorkersOK'
<1>1. job[w] \in Job /\ job' = [job EXCEPT ![w] = job[w]]
  BY DEF WorkersOK
<1>2. QED
  BY <1>1, WorkerMoves DEF Goto

\* A handler that ends forgets its local variables.
LEMMA WorkerEnds ==
  ASSUME WorkersOK, NEW w \in Workers, Finish(w)
  PROVE  WorkersOK'
<1>1. "idle" \in Steps /\ Fits("idle", NoJob)
  BY DEF Steps, Fits, ServeSteps, SubmitSteps, StoreSteps, PaySteps
<1>2. QED
  BY <1>1, NoJobType, WorkerMoves DEF Finish, Goto

\* Every step leaves the handlers' variables typed.
LEMMA WorkersStep ==
  ASSUME DataOK, WorkersOK, [Next]_vars
  PROVE  WorkersOK'
<1> USE PaymentsAssumption
<1>1. ASSUME NEW w \in Workers PROVE job[w] \in Job /\ JobOK(w) /\ pc[w] \in Steps
  BY DEF WorkersOK
<1>2. ASSUME NEW w \in Workers, NEW u \in Users, NEW c \in Cats, GetTask(w, u, c)
      PROVE  WorkersOK'
  <2> DEFINE j == [NoJob EXCEPT !.user = u, !.cat = c]
  <2>1. j \in Job
    BY NoJobType DEF Job
  <2>2. "select" \in Steps /\ Fits("select", j)
    BY NoJobType DEF Job, Steps, Fits, ServeSteps, SubmitSteps, StoreSteps, PaySteps
  <2>3. QED
    BY <1>2, <2>1, <2>2, WorkerMoves DEF GetTask, Goto
<1>3. ASSUME NEW w \in Workers, NEW u \in Users, NEW t \in Tasks, SubmitResults(w, u, t)
      PROVE  WorkersOK'
  <2> DEFINE j == [NoJob EXCEPT !.user = u, !.task = t, !.cat = CatOf[t]]
  <2>1. j \in Job
    BY NoJobType DEF Job
  <2>2. "check" \in Steps /\ Fits("check", j)
    BY NoJobType DEF Job, Steps, Fits, ServeSteps, SubmitSteps, StoreSteps, PaySteps
  <2>3. QED
    BY <1>3, <2>1, <2>2, WorkerMoves DEF SubmitResults, Goto
<1>4. ASSUME NEW w \in Workers, NEW p \in PayIds, ReceiveCallback(w, p)
      PROVE  WorkersOK'
  <2> DEFINE entry == memoCache[payments[p].memo]
             j == [NoJob EXCEPT !.user = entry.user, !.task = entry.task,
                                !.memo = payments[p].memo, !.pay = p]
  <2>1. payments[p] \in Payment
    BY <1>4 DEF ReceiveCallback, DataOK
  <2>2. payments[p].memo \in Memos
    BY <2>1 DEF Payment
  <2>3. entry \in Request
    BY <1>4, <2>2 DEF ReceiveCallback, DataOK
  <2>4. entry.user \in Users /\ entry.task \in Tasks
    BY <2>3 DEF Request
  <2> HIDE DEF entry
  <2>5. j \in Job
    BY <2>2, <2>4, NoJobType DEF Job
  <2>6. "record" \in Steps /\ Fits("record", j)
    BY <2>2, <2>4, NoJobType DEF Job, Steps, Fits, ServeSteps, SubmitSteps, StoreSteps, PaySteps
  <2>7. pc' = [pc EXCEPT ![w] = "record"] /\ job' = [job EXCEPT ![w] = j]
    BY <1>4 DEF ReceiveCallback, Goto, entry
  <2>8. QED
    BY <2>5, <2>6, <2>7, WorkerMoves
<1>5. ASSUME NEW w \in Workers, SelectTask(w) PROVE WorkersOK'
  <2>1. pc[w] = "select" /\ job[w].user \in Users /\ job[w].cat \in Cats
    BY <1>5, <1>1 DEF SelectTask, JobOK, ServeSteps
  <2>2. PICK t \in Tasks \cup {Empty} :
          \/ job' = [job EXCEPT ![w].task = t, ![w].memos = nextMemo[job[w].user]]
             /\ Goto(w, "mint")
          \/ job' = [job EXCEPT ![w].task = t] /\ Goto(w, "fill")
    BY <1>5 DEF SelectTask, TasksOf
  <2>3. CASE job' = [job EXCEPT ![w].task = t, ![w].memos = nextMemo[job[w].user]]
             /\ Goto(w, "mint")
    <3> DEFINE j == [job[w] EXCEPT !.task = t, !.memos = nextMemo[job[w].user]]
    <3>0. nextMemo[job[w].user] \in MemoDict
      BY <2>1 DEF DataOK
    <3>1. j \in Job
      BY <1>1, <2>1, <3>0 DEF Job
    <3>2. "mint" \in Steps /\ Fits("mint", j)
      BY <1>1, <2>1 DEF Job, Steps, Fits, ServeSteps, SubmitSteps, StoreSteps, PaySteps
    <3>3. job' = [job EXCEPT ![w] = j]
      BY <2>3 DEF WorkersOK
    <3>4. QED
      BY <2>3, <3>1, <3>2, <3>3, WorkerMoves DEF Goto
  <2>4. CASE job' = [job EXCEPT ![w].task = t] /\ Goto(w, "fill")
    <3> DEFINE j == [job[w] EXCEPT !.task = t]
    <3>1. j \in Job
      BY <1>1, <2>1 DEF Job
    <3>2. "fill" \in Steps /\ Fits("fill", j)
      BY <1>1, <2>1 DEF Job, Steps, Fits, ServeSteps, SubmitSteps, StoreSteps, PaySteps
    <3>3. job' = [job EXCEPT ![w] = j]
      BY <2>4 DEF WorkersOK
    <3>4. QED
      BY <2>4, <3>1, <3>2, <3>3, WorkerMoves DEF Goto
  <2>5. QED
    BY <2>2, <2>3, <2>4
<1>6. ASSUME NEW w \in Workers, MintMemo(w) PROVE WorkersOK'
  <2> DEFINE j == [job[w] EXCEPT !.memos = NoMemos]
             k == [job[w] EXCEPT !.memos = NoMemos, !.times = cooling[job[w].user]]
  <2>1. NoMemos \in MemoDict
    BY DEF NoMemos, MemoDict
  <2>2. job[w].user \in Users /\ job[w].cat \in Cats
    BY <1>6, <1>1 DEF MintMemo, JobOK, Steps, Fits, ServeSteps, SubmitSteps, StoreSteps, PaySteps
  <2>3. j \in Job /\ k \in Job
    BY <1>1, <2>1, <2>2 DEF Job, DataOK
  <2>4. j.task = job[w].task /\ j.user = job[w].user /\ j.cat = job[w].cat
        /\ k.task = job[w].task /\ k.user = job[w].user /\ k.cat = job[w].cat
    BY <1>1 DEF Job
  <2>5. CASE pc[w] = "mint" /\ job' = [job EXCEPT ![w].memos = NoMemos] /\ Goto(w, "fill")
    <3>1. job' = [job EXCEPT ![w] = j]
      BY <2>5 DEF WorkersOK
    <3>2. job[w].task \in Tasks \cup {Empty}
      BY <2>5, <1>1 DEF JobOK
    <3>3. "fill" \in Steps /\ Fits("fill", j)
      BY <2>2, <2>4, <3>2 DEF Steps, Fits, ServeSteps, SubmitSteps, StoreSteps, PaySteps
    <3>4. QED
      BY <2>3, <2>5, <3>1, <3>3, WorkerMoves DEF Goto
  <2>6. CASE /\ pc[w] = "mintnext" /\ Goto(w, "schedule")
             /\ job' = [job EXCEPT ![w].memos = NoMemos, ![w].times = cooling[job[w].user]]
    <3>1. job' = [job EXCEPT ![w] = k]
      BY <2>6 DEF WorkersOK
    <3>2. job[w].task \in Tasks
      BY <2>6, <1>1 DEF JobOK, Steps, Fits, ServeSteps, SubmitSteps, StoreSteps, PaySteps
    <3>3. "schedule" \in Steps /\ Fits("schedule", k)
      BY <2>2, <2>4, <3>2 DEF Steps, Fits, ServeSteps, SubmitSteps, StoreSteps, PaySteps
    <3>4. QED
      BY <2>3, <2>6, <3>1, <3>3, WorkerMoves DEF Goto
  <2>7. QED
    BY <1>6, <2>5, <2>6 DEF MintMemo
<1>7. ASSUME NEW w \in Workers,
             \/ FillCache(w) \/ RejectPremature(w) \/ AlreadyCompensating(w)
             \/ SendPayment(w) \/ RecordPayment(w) \/ Crash(w)
      PROVE  WorkersOK'
  <2>1. Finish(w)
    BY <1>7 DEF FillCache, RejectPremature, AlreadyCompensating, SendPayment, RecordPayment,
                Crash
  <2>2. QED
    BY <2>1, WorkerEnds
<1>8. ASSUME NEW w \in Workers, PassCooldown(w) PROVE WorkersOK'
  <2>1. "lookup" \in Steps /\ Fits("lookup", job[w])
    BY <1>8, <1>1 DEF PassCooldown, JobOK, Steps, Fits, ServeSteps, SubmitSteps, StoreSteps, PaySteps
  <2>2. QED
    BY <1>8, <2>1, WorkerGoes DEF PassCooldown
<1>9. ASSUME NEW w \in Workers, CachePayment(w) PROVE WorkersOK'
  <2>1. "send" \in Steps /\ Fits("send", job[w])
    BY <1>9, <1>1 DEF CachePayment, JobOK, Steps, Fits, ServeSteps, SubmitSteps, StoreSteps, PaySteps
  <2>2. QED
    BY <1>9, <2>1, WorkerGoes DEF CachePayment
<1>10. ASSUME NEW w \in Workers, LookupPayment(w) PROVE WorkersOK'
  <2> DEFINE found == AlreadyPaid(job[w].user, job[w].task)
             j == [job[w] EXCEPT !.paid = found]
  <2>1. found \in BOOLEAN
    BY DEF AlreadyPaid
  <2> HIDE DEF found
  <2>2. j \in Job
    BY <1>1, <2>1 DEF Job
  <2>3. "load" \in Steps /\ Fits("load", j)
    BY <1>10, <1>1 DEF LookupPayment, JobOK, Job, Steps, Fits, ServeSteps, SubmitSteps, StoreSteps, PaySteps
  <2>4. pc' = [pc EXCEPT ![w] = "load"] /\ job' = [job EXCEPT ![w] = j]
    BY <1>10 DEF LookupPayment, Goto, found
  <2>5. QED
    BY <2>2, <2>3, <2>4, WorkerMoves
<1>11. ASSUME NEW w \in Workers, LoadCompleted(w) PROVE WorkersOK'
  <2> DEFINE j == [job[w] EXCEPT !.seen = completed[job[w].user]]
  <2>1. pc[w] = "load" /\ job[w].user \in Users
    BY <1>11, <1>1 DEF LoadCompleted, JobOK, Steps, Fits, ServeSteps, SubmitSteps, StoreSteps, PaySteps
  <2>2. completed[job[w].user] \in SUBSET Tasks
    BY <2>1 DEF DataOK
  <2>3. j \in Job
    BY <1>1, <2>2 DEF Job
  <2>4. "complete" \in Steps /\ Fits("complete", j)
    BY <2>1, <1>1 DEF JobOK, Job, Steps, Fits, ServeSteps, SubmitSteps, StoreSteps, PaySteps
  <2>5. QED
    BY <1>11, <2>3, <2>4, WorkerMoves DEF LoadCompleted, Goto
<1>12. ASSUME NEW w \in Workers, MarkCompleted(w) PROVE WorkersOK'
  <2> DEFINE j == [job[w] EXCEPT !.seen = {}]
  <2>1. j \in Job
    BY <1>1 DEF Job
  <2>2. "next" \in Steps /\ Fits("next", j)
    BY <1>12, <1>1 DEF MarkCompleted, JobOK, Job, Steps, Fits, ServeSteps, SubmitSteps, StoreSteps, PaySteps
  <2>3. QED
    BY <1>12, <2>1, <2>2, WorkerMoves DEF MarkCompleted, Goto
<1>13. ASSUME NEW w \in Workers, LoadNext(w) PROVE WorkersOK'
  <2> DEFINE j == [job[w] EXCEPT !.times = cooling[job[w].user]]
             k == [job[w] EXCEPT !.memos = nextMemo[job[w].user]]
  <2>1. pc[w] = "next" /\ job[w].user \in Users
    BY <1>13, <1>1 DEF LoadNext, JobOK, Steps, Fits, ServeSteps, SubmitSteps, StoreSteps, PaySteps
  <2>2. cooling[job[w].user] \in SUBSET Cats /\ nextMemo[job[w].user] \in MemoDict
    BY <2>1 DEF DataOK
  <2>3. j \in Job /\ k \in Job
    BY <1>1, <2>2 DEF Job
  <2>4. "schedule" \in Steps /\ "mintnext" \in Steps
        /\ Fits("schedule", j) /\ Fits("mintnext", k)
    BY <2>1, <1>1 DEF JobOK, Job, Steps, Fits, ServeSteps, SubmitSteps, StoreSteps, PaySteps
  <2>5. \/ pc' = [pc EXCEPT ![w] = "schedule"] /\ job' = [job EXCEPT ![w] = j]
        \/ pc' = [pc EXCEPT ![w] = "mintnext"] /\ job' = [job EXCEPT ![w] = k]
    BY <1>13 DEF LoadNext, Goto
  <2>6. QED
    BY <2>3, <2>4, <2>5, WorkerMoves
<1>14. ASSUME NEW w \in Workers, Schedule(w) PROVE WorkersOK'
  <2> DEFINE j == [job[w] EXCEPT !.times = {}]
  <2>1. j \in Job
    BY <1>1 DEF Job
  <2>2. "lock" \in Steps /\ Fits("lock", j)
    BY <1>14, <1>1 DEF Schedule, JobOK, Job, Steps, Fits, ServeSteps, SubmitSteps, StoreSteps, PaySteps
  <2>3. CASE Finish(w)
    BY <2>3, WorkerEnds
  <2>4. CASE pc' = [pc EXCEPT ![w] = "lock"] /\ job' = [job EXCEPT ![w] = j]
    BY <2>1, <2>2, <2>4, WorkerMoves
  <2>5. QED
    BY <1>14, <2>3, <2>4 DEF Schedule, Goto
<1>15. ASSUME NEW w \in Workers, TakePayLock(w) PROVE WorkersOK'
  <2> DEFINE n == turn[<<job[w].user, job[w].task>>] + 1
             j == [job[w] EXCEPT !.turn = n]
  <2>1. pc[w] = "lock" /\ job[w].user \in Users /\ job[w].task \in Tasks
    BY <1>15, <1>1 DEF TakePayLock, JobOK, Steps, Fits, ServeSteps, SubmitSteps, StoreSteps, PaySteps
  <2>2. n \in Nat
    BY <2>1 DEF DataOK
  <2> HIDE DEF n
  <2>3. j \in Job
    BY <1>1, <2>2 DEF Job
  <2>4. "memo" \in Steps /\ Fits("memo", j)
    BY <2>1, <1>1 DEF JobOK, Job, Steps, Fits, ServeSteps, SubmitSteps, StoreSteps, PaySteps
  <2>5. pc' = [pc EXCEPT ![w] = "memo"] /\ job' = [job EXCEPT ![w] = j]
    BY <1>15 DEF TakePayLock, Goto, n
  <2>6. QED
    BY <2>3, <2>4, <2>5, WorkerMoves
<1>16. ASSUME NEW w \in Workers, TakeMemo(w) PROVE WorkersOK'
  <2> DEFINE dict == nextMemo[job[w].user]
             m == dict[job[w].cat]
             j == [job[w] EXCEPT !.memos = dict, !.memo = m]
  <2>1. pc[w] = "memo" /\ job[w].user \in Users /\ job[w].cat \in Cats /\ job[w].task \in Tasks
    BY <1>16, <1>1 DEF TakeMemo, JobOK, Steps, Fits, ServeSteps, SubmitSteps, StoreSteps, PaySteps
  <2>2. dict \in MemoDict /\ m \in Memos \cup {None}
    BY <2>1 DEF DataOK, MemoDict
  <2>3. Finish(w) \/ (m # None /\ pc' = [pc EXCEPT ![w] = "replace"]
                      /\ job' = [job EXCEPT ![w] = j])
    BY <1>16 DEF TakeMemo, Goto
  <2> HIDE DEF m, dict
  <2>4. j \in Job
    BY <1>1, <2>2 DEF Job
  <2>5. "replace" \in Steps /\ (m # None => Fits("replace", j))
    BY <2>1, <2>2, <1>1 DEF Job, Steps, Fits, ServeSteps, SubmitSteps, StoreSteps, PaySteps
  <2>6. QED
    BY <2>3, <2>4, <2>5, WorkerMoves, WorkerEnds
<1>17. ASSUME NEW w \in Workers, ReplaceMemo(w) PROVE WorkersOK'
  <2> DEFINE j == [job[w] EXCEPT !.memos = NoMemos]
  <2>1. NoMemos \in MemoDict
    BY DEF NoMemos, MemoDict
  <2>2. j \in Job
    BY <1>1, <2>1 DEF Job
  <2>3. "announce" \in Steps /\ Fits("announce", j)
    BY <1>17, <1>1 DEF ReplaceMemo, JobOK, Job, Steps, Fits, ServeSteps, SubmitSteps, StoreSteps, PaySteps
  <2>4. QED
    BY <1>17, <2>2, <2>3, WorkerMoves DEF ReplaceMemo, Goto
<1>18. ASSUME UNCHANGED <<pc, job>> PROVE WorkersOK'
  BY <1>18 DEF WorkersOK, JobOK
<1>19. QED
  BY <1>2, <1>3, <1>4, <1>5, <1>6, <1>7, <1>8, <1>9, <1>10, <1>11, <1>12, <1>13, <1>14,
     <1>15, <1>16, <1>17, <1>18
  DEF Next, vars, Settle, MigrateMemos, EndCooldown, ExpireTaskCache, ExpirePayLock,
      ExpireMemoCache

\* Every step leaves the tables and redis typed.
LEMMA DataStep ==
  ASSUME DataOK, WorkersOK, [Next]_vars
  PROVE  DataOK'
<1> USE PaymentsAssumption
<1>1. ASSUME NEW w \in Workers PROVE job[w] \in Job /\ JobOK(w)
  BY DEF WorkersOK
<1>2. ASSUME NEW w \in Workers,
             \/ \E u \in Users, c \in Cats : GetTask(w, u, c)
             \/ \E p \in PayIds : ReceiveCallback(w, p)
             \/ SelectTask(w) \/ RejectPremature(w) \/ PassCooldown(w) \/ LookupPayment(w)
             \/ LoadCompleted(w) \/ LoadNext(w) \/ AlreadyCompensating(w) \/ TakeMemo(w)
             \/ Crash(w)
      PROVE  DataOK'
  <2>1. UNCHANGED <<appData, redis, payments, txRow, history>>
    BY <1>2 DEF GetTask, ReceiveCallback, SelectTask, RejectPremature, PassCooldown,
                LookupPayment, LoadCompleted, LoadNext, AlreadyCompensating, TakeMemo, Crash
  <2>2. QED
    BY <2>1 DEF DataOK, appData, redis, history
<1>3. ASSUME NEW w \in Workers, NEW u \in Users, NEW t \in Tasks, SubmitResults(w, u, t)
      PROVE  DataOK'
  BY <1>3 DEF SubmitResults, DataOK, appData, history
<1>4. ASSUME NEW w \in Workers, NEW m \in Memos,
             memoOwner' = [memoOwner EXCEPT ![m] = job[w].user],
             nextMemo' = [nextMemo EXCEPT ![job[w].user] =
                            [job[w].memos EXCEPT ![job[w].cat] = m]],
             job[w].user \in Users,
             UNCHANGED <<completed, cooling, redis, payments, txRow, turn>>
      PROVE  DataOK'
  <2>1. [job[w].memos EXCEPT ![job[w].cat] = m] \in MemoDict
    <3>1. job[w].memos \in MemoDict
      BY <1>1 DEF Job
    <3>2. QED
      BY <3>1 DEF MemoDict
  <2>2. nextMemo' \in [Users -> MemoDict] /\ memoOwner' \in [Memos -> Users \cup {None}]
    BY <1>4, <2>1 DEF DataOK
  <2>3. QED
    BY <1>4, <2>2 DEF DataOK, redis
<1>5. ASSUME NEW w \in Workers, MintMemo(w) PROVE DataOK'
  <2>1. job[w].user \in Users
    BY <1>5, <1>1 DEF MintMemo, JobOK, ServeSteps, SubmitSteps, StoreSteps, PaySteps
  <2>2. QED
    BY <1>4, <1>5, <2>1 DEF MintMemo
<1>6. ASSUME NEW w \in Workers, ReplaceMemo(w) PROVE DataOK'
  <2>1. job[w].user \in Users
    BY <1>6, <1>1 DEF ReplaceMemo, JobOK, ServeSteps, SubmitSteps, StoreSteps, PaySteps
  <2>2. QED
    BY <1>4, <1>6, <2>1 DEF ReplaceMemo
<1>7. ASSUME NEW w \in Workers, FillCache(w) PROVE DataOK'
  <2>1. job[w].task \in Tasks \cup {Empty}
    BY <1>7, <1>1 DEF FillCache, JobOK
  <2>2. taskCache' \in [Users \X Cats -> Tasks \cup {Empty, None}]
    BY <1>7, <2>1 DEF FillCache, DataOK
  <2>3. QED
    BY <1>7, <2>2 DEF FillCache, DataOK, appData, history
<1>8. ASSUME NEW w \in Workers, MarkCompleted(w) PROVE DataOK'
  <2>1. job[w].task \in Tasks /\ job[w].seen \subseteq Tasks
    BY <1>8, <1>1 DEF MarkCompleted, JobOK, Job, ServeSteps, SubmitSteps, StoreSteps, PaySteps
  <2>2. completed' \in [Users -> SUBSET Tasks]
    BY <1>8, <2>1 DEF MarkCompleted, DataOK
  <2>3. QED
    BY <1>8, <2>2 DEF MarkCompleted, DataOK, redis, history
<1>9. ASSUME NEW w \in Workers, Schedule(w) PROVE DataOK'
  <2>1. job[w].times \subseteq Cats /\ job[w].cat \in Cats
    BY <1>9, <1>1 DEF Schedule, JobOK, Job, ServeSteps, SubmitSteps, StoreSteps, PaySteps
  <2>2. cooling' \in [Users -> SUBSET Cats]
    <3>1. PICK later \in {{}, {job[w].cat}} :
            cooling' = [cooling EXCEPT ![job[w].user] = (job[w].times \ {job[w].cat}) \cup later]
      BY <1>9 DEF Schedule
    <3>2. (job[w].times \ {job[w].cat}) \cup later \in SUBSET Cats
      BY <2>1
    <3>3. QED
      BY <3>1, <3>2 DEF DataOK
  <2>3. QED
    BY <1>9, <2>2 DEF Schedule, DataOK, redis, history
<1>10. ASSUME NEW w \in Workers, TakePayLock(w) PROVE DataOK'
  <2>1. job[w].user \in Users /\ job[w].task \in Tasks
    BY <1>10, <1>1 DEF TakePayLock, JobOK, ServeSteps, SubmitSteps, StoreSteps, PaySteps
  <2>2. payLocks' \subseteq Users \X Tasks /\ turn' \in [Users \X Tasks -> Nat]
    BY <1>10, <2>1 DEF TakePayLock, DataOK
  <2>3. QED
    BY <1>10, <2>2 DEF TakePayLock, DataOK, appData
<1>11. ASSUME NEW w \in Workers, CachePayment(w) PROVE DataOK'
  <2>1. job[w].user \in Users /\ job[w].task \in Tasks
    BY <1>11, <1>1 DEF CachePayment, JobOK, ServeSteps, SubmitSteps, StoreSteps, PaySteps
  <2>2. [user |-> job[w].user, task |-> job[w].task] \in Request
    BY <2>1 DEF Request
  <2>3. memoCache' \in [Memos -> Request \cup {None}]
    BY <1>11, <2>2 DEF CachePayment, DataOK
  <2>4. QED
    BY <1>11, <2>3 DEF CachePayment, DataOK, appData, history
<1>12. ASSUME NEW w \in Workers, SendPayment(w) PROVE DataOK'
  <2> DEFINE sent == [user |-> job[w].user, task |-> job[w].task, memo |-> job[w].memo,
                      turn |-> job[w].turn, state |-> "sent"]
  <2>1. /\ job[w].user \in Users /\ job[w].task \in Tasks /\ job[w].memo \in Memos
        /\ job[w].turn \in Nat
    BY <1>12, <1>1 DEF SendPayment, JobOK, Job, ServeSteps, SubmitSteps, StoreSteps, PaySteps
  <2>2. sent \in Payment
    BY <2>1 DEF Payment
  <2>3. payments' \in [PayIds -> Payment \cup {None}]
    BY <1>12, <2>2 DEF SendPayment, DataOK
  <2>4. QED
    BY <1>12, <2>3 DEF SendPayment, DataOK, appData, redis, history
<1>13. ASSUME NEW w \in Workers, RecordPayment(w) PROVE DataOK'
  <2> DEFINE row == [user |-> job[w].user, task |-> job[w].task, memo |-> job[w].memo]
  <2>1. job[w].user \in Users /\ job[w].task \in Tasks /\ job[w].memo \in Memos
    BY <1>13, <1>1 DEF RecordPayment, JobOK, ServeSteps, SubmitSteps, StoreSteps, PaySteps
  <2>2. row \in Row
    BY <2>1 DEF Row
  <2>3. txRow' \in [PayIds -> Row \cup {None}]
    BY <1>13, <2>2 DEF RecordPayment, DataOK
  <2>4. QED
    BY <1>13, <2>3 DEF RecordPayment, DataOK, appData, redis, history
<1>14. ASSUME NEW p \in PayIds, Settle(p) PROVE DataOK'
  <2>1. PICK state \in {"settled", "failed"} : payments' = [payments EXCEPT ![p].state = state]
    BY <1>14 DEF Settle
  <2>2. [payments[p] EXCEPT !.state = state] \in Payment
    BY <1>14 DEF Settle, DataOK, Payment
  <2>3. payments' \in [PayIds -> Payment \cup {None}]
    BY <2>1, <2>2 DEF DataOK
  <2>4. QED
    BY <1>14, <2>3 DEF Settle, DataOK, appData, redis, history
<1>15. ASSUME NEW u \in Users, MigrateMemos(u) PROVE DataOK'
  <2>1. NoMemos \in MemoDict
    BY DEF NoMemos, MemoDict
  <2>2. QED
    BY <1>15, <2>1 DEF MigrateMemos, DataOK, redis, history
<1>16. ASSUME NEW u \in Users, NEW c \in Cats, EndCooldown(u, c) \/ ExpireTaskCache(u, c)
       PROVE  DataOK'
  <2>1. CASE EndCooldown(u, c)
    <3>1. cooling[u] \ {c} \in SUBSET Cats
      BY DEF DataOK
    <3>2. cooling' \in [Users -> SUBSET Cats]
      BY <2>1, <3>1 DEF EndCooldown, DataOK
    <3>3. QED
      BY <2>1, <3>2 DEF EndCooldown, DataOK, redis, history
  <2>2. CASE ExpireTaskCache(u, c)
    BY <2>2 DEF ExpireTaskCache, DataOK, appData, history
  <2>3. QED
    BY <1>16, <2>1, <2>2
<1>17. ASSUME NEW u \in Users, NEW t \in Tasks, ExpirePayLock(u, t) PROVE DataOK'
  BY <1>17 DEF ExpirePayLock, DataOK, appData, history
<1>18. ASSUME NEW m \in Memos, ExpireMemoCache(m) PROVE DataOK'
  BY <1>18 DEF ExpireMemoCache, DataOK, appData, history
<1>19. CASE UNCHANGED vars
  BY <1>19 DEF vars, DataOK
<1>20. QED
  BY <1>2, <1>3, <1>5, <1>6, <1>7, <1>8, <1>9, <1>10, <1>11, <1>12, <1>13, <1>14, <1>15,
     <1>16, <1>17, <1>18, <1>19 DEF Next

\* The dicts, the redis keys, the tables and the handlers' variables keep their
\* types, and a handler has set what it uses by the time it uses it.
THEOREM TypeCorrect == Spec => []TypeOK
<1>1. Init => TypeOK
  <2> SUFFICES ASSUME Init PROVE TypeOK
    OBVIOUS
  <2>1. NoMemos \in MemoDict
    BY DEF NoMemos, MemoDict
  <2>2. "idle" \in Steps
    BY DEF Steps
  <2>3. \A w \in Workers : JobOK(w)
    BY DEF Init, JobOK, ServeSteps, SubmitSteps, StoreSteps, PaySteps
  <2>4. QED
    BY <2>1, <2>2, <2>3, NoJobType, PaymentsAssumption DEF Init, TypeOK
<1>2. TypeOK /\ [Next]_vars => TypeOK'
  <2>1. TypeOK <=> DataOK /\ WorkersOK
    BY DEF TypeOK, DataOK, WorkersOK
  <2>2. TypeOK' <=> DataOK' /\ WorkersOK'
    BY DEF TypeOK, DataOK, WorkersOK
  <2>3. QED
    BY <2>1, <2>2, DataStep, WorkersStep
<1>3. QED
  BY <1>1, <1>2, PTL DEF Spec

-----------------------------------------------------------------------------
(* One payment for each turn of holding the payment lock. *)

\* A step that takes no lock, asks for no payment, and lets no worker into the
\* paying part of a submission leaves the invariant alone.
LEMMA LockFrame ==
  ASSUME LockInv,
         UNCHANGED turn,
         \A p \in PayIds : payments'[p] # None =>
           /\ payments[p] # None
           /\ payments'[p].user = payments[p].user
           /\ payments'[p].task = payments[p].task
           /\ payments'[p].turn = payments[p].turn,
         \A v \in Workers : pc'[v] \in PaySteps =>
           /\ pc[v] \in PaySteps
           /\ job'[v].user = job[v].user
           /\ job'[v].task = job[v].task
           /\ job'[v].turn = job[v].turn
  PROVE  LockInv'
<1>1. OnePaymentPerLock'
  BY DEF LockInv, OnePaymentPerLock
<1>2. \A p \in PayIds : payments'[p] # None =>
        payments'[p].turn <= turn'[<<payments'[p].user, payments'[p].task>>]
  BY DEF LockInv
<1>3. ASSUME NEW w \in Workers, pc'[w] \in PaySteps
      PROVE  /\ job'[w].turn <= turn'[<<job'[w].user, job'[w].task>>]
             /\ \A p \in PayIds :
                  /\ payments'[p] # None
                  /\ payments'[p].user = job'[w].user /\ payments'[p].task = job'[w].task
                  => payments'[p].turn # job'[w].turn
             /\ \A v \in Workers \ {w} :
                  /\ pc'[v] \in PaySteps
                  /\ job'[v].user = job'[w].user /\ job'[v].task = job'[w].task
                  => job'[v].turn # job'[w].turn
  BY <1>3 DEF LockInv
<1>4. QED
  BY <1>1, <1>2, <1>3 DEF LockInv

\* A worker outside the paying steps, or at the next of them with the request it
\* had, is no new holder of a turn.
LEMMA MoveFrame ==
  ASSUME WorkersOK, NEW w \in Workers, NEW s,
         pc' = [pc EXCEPT ![w] = s],
         s \notin PaySteps
           \/ /\ pc[w] \in PaySteps /\ job'[w].user = job[w].user
              /\ job'[w].task = job[w].task /\ job'[w].turn = job[w].turn,
         \A v \in Workers \ {w} : job'[v] = job[v]
  PROVE  \A v \in Workers : pc'[v] \in PaySteps =>
           /\ pc[v] \in PaySteps
           /\ job'[v].user = job[v].user
           /\ job'[v].task = job[v].task
           /\ job'[v].turn = job[v].turn
BY DEF WorkersOK

\* Taking the lock starts a turn nothing was paid under.
LEMMA TakeStep ==
  ASSUME TypeOK, LockInv, NEW w \in Workers, TakePayLock(w)
  PROVE  LockInv'
<1> DEFINE u == job[w].user
           t == job[w].task
           k == <<u, t>>
<1>1. u \in Users /\ t \in Tasks /\ k \in Users \X Tasks
  BY DEF TakePayLock, TypeOK, JobOK, ServeSteps, SubmitSteps, StoreSteps, PaySteps
<1>2. turn[k] \in Nat /\ turn'[k] = turn[k] + 1
      /\ \A x \in Users \X Tasks : turn[x] \in Nat /\ turn'[x] \in Nat /\ turn[x] <= turn'[x]
  <2>1. turn \in [Users \X Tasks -> Nat]
    BY DEF TypeOK
  <2>2. turn' = [turn EXCEPT ![k] = turn[k] + 1]
    BY DEF TakePayLock
  <2>3. ASSUME NEW x \in Users \X Tasks
        PROVE  turn[x] \in Nat /\ turn'[x] \in Nat /\ turn[x] <= turn'[x]
    <3>1. turn[x] \in Nat
      BY <2>1
    <3>2. turn'[x] = turn[x] \/ turn'[x] = turn[x] + 1
      BY <2>1, <2>2
    <3>3. QED
      BY <3>1, <3>2
  <2> HIDE DEF k
  <2>4. QED
    BY <1>1, <2>1, <2>2, <2>3
<1>3. payments' = payments
  BY DEF TakePayLock
<1>4. job'[w].user = u /\ job'[w].task = t /\ job'[w].turn = turn[k] + 1
      /\ pc[w] = "lock" /\ pc'[w] = "memo"
      /\ \A v \in Workers \ {w} : job'[v] = job[v] /\ pc'[v] = pc[v]
  <2>1. job[w] \in Job
    BY DEF TypeOK
  <2>2. job' = [job EXCEPT ![w] = [job[w] EXCEPT !.turn = turn[k] + 1]]
    BY DEF TakePayLock, TypeOK
  <2>3. job'[w] = [job[w] EXCEPT !.turn = turn[k] + 1]
    BY <2>2 DEF TypeOK
  <2>4. job'[w].user = u /\ job'[w].task = t /\ job'[w].turn = turn[k] + 1
    BY <2>1, <2>3 DEF Job
  <2>5. QED
    BY <2>2, <2>4 DEF TakePayLock, Goto, TypeOK
<1>5. ASSUME NEW p \in PayIds, payments[p] # None
      PROVE  /\ payments[p].turn \in Nat
             /\ <<payments[p].user, payments[p].task>> \in Users \X Tasks
             /\ payments[p].turn <= turn[<<payments[p].user, payments[p].task>>]
  BY <1>5 DEF TypeOK, Payment, LockInv
<1>6. ASSUME NEW v \in Workers, pc[v] \in PaySteps
      PROVE  /\ job[v].turn \in Nat
             /\ <<job[v].user, job[v].task>> \in Users \X Tasks
             /\ job[v].turn <= turn[<<job[v].user, job[v].task>>]
  <2>1. job[v] \in Job /\ JobOK(v)
    BY DEF TypeOK
  <2>2. QED
    BY <1>6, <2>1 DEF Job, JobOK, LockInv, SubmitSteps
<1>7. OnePaymentPerLock'
  BY <1>3 DEF LockInv, OnePaymentPerLock
<1>8. \A p \in PayIds : payments'[p] # None =>
        payments'[p].turn <= turn'[<<payments'[p].user, payments'[p].task>>]
  <2>1. ASSUME NEW p \in PayIds, payments[p] # None
        PROVE  payments[p].turn <= turn'[<<payments[p].user, payments[p].task>>]
    <3> DEFINE x == <<payments[p].user, payments[p].task>>
    <3>1. x \in Users \X Tasks /\ payments[p].turn \in Nat /\ payments[p].turn <= turn[x]
      BY <1>5, <2>1
    <3>2. turn[x] \in Nat /\ turn'[x] \in Nat /\ turn[x] <= turn'[x]
      BY <1>2, <3>1
    <3> HIDE DEF x
    <3>3. payments[p].turn <= turn'[x]
      BY <3>1, <3>2
    <3>4. QED
      BY <3>3 DEF x
  <2>2. QED
    BY <1>3, <2>1
<1>9. ASSUME NEW v \in Workers, pc'[v] \in PaySteps
      PROVE  /\ job'[v].turn <= turn'[<<job'[v].user, job'[v].task>>]
             /\ \A p \in PayIds :
                  /\ payments'[p] # None
                  /\ payments'[p].user = job'[v].user /\ payments'[p].task = job'[v].task
                  => payments'[p].turn # job'[v].turn
  <2>1. CASE v = w
    <3>1. job'[v].turn = turn'[k] /\ k = <<job'[v].user, job'[v].task>>
      BY <1>2, <1>4, <2>1
    <3>2. ASSUME NEW p \in PayIds, payments[p] # None,
                 payments[p].user = u, payments[p].task = t
          PROVE  payments[p].turn # turn[k] + 1
      <4>1. payments[p].turn \in Nat /\ payments[p].turn <= turn[k]
        BY <1>5, <3>2
      <4> HIDE DEF k
      <4>2. QED
        BY <1>2, <4>1
    <3> HIDE DEF k
    <3>3. job'[v].turn <= turn'[<<job'[v].user, job'[v].task>>]
      BY <3>1, <1>2
    <3>4. QED
      BY <1>3, <1>4, <2>1, <3>2, <3>3
  <2>2. CASE v # w
    <3> DEFINE x == <<job[v].user, job[v].task>>
    <3>1. pc[v] \in PaySteps /\ job'[v] = job[v]
      BY <1>4, <1>9, <2>2
    <3>2. x \in Users \X Tasks /\ job[v].turn \in Nat /\ job[v].turn <= turn[x]
      BY <1>6, <3>1
    <3>3. turn[x] \in Nat /\ turn'[x] \in Nat /\ turn[x] <= turn'[x]
      BY <1>2, <3>2
    <3> HIDE DEF x
    <3>4. job[v].turn <= turn'[x]
      BY <3>2, <3>3
    <3>5. QED
      BY <1>3, <3>1, <3>4 DEF x, LockInv
  <2>3. QED
    BY <2>1, <2>2
<1>10. ASSUME NEW v \in Workers, NEW x \in Workers \ {v},
              pc'[v] \in PaySteps, pc'[x] \in PaySteps,
              job'[x].user = job'[v].user, job'[x].task = job'[v].task
       PROVE  job'[x].turn # job'[v].turn
  <2>1. ASSUME NEW y \in Workers \ {w}, pc[y] \in PaySteps, job[y].user = u, job[y].task = t
        PROVE  job[y].turn # turn[k] + 1
    <3>1. job[y].turn \in Nat /\ job[y].turn <= turn[k]
      BY <1>6, <2>1
    <3> HIDE DEF k
    <3>2. QED
      BY <1>2, <3>1
  <2>2. CASE v = w
    BY <1>4, <1>10, <2>1, <2>2
  <2>3. CASE x = w
    BY <1>4, <1>10, <2>1, <2>3
  <2>4. CASE v # w /\ x # w
    BY <1>4, <1>10, <2>4 DEF LockInv
  <2>5. QED
    BY <2>2, <2>3, <2>4
<1>11. QED
  BY <1>7, <1>8, <1>9, <1>10 DEF LockInv

\* Asking for a payment ends the request whose turn it is paid under.
LEMMA SendStep ==
  ASSUME TypeOK, LockInv, NEW w \in Workers, SendPayment(w)
  PROVE  LockInv'
<1>1. turn' = turn /\ pc[w] \in PaySteps /\ pc' = [pc EXCEPT ![w] = "idle"]
      /\ \A v \in Workers \ {w} : job'[v] = job[v]
  BY DEF SendPayment, history, Finish, Goto, PaySteps, TypeOK
<1>2. \A v \in Workers : pc'[v] \in PaySteps =>
        v # w /\ pc[v] \in PaySteps /\ job'[v] = job[v]
  BY <1>1 DEF TypeOK, PaySteps
<1>3. CASE UNCHANGED payments
  BY <1>1, <1>2, <1>3, LockFrame
<1>4. ASSUME NEW q \in PayIds, payments[q] = None,
             payments' = [payments EXCEPT ![q] =
               [user |-> job[w].user, task |-> job[w].task, memo |-> job[w].memo,
                turn |-> job[w].turn, state |-> "sent"]]
      PROVE  LockInv'
  <2>1. /\ payments'[q].user = job[w].user /\ payments'[q].task = job[w].task
        /\ payments'[q].turn = job[w].turn
        /\ \A p \in PayIds \ {q} : payments'[p] = payments[p]
    BY <1>4 DEF TypeOK
  <2>2. ASSUME NEW p \in PayIds \ {q}, payments'[p] # None,
               payments'[p].user = job[w].user, payments'[p].task = job[w].task
        PROVE  payments'[p].turn # job[w].turn
    <3>1. payments'[p] = payments[p]
      BY <2>1
    <3>2. QED
      BY <1>1, <2>2, <3>1 DEF LockInv
  <2>3. OnePaymentPerLock'
    <3>1. ASSUME NEW p \in PayIds, NEW r \in PayIds,
                 payments'[p] # None, payments'[r] # None,
                 payments'[p].user = payments'[r].user, payments'[p].task = payments'[r].task,
                 payments'[p].turn = payments'[r].turn
          PROVE  p = r
      <4>1. CASE p # q /\ r # q
        BY <2>1, <3>1, <4>1 DEF LockInv, OnePaymentPerLock
      <4>2. CASE p = q /\ r # q
        BY <2>1, <2>2, <3>1, <4>2
      <4>3. CASE p # q /\ r = q
        BY <2>1, <2>2, <3>1, <4>3
      <4>4. QED
        BY <4>1, <4>2, <4>3
    <3>2. QED
      BY <3>1 DEF OnePaymentPerLock
  <2>4. ASSUME NEW p \in PayIds, payments'[p] # None
        PROVE  payments'[p].turn <= turn'[<<payments'[p].user, payments'[p].task>>]
    <3>1. CASE p = q
      BY <1>1, <2>1, <3>1 DEF LockInv
    <3>2. CASE p # q
      BY <1>1, <2>1, <2>4, <3>2 DEF LockInv
    <3>3. QED
      BY <3>1, <3>2
  <2>5. ASSUME NEW v \in Workers, pc'[v] \in PaySteps
        PROVE  /\ job'[v].turn <= turn'[<<job'[v].user, job'[v].task>>]
               /\ \A p \in PayIds :
                    /\ payments'[p] # None
                    /\ payments'[p].user = job'[v].user /\ payments'[p].task = job'[v].task
                    => payments'[p].turn # job'[v].turn
               /\ \A x \in Workers \ {v} :
                    /\ pc'[x] \in PaySteps
                    /\ job'[x].user = job'[v].user /\ job'[x].task = job'[v].task
                    => job'[x].turn # job'[v].turn
    <3>1. v # w /\ pc[v] \in PaySteps /\ job'[v] = job[v]
      BY <1>2, <2>5
    <3>2. job'[v].turn <= turn'[<<job'[v].user, job'[v].task>>]
      BY <1>1, <3>1 DEF LockInv
    <3>3. ASSUME NEW p \in PayIds, payments'[p] # None,
                 payments'[p].user = job'[v].user, payments'[p].task = job'[v].task
          PROVE  payments'[p].turn # job'[v].turn
      <4>1. CASE p = q
        <5>1. job[v].user = job[w].user /\ job[v].task = job[w].task
          BY <2>1, <3>1, <3>3, <4>1
        <5>2. job[v].turn # job[w].turn
          BY <1>1, <3>1, <5>1 DEF LockInv
        <5>3. QED
          BY <2>1, <3>1, <4>1, <5>2
      <4>2. CASE p # q
        BY <2>1, <3>1, <3>3, <4>2 DEF LockInv
      <4>3. QED
        BY <4>1, <4>2
    <3>4. ASSUME NEW x \in Workers \ {v}, pc'[x] \in PaySteps,
                 job'[x].user = job'[v].user, job'[x].task = job'[v].task
          PROVE  job'[x].turn # job'[v].turn
      BY <1>2, <3>1, <3>4 DEF LockInv
    <3>5. QED
      BY <3>2, <3>3, <3>4
  <2>6. QED
    BY <2>3, <2>4, <2>5 DEF LockInv
<1>5. QED
  BY <1>3, <1>4 DEF SendPayment

\* Every step preserves the invariant.
LEMMA LockStep ==
  ASSUME TypeOK, LockInv, [Next]_vars
  PROVE  LockInv'
<1> USE DEF history
<1>1. WorkersOK /\ DataOK
  BY DEF TypeOK, WorkersOK, DataOK
<1>2. ASSUME NEW w \in Workers, TakePayLock(w) PROVE LockInv'
  BY <1>2, TakeStep
<1>3. ASSUME NEW w \in Workers, SendPayment(w) PROVE LockInv'
  BY <1>3, SendStep
<1>4. ASSUME NEW w \in Workers, NEW s, UNCHANGED <<payments, turn>>,
             pc' = [pc EXCEPT ![w] = s],
             s \notin PaySteps
               \/ /\ pc[w] \in PaySteps /\ job'[w].user = job[w].user
                  /\ job'[w].task = job[w].task /\ job'[w].turn = job[w].turn,
             \A v \in Workers \ {w} : job'[v] = job[v]
      PROVE  LockInv'
  BY <1>1, <1>4, MoveFrame, LockFrame
<1>5. ASSUME NEW w \in Workers, UNCHANGED <<payments, turn>>,
             NEW s \in Steps \ PaySteps, pc' = [pc EXCEPT ![w] = s],
             \A v \in Workers \ {w} : job'[v] = job[v]
      PROVE  LockInv'
  BY <1>4, <1>5
<1>6. ASSUME NEW w \in Workers, UNCHANGED <<payments, turn>>, Finish(w)
      PROVE  LockInv'
  <2>1. "idle" \in Steps \ PaySteps
    BY DEF Steps, PaySteps
  <2>2. QED
    BY <1>1, <1>5, <1>6, <2>1 DEF Finish, Goto, WorkersOK
<1>7. {"select", "mint", "fill", "check", "lookup", "load", "complete", "next", "mintnext",
       "schedule", "lock", "record"} \subseteq Steps \ PaySteps
  BY DEF Steps, ServeSteps, SubmitSteps, StoreSteps, PaySteps
<1>8. ASSUME NEW w \in Workers,
             \/ \E u \in Users, c \in Cats : GetTask(w, u, c)
             \/ \E u \in Users, t \in Tasks : SubmitResults(w, u, t)
             \/ \E p \in PayIds : ReceiveCallback(w, p)
      PROVE  LockInv'
  BY <1>1, <1>5, <1>7, <1>8 DEF GetTask, SubmitResults, ReceiveCallback, Goto, WorkersOK
<1>9. ASSUME NEW w \in Workers, SelectTask(w) \/ LoadNext(w) PROVE LockInv'
  BY <1>1, <1>5, <1>7, <1>9 DEF SelectTask, LoadNext, Goto, WorkersOK
<1>10. ASSUME NEW w \in Workers, MintMemo(w) PROVE LockInv'
  BY <1>1, <1>5, <1>7, <1>10 DEF MintMemo, Goto, WorkersOK
<1>11. ASSUME NEW w \in Workers,
              \/ FillCache(w) \/ RejectPremature(w) \/ AlreadyCompensating(w)
              \/ RecordPayment(w) \/ Crash(w)
       PROVE  LockInv'
  BY <1>6, <1>11 DEF FillCache, RejectPremature, AlreadyCompensating, RecordPayment, Crash
<1>12. ASSUME NEW w \in Workers,
              PassCooldown(w) \/ LookupPayment(w) \/ LoadCompleted(w) \/ MarkCompleted(w)
       PROVE  LockInv'
  BY <1>1, <1>5, <1>7, <1>12
  DEF PassCooldown, LookupPayment, LoadCompleted, MarkCompleted, Goto, WorkersOK
<1>13. ASSUME NEW w \in Workers, Schedule(w) PROVE LockInv'
  <2>1. UNCHANGED <<payments, turn>>
    BY <1>13 DEF Schedule
  <2>2. CASE Finish(w)
    BY <1>6, <2>1, <2>2
  <2>3. CASE Goto(w, "lock") /\ job' = [job EXCEPT ![w].times = {}]
    BY <1>1, <1>5, <1>7, <2>1, <2>3 DEF Goto, WorkersOK
  <2>4. QED
    BY <1>13, <2>2, <2>3 DEF Schedule
<1>14. ASSUME NEW w \in Workers, TakeMemo(w) PROVE LockInv'
  <2> DEFINE dict == nextMemo[job[w].user]
             j == [job[w] EXCEPT !.memos = dict, !.memo = dict[job[w].cat]]
  <2>1. UNCHANGED <<payments, turn>> /\ pc[w] \in PaySteps
    BY <1>14 DEF TakeMemo, PaySteps
  <2>2. CASE Finish(w)
    BY <1>6, <2>1, <2>2
  <2>3. CASE Goto(w, "replace") /\ job' = [job EXCEPT ![w] = j]
    <3>1. job'[w] = j /\ \A v \in Workers \ {w} : job'[v] = job[v]
      BY <1>1, <2>3 DEF WorkersOK
    <3>2. job'[w].user = job[w].user /\ job'[w].task = job[w].task
          /\ job'[w].turn = job[w].turn
      BY <1>1, <3>1 DEF WorkersOK, Job
    <3>3. QED
      BY <1>4, <2>1, <2>3, <3>1, <3>2 DEF Goto
  <2>4. QED
    BY <1>14, <2>2, <2>3 DEF TakeMemo
<1>15. ASSUME NEW w \in Workers, ReplaceMemo(w) PROVE LockInv'
  <2>1. UNCHANGED <<payments, turn>> /\ pc[w] \in PaySteps
    BY <1>15 DEF ReplaceMemo, PaySteps
  <2>2. job'[w] = [job[w] EXCEPT !.memos = NoMemos] /\ \A v \in Workers \ {w} : job'[v] = job[v]
    BY <1>1, <1>15 DEF ReplaceMemo, WorkersOK
  <2>3. job'[w].user = job[w].user /\ job'[w].task = job[w].task /\ job'[w].turn = job[w].turn
    BY <1>1, <2>2 DEF WorkersOK, Job
  <2>4. QED
    BY <1>4, <1>15, <2>1, <2>2, <2>3 DEF ReplaceMemo, Goto
<1>16. ASSUME NEW w \in Workers, CachePayment(w) PROVE LockInv'
  <2>1. UNCHANGED <<payments, turn, job>> /\ pc[w] \in PaySteps
    BY <1>16 DEF CachePayment, PaySteps
  <2>2. QED
    BY <1>4, <1>16, <2>1 DEF CachePayment, Goto
<1>17. ASSUME NEW p \in PayIds, Settle(p) PROVE LockInv'
  <2>1. UNCHANGED <<turn, pc, job>> /\ payments[p] \in Payment
    BY <1>1, <1>17 DEF Settle, DataOK
  <2>2. PICK state : payments' = [payments EXCEPT ![p].state = state]
    BY <1>17 DEF Settle
  <2>3. /\ payments'[p].user = payments[p].user /\ payments'[p].task = payments[p].task
        /\ payments'[p].turn = payments[p].turn
        /\ \A q \in PayIds \ {p} : payments'[q] = payments[q]
    BY <1>1, <2>1, <2>2 DEF DataOK, Payment
  <2>4. payments[p] # None
    BY <1>17 DEF Settle
  <2>5. QED
    BY <2>1, <2>3, <2>4, LockFrame
<1>18. ASSUME UNCHANGED <<payments, turn, pc, job>> PROVE LockInv'
  BY <1>18, LockFrame
<1>19. QED
  BY <1>2, <1>3, <1>8, <1>9, <1>10, <1>11, <1>12, <1>13, <1>14, <1>15, <1>16, <1>17, <1>18
  DEF Next, vars, MigrateMemos, EndCooldown, ExpireTaskCache, ExpirePayLock, ExpireMemoCache

\* Whatever expires and however requests interleave, the task is paid for at most
\* once each time its payment lock is taken: a second payment needs an expiry.
THEOREM PaidUnderLock == Spec => []OnePaymentPerLock
<1>1. Init => LockInv
  BY DEF Init, LockInv, OnePaymentPerLock, PaySteps
<1>2. TypeOK /\ LockInv /\ [Next]_vars => LockInv'
  BY LockStep
<1>3. LockInv => OnePaymentPerLock
  BY DEF LockInv
<1>4. QED
  BY <1>1, <1>2, <1>3, TypeCorrect, PTL DEF Spec

-----------------------------------------------------------------------------
(* What the steps of a handler do to its own request. *)

\* Only w takes a step.
Alone(w) == \A v \in Workers \ {w} : pc'[v] = pc[v] /\ job'[v] = job[v]

\* A handler that ends is idle with no local variables.
LEMMA FinishEffect ==
  ASSUME TypeOK, NEW w \in Workers, Finish(w)
  PROVE  Alone(w) /\ pc'[w] = "idle" /\ job'[w] = NoJob
BY DEF TypeOK, Finish, Goto, Alone

\* A request begins.
LEMMA GetTaskEffect ==
  ASSUME TypeOK, NEW w \in Workers, NEW u \in Users, NEW c \in Cats, GetTask(w, u, c)
  PROVE  /\ Alone(w) /\ pc'[w] = "select" /\ job'[w].user = u /\ job'[w].cat = c
<1>1. Alone(w) /\ pc'[w] = "select" /\ job'[w] = [NoJob EXCEPT !.user = u, !.cat = c]
  BY DEF TypeOK, GetTask, Goto, Alone
<1>2. QED
  BY <1>1, NoJobType DEF Job

\* A submission begins.
LEMMA SubmitEffect ==
  ASSUME TypeOK, NEW w \in Workers, NEW u \in Users, NEW t \in Tasks, SubmitResults(w, u, t)
  PROVE  /\ Alone(w) /\ pc'[w] = "check" /\ job'[w].user = u /\ job'[w].task = t
         /\ job'[w].cat = CatOf[t]
<1>1. /\ Alone(w) /\ pc'[w] = "check"
      /\ job'[w] = [NoJob EXCEPT !.user = u, !.task = t, !.cat = CatOf[t]]
  BY DEF TypeOK, SubmitResults, Goto, Alone
<1>2. QED
  BY <1>1, NoJobType DEF Job

\* A task is chosen; the dict of memos is copied when a memo is to be minted.
LEMMA SelectEffect ==
  ASSUME TypeOK, NEW w \in Workers, SelectTask(w)
  PROVE  /\ Alone(w) /\ pc[w] = "select" /\ pc'[w] \in {"mint", "fill"}
         /\ job'[w].user = job[w].user /\ job'[w].cat = job[w].cat
         /\ job'[w].task \in (Tasks \ completed[job[w].user]) \cup {Empty}
         /\ pc'[w] = "mint" => job'[w].memos = nextMemo[job[w].user]
<1>1. pc[w] = "select" /\ job[w] \in Job
  BY DEF SelectTask, TypeOK
<1>2. PICK t \in (TasksOf(job[w].cat) \ completed[job[w].user]) \cup {Empty} :
        \/ job' = [job EXCEPT ![w].task = t, ![w].memos = nextMemo[job[w].user]]
           /\ Goto(w, "mint")
        \/ job' = [job EXCEPT ![w].task = t] /\ Goto(w, "fill")
  BY DEF SelectTask
<1>3. t \in (Tasks \ completed[job[w].user]) \cup {Empty}
  BY DEF TasksOf
<1>4. CASE job' = [job EXCEPT ![w].task = t, ![w].memos = nextMemo[job[w].user]]
           /\ Goto(w, "mint")
  <2>1. /\ Alone(w) /\ pc'[w] = "mint"
        /\ job'[w] = [job[w] EXCEPT !.task = t, !.memos = nextMemo[job[w].user]]
    BY <1>4 DEF TypeOK, Goto, Alone
  <2>2. QED
    BY <1>1, <1>3, <2>1 DEF Job
<1>5. CASE job' = [job EXCEPT ![w].task = t] /\ Goto(w, "fill")
  <2>1. Alone(w) /\ pc'[w] = "fill" /\ job'[w] = [job[w] EXCEPT !.task = t]
    BY <1>5 DEF TypeOK, Goto, Alone
  <2>2. QED
    BY <1>1, <1>3, <2>1 DEF Job
<1>6. QED
  BY <1>2, <1>4, <1>5

\* A memo is minted, and the request goes on.
LEMMA MintEffect ==
  ASSUME TypeOK, NEW w \in Workers, MintMemo(w)
  PROVE  /\ Alone(w)
         /\ \/ pc[w] = "mint" /\ pc'[w] = "fill"
            \/ pc[w] = "mintnext" /\ pc'[w] = "schedule"
         /\ job'[w].user = job[w].user /\ job'[w].cat = job[w].cat
         /\ job'[w].task = job[w].task /\ job'[w].paid = job[w].paid
<1>1. job[w] \in Job
  BY DEF TypeOK
<1>2. CASE pc[w] = "mint" /\ job' = [job EXCEPT ![w].memos = NoMemos] /\ Goto(w, "fill")
  <2>1. Alone(w) /\ pc'[w] = "fill" /\ job'[w] = [job[w] EXCEPT !.memos = NoMemos]
    BY <1>2 DEF TypeOK, Goto, Alone
  <2>2. QED
    BY <1>1, <1>2, <2>1 DEF Job
<1>3. CASE /\ pc[w] = "mintnext" /\ Goto(w, "schedule")
           /\ job' = [job EXCEPT ![w].memos = NoMemos, ![w].times = cooling[job[w].user]]
  <2> DEFINE times == cooling[job[w].user]
  <2>1. /\ Alone(w) /\ pc'[w] = "schedule"
        /\ job'[w] = [job[w] EXCEPT !.memos = NoMemos, !.times = times]
    BY <1>3 DEF TypeOK, Goto, Alone
  <2> HIDE DEF times
  <2>2. /\ job'[w].user = job[w].user /\ job'[w].cat = job[w].cat
        /\ job'[w].task = job[w].task /\ job'[w].paid = job[w].paid
    BY <1>1, <2>1 DEF Job
  <2>3. QED
    BY <1>3, <2>1, <2>2
<1>4. QED
  BY <1>2, <1>3 DEF MintMemo

\* The steps between the resubmission check and the payment lock.
LEMMA StoreEffect ==
  ASSUME TypeOK, NEW w \in Workers,
         \/ PassCooldown(w) \/ LookupPayment(w) \/ LoadCompleted(w) \/ MarkCompleted(w)
         \/ LoadNext(w)
  PROVE  /\ Alone(w)
         /\ \/ pc[w] = "check" /\ pc'[w] = "lookup" /\ job'[w].paid = job[w].paid
            \/ /\ pc[w] = "lookup" /\ pc'[w] = "load"
               /\ job'[w].paid = AlreadyPaid(job[w].user, job[w].task)
            \/ /\ pc[w] = "load" /\ pc'[w] = "complete" /\ job'[w].paid = job[w].paid
               /\ job'[w].seen = completed[job[w].user]
            \/ pc[w] = "complete" /\ pc'[w] = "next" /\ job'[w].paid = job[w].paid
            \/ pc[w] = "next" /\ pc'[w] = "schedule" /\ job'[w].paid = job[w].paid
            \/ /\ pc[w] = "next" /\ pc'[w] = "mintnext" /\ job'[w].paid = job[w].paid
               /\ job'[w].memos = nextMemo[job[w].user]
         /\ job'[w].user = job[w].user /\ job'[w].cat = job[w].cat
         /\ job'[w].task = job[w].task
<1>1. job[w] \in Job
  BY DEF TypeOK
<1>2. CASE PassCooldown(w)
  BY <1>2 DEF PassCooldown, TypeOK, Goto, Alone
<1>3. CASE LookupPayment(w)
  <2> DEFINE found == AlreadyPaid(job[w].user, job[w].task)
  <2>1. /\ Alone(w) /\ pc[w] = "lookup" /\ pc'[w] = "load"
        /\ job'[w] = [job[w] EXCEPT !.paid = found]
    BY <1>3 DEF LookupPayment, TypeOK, Goto, Alone
  <2> HIDE DEF found
  <2>2. /\ job'[w].paid = found /\ job'[w].user = job[w].user /\ job'[w].cat = job[w].cat
        /\ job'[w].task = job[w].task
    BY <1>1, <2>1 DEF Job
  <2>3. QED
    BY <2>1, <2>2 DEF found
<1>4. CASE LoadCompleted(w)
  <2>1. /\ Alone(w) /\ pc[w] = "load" /\ pc'[w] = "complete"
        /\ job'[w] = [job[w] EXCEPT !.seen = completed[job[w].user]]
    BY <1>4 DEF LoadCompleted, TypeOK, Goto, Alone
  <2>2. QED
    BY <1>1, <2>1 DEF Job
<1>5. CASE MarkCompleted(w)
  <2>1. /\ Alone(w) /\ pc[w] = "complete" /\ pc'[w] = "next"
        /\ job'[w] = [job[w] EXCEPT !.seen = {}]
    BY <1>5 DEF MarkCompleted, TypeOK, Goto, Alone
  <2>2. QED
    BY <1>1, <2>1 DEF Job
<1>6. CASE LoadNext(w)
  <2>1. /\ Alone(w) /\ pc[w] = "next"
        /\ \/ pc'[w] = "schedule" /\ job'[w] = [job[w] EXCEPT !.times = cooling[job[w].user]]
           \/ pc'[w] = "mintnext" /\ job'[w] = [job[w] EXCEPT !.memos = nextMemo[job[w].user]]
    BY <1>6 DEF LoadNext, TypeOK, Goto, Alone
  <2>2. QED
    BY <1>1, <2>1 DEF Job
<1>7. QED
  BY <1>2, <1>3, <1>4, <1>5, <1>6

\* The end of storing results, and the lock: the handler ends or goes on to pay.
LEMMA LockEffect ==
  ASSUME TypeOK, NEW w \in Workers, Schedule(w) \/ TakePayLock(w)
  PROVE  /\ Alone(w)
         /\ \/ pc[w] = "schedule" /\ pc'[w] = "idle"
            \/ /\ pc[w] = "schedule" /\ pc'[w] = "lock" /\ ~job[w].paid
               /\ job'[w].user = job[w].user /\ job'[w].task = job[w].task
               /\ job'[w].cat = job[w].cat
            \/ /\ pc[w] = "lock" /\ pc'[w] = "memo"
               /\ job'[w].user = job[w].user /\ job'[w].task = job[w].task
               /\ job'[w].cat = job[w].cat
<1>1. job[w] \in Job
  BY DEF TypeOK
<1>2. CASE Schedule(w)
  <2>1. CASE Finish(w)
    BY <1>2, <2>1, FinishEffect DEF Schedule
  <2>2. CASE ~job[w].paid /\ Goto(w, "lock") /\ job' = [job EXCEPT ![w].times = {}]
    <3>1. Alone(w) /\ pc'[w] = "lock" /\ job'[w] = [job[w] EXCEPT !.times = {}]
      BY <2>2 DEF TypeOK, Goto, Alone
    <3>2. QED
      BY <1>1, <1>2, <2>2, <3>1 DEF Job, Schedule
  <2>3. QED
    BY <1>2, <2>1, <2>2 DEF Schedule
<1>3. CASE TakePayLock(w)
  <2> DEFINE n == turn[<<job[w].user, job[w].task>>] + 1
  <2>1. /\ Alone(w) /\ pc[w] = "lock" /\ pc'[w] = "memo"
        /\ job'[w] = [job[w] EXCEPT !.turn = n]
    BY <1>3 DEF TakePayLock, TypeOK, Goto, Alone
  <2> HIDE DEF n
  <2>2. QED
    BY <1>1, <2>1 DEF Job
<1>4. QED
  BY <1>2, <1>3

\* The steps that hold the lock.
LEMMA PayEffect ==
  ASSUME TypeOK, NEW w \in Workers, TakeMemo(w) \/ ReplaceMemo(w) \/ CachePayment(w)
  PROVE  /\ Alone(w)
         /\ \/ pc[w] = "memo" /\ pc'[w] = "idle"
            \/ /\ pc[w] = "memo" /\ pc'[w] = "replace"
               /\ job'[w].memos = nextMemo[job[w].user]
               /\ job'[w].memo = nextMemo[job[w].user][job[w].cat]
               /\ job'[w].user = job[w].user /\ job'[w].task = job[w].task
               /\ job'[w].cat = job[w].cat
            \/ /\ \/ pc[w] = "replace" /\ pc'[w] = "announce"
                  \/ pc[w] = "announce" /\ pc'[w] = "send"
               /\ job'[w].user = job[w].user /\ job'[w].task = job[w].task
               /\ job'[w].cat = job[w].cat /\ job'[w].memo = job[w].memo
<1>1. job[w] \in Job
  BY DEF TypeOK
<1>2. CASE TakeMemo(w)
  <2> DEFINE dict == nextMemo[job[w].user]
             m == dict[job[w].cat]
  <2>1. pc[w] = "memo"
    BY <1>2 DEF TakeMemo
  <2>2. CASE Finish(w)
    BY <2>1, <2>2, FinishEffect
  <2>3. CASE Goto(w, "replace") /\ job' = [job EXCEPT ![w].memos = dict, ![w].memo = m]
    <3>1. /\ Alone(w) /\ pc'[w] = "replace"
          /\ job'[w] = [job[w] EXCEPT !.memos = dict, !.memo = m]
      BY <2>3 DEF TypeOK, Goto, Alone
    <3> HIDE DEF dict, m
    <3>2. /\ job'[w].memos = dict /\ job'[w].memo = m
          /\ job'[w].user = job[w].user /\ job'[w].task = job[w].task
          /\ job'[w].cat = job[w].cat
      BY <1>1, <3>1 DEF Job
    <3>3. QED
      BY <2>1, <3>1, <3>2 DEF dict, m
  <2>4. QED
    BY <1>2, <2>2, <2>3 DEF TakeMemo
<1>3. CASE ReplaceMemo(w)
  <2>1. /\ Alone(w) /\ pc[w] = "replace" /\ pc'[w] = "announce"
        /\ job'[w] = [job[w] EXCEPT !.memos = NoMemos]
    BY <1>3 DEF ReplaceMemo, TypeOK, Goto, Alone
  <2>2. QED
    BY <1>1, <2>1 DEF Job
<1>4. CASE CachePayment(w)
  BY <1>4 DEF CachePayment, TypeOK, Goto, Alone
<1>5. QED
  BY <1>2, <1>3, <1>4

\* A callback begins.
LEMMA CallbackEffect ==
  ASSUME TypeOK, NEW w \in Workers, NEW p \in PayIds, ReceiveCallback(w, p)
  PROVE  /\ Alone(w) /\ pc'[w] = "record" /\ payments[p] # None
         /\ memoCache[payments[p].memo] # None
         /\ job'[w].user = memoCache[payments[p].memo].user
         /\ job'[w].task = memoCache[payments[p].memo].task
         /\ job'[w].memo = payments[p].memo /\ job'[w].pay = p
<1> DEFINE entry == memoCache[payments[p].memo]
           m == payments[p].memo
<1>1. /\ Alone(w) /\ pc'[w] = "record" /\ payments[p] # None /\ entry # None
      /\ job'[w] = [NoJob EXCEPT !.user = entry.user, !.task = entry.task, !.memo = m,
                                 !.pay = p]
  BY DEF TypeOK, ReceiveCallback, Goto, Alone
<1> HIDE DEF entry, m
<1>2. /\ job'[w].user = entry.user /\ job'[w].task = entry.task /\ job'[w].memo = m
      /\ job'[w].pay = p
  BY <1>1, NoJobType DEF Job
<1>3. QED
  BY <1>1, <1>2 DEF entry, m

\* The steps with which a handler ends.
LEMMA EndEffect ==
  ASSUME TypeOK, NEW w \in Workers,
         \/ FillCache(w) \/ RejectPremature(w) \/ AlreadyCompensating(w)
         \/ SendPayment(w) \/ RecordPayment(w) \/ Crash(w)
  PROVE  Alone(w) /\ pc'[w] = "idle" /\ job'[w] = NoJob
<1>1. Finish(w)
  BY DEF FillCache, RejectPremature, AlreadyCompensating, SendPayment, RecordPayment, Crash
<1>2. QED
  BY <1>1, FinishEffect

-----------------------------------------------------------------------------
(* A callback records what was sent. *)

InRequest(w) == pc[w] \in ServeSteps \cup SubmitSteps

\* A user's requests do not overlap.
OneRequest ==
  \A v, w \in Workers :
    InRequest(v) /\ InRequest(w) /\ job[v].user = job[w].user => v = w

\* Nobody was, is being or is about to be paid under the memo.
Unspent(m) ==
  /\ memoCache[m] = None
  /\ \A p \in PayIds : payments[p] # None => payments[p].memo # m
  /\ \A w \in Workers : pc[w] \in {"announce", "send"} => job[w].memo # m

\* The memos waiting in the dicts are their user's, all different, and unspent.
DictsInv ==
  /\ \A u \in Users, c \in Cats : nextMemo[u][c] # None =>
       memoOwner[nextMemo[u][c]] = u /\ Unspent(nextMemo[u][c])
  /\ \A u \in Users : \A c, d \in Cats :
       nextMemo[u][c] # None /\ nextMemo[u][c] = nextMemo[u][d] => c = d

\* A handler's copy of the dict is current when it writes the dict, and the memo
\* it took is its user's, and paid for nothing else.
HandlerInv(w) ==
  /\ pc[w] \in {"mint", "mintnext", "replace"} => job[w].memos = nextMemo[job[w].user]
  /\ pc[w] = "replace" => job[w].memo = nextMemo[job[w].user][job[w].cat]
  /\ pc[w] \in {"announce", "send"} =>
       /\ memoOwner[job[w].memo] = job[w].user
       /\ memoCache[job[w].memo] \in {None, [user |-> job[w].user, task |-> job[w].task]}
       /\ \A p \in PayIds : payments[p] # None => payments[p].memo # job[w].memo
  /\ pc[w] = "record" =>
       /\ payments[job[w].pay] # None
       /\ payments[job[w].pay].user = job[w].user
       /\ payments[job[w].pay].task = job[w].task
       /\ payments[job[w].pay].memo = job[w].memo

HandlersInv == \A w \in Workers : HandlerInv(w)

\* Payments have memos of their own, and the cache what they were asked for.
SentInv ==
  /\ \A m \in Memos : memoCache[m] # None => memoOwner[m] # None
  /\ \A p \in PayIds : payments[p] # None =>
       /\ memoOwner[payments[p].memo] # None
       /\ memoCache[payments[p].memo]
            \in {None, [user |-> payments[p].user, task |-> payments[p].task]}
  /\ \A p, q \in PayIds :
       payments[p] # None /\ payments[q] # None /\ payments[p].memo = payments[q].memo
         => p = q

MemoInv == OneRequest /\ DictsInv /\ HandlersInv /\ SentInv /\ RecordedAsSent

\* The steps of a request, and those at which HandlerInv says something.
LEMMA StepSets ==
  /\ ServeSteps = {"select", "mint", "fill"}
  /\ StoreSteps = {"load", "complete", "next", "mintnext", "schedule"}
  /\ PaySteps = {"memo", "replace", "announce", "send"}
  /\ SubmitSteps = {"check", "lookup", "load", "complete", "next", "mintnext", "schedule",
                    "lock", "memo", "replace", "announce", "send"}
BY DEF ServeSteps, StoreSteps, PaySteps, SubmitSteps

\* No request begins.
LEMMA RequestFrame ==
  ASSUME OneRequest,
         \A v \in Workers : InRequest(v)' => InRequest(v) /\ job'[v].user = job[v].user
  PROVE  OneRequest'
BY DEF OneRequest

\* A worker goes on with its request, or ends it.
LEMMA RequestMoves ==
  ASSUME OneRequest, NEW w \in Workers, Alone(w),
         pc'[w] \in {"idle", "record"} \/ (InRequest(w) /\ job'[w].user = job[w].user)
  PROVE  OneRequest'
<1>1. ~InRequest(w)' \/ (InRequest(w) /\ job'[w].user = job[w].user)
  BY StepSets DEF InRequest
<1>2. \A v \in Workers \ {w} : InRequest(v)' => InRequest(v) /\ job'[v].user = job[v].user
  BY DEF Alone, InRequest
<1>3. QED
  BY <1>1, <1>2, RequestFrame

\* A request of a user who has none in progress begins.
LEMMA RequestBegins ==
  ASSUME OneRequest, Serial, NEW w \in Workers, NEW u \in Users, MayCall(u), Alone(w),
         job'[w].user = u
  PROVE  OneRequest'
<1>1. \A v \in Workers \ {w} :
        InRequest(v)' => InRequest(v) /\ job'[v].user = job[v].user /\ job[v].user # u
  BY DEF Alone, InRequest, MayCall, UserBusy
<1>2. QED
  BY <1>1 DEF OneRequest

\* Requests of a user do not begin to overlap.
LEMMA RequestStep ==
  ASSUME TypeOK, Serial, OneRequest, [Next]_vars
  PROVE  OneRequest'
<1>1. ASSUME NEW w \in Workers, NEW u \in Users, NEW c \in Cats, GetTask(w, u, c)
      PROVE  OneRequest'
  BY <1>1, GetTaskEffect, RequestBegins DEF GetTask
<1>2. ASSUME NEW w \in Workers, NEW u \in Users, NEW t \in Tasks, SubmitResults(w, u, t)
      PROVE  OneRequest'
  BY <1>2, SubmitEffect, RequestBegins DEF SubmitResults
<1>3. ASSUME NEW w \in Workers, NEW p \in PayIds, ReceiveCallback(w, p) PROVE OneRequest'
  BY <1>3, CallbackEffect, RequestMoves
<1>4. ASSUME NEW w \in Workers, SelectTask(w) \/ MintMemo(w) PROVE OneRequest'
  <2>1. Alone(w) /\ InRequest(w) /\ job'[w].user = job[w].user
    BY <1>4, SelectEffect, MintEffect, StepSets DEF InRequest
  <2>2. QED
    BY <2>1, RequestMoves
<1>5. ASSUME NEW w \in Workers,
             \/ PassCooldown(w) \/ LookupPayment(w) \/ LoadCompleted(w) \/ MarkCompleted(w)
             \/ LoadNext(w)
      PROVE  OneRequest'
  <2>1. Alone(w) /\ InRequest(w) /\ job'[w].user = job[w].user
    BY <1>5, StoreEffect, StepSets DEF InRequest
  <2>2. QED
    BY <2>1, RequestMoves
<1>6. ASSUME NEW w \in Workers, Schedule(w) \/ TakePayLock(w) PROVE OneRequest'
  <2>1. Alone(w) /\ (pc'[w] = "idle" \/ (InRequest(w) /\ job'[w].user = job[w].user))
    BY <1>6, LockEffect, StepSets DEF InRequest
  <2>2. QED
    BY <2>1, RequestMoves
<1>7. ASSUME NEW w \in Workers, TakeMemo(w) \/ ReplaceMemo(w) \/ CachePayment(w)
      PROVE  OneRequest'
  <2>1. Alone(w) /\ (pc'[w] = "idle" \/ (InRequest(w) /\ job'[w].user = job[w].user))
    BY <1>7, PayEffect, StepSets DEF InRequest
  <2>2. QED
    BY <2>1, RequestMoves
<1>8. ASSUME NEW w \in Workers,
             \/ FillCache(w) \/ RejectPremature(w) \/ AlreadyCompensating(w)
             \/ SendPayment(w) \/ RecordPayment(w) \/ Crash(w)
      PROVE  OneRequest'
  BY <1>8, EndEffect, RequestMoves
<1>9. ASSUME UNCHANGED <<pc, job>> PROVE OneRequest'
  BY <1>9 DEF OneRequest, InRequest
<1>10. QED
  BY <1>1, <1>2, <1>3, <1>4, <1>5, <1>6, <1>7, <1>8, <1>9
  DEF Next, vars, Settle, MigrateMemos, EndCooldown, ExpireTaskCache, ExpirePayLock,
      ExpireMemoCache

memoVars == <<memoOwner, nextMemo, memoCache, payments, txRow>>

\* A handler moves without touching a memo, and with what HandlerInv asks of it.
LEMMA MemoFrame ==
  ASSUME MemoInv, OneRequest', UNCHANGED memoVars, NEW w \in Workers, Alone(w),
         pc'[w] \notin {"announce", "send"}, HandlerInv(w)'
  PROVE  MemoInv'
<1> USE DEF memoVars
<1>1. ASSUME NEW m, Unspent(m) PROVE Unspent(m)'
  BY <1>1 DEF Unspent, Alone
<1>2. DictsInv'
  BY <1>1 DEF MemoInv, DictsInv
<1>3. ASSUME NEW v \in Workers \ {w} PROVE HandlerInv(v)'
  BY <1>3 DEF MemoInv, HandlersInv, HandlerInv, Alone
<1>4. SentInv' /\ RecordedAsSent'
  BY DEF MemoInv, SentInv, RecordedAsSent
<1>5. QED
  BY <1>2, <1>3, <1>4 DEF MemoInv, HandlersInv

\* The steps MemoFrame covers when HandlerInv asks nothing of the handler after them.
LEMMA MemoIdle ==
  ASSUME MemoInv, OneRequest', UNCHANGED memoVars, NEW w \in Workers, Alone(w),
         pc'[w] \in {"idle", "select", "fill", "check", "lookup", "load", "complete", "next",
                     "schedule", "lock", "memo"}
  PROVE  MemoInv'
<1>1. HandlerInv(w)' /\ pc'[w] \notin {"announce", "send"}
  BY DEF HandlerInv
<1>2. QED
  BY <1>1, MemoFrame

\* A fresh memo goes into the dict in the place of the one there, if any, which
\* the handler may have taken.
LEMMA NewMemoStep ==
  ASSUME TypeOK, MemoInv, OneRequest', NEW w \in Workers, NEW m \in Memos, FreshMemo(m),
         MintMemo(w) \/ ReplaceMemo(w),
         memoOwner' = [memoOwner EXCEPT ![m] = job[w].user],
         nextMemo' = [nextMemo EXCEPT ![job[w].user] = [job[w].memos EXCEPT ![job[w].cat] = m]]
  PROVE  MemoInv'
<1> DEFINE u == job[w].user
           c == job[w].cat
<1>1. /\ Alone(w) /\ job'[w].user = u /\ InRequest(w)
      /\ pc[w] \in {"mint", "mintnext", "replace"}
      /\ \/ pc'[w] \in {"fill", "schedule"}
         \/ pc[w] = "replace" /\ pc'[w] = "announce" /\ job'[w].memo = job[w].memo
  BY MintEffect, PayEffect, StepSets DEF InRequest, ReplaceMemo
<1>2. UNCHANGED <<memoCache, payments, txRow>>
  BY DEF MintMemo, ReplaceMemo, redis
<1>3. u \in Users /\ c \in Cats /\ u # None
  <2>1. JobOK(w)
    BY DEF TypeOK
  <2>2. QED
    BY <1>1, <2>1, PaymentsAssumption DEF JobOK, InRequest
<1>4. nextMemo \in [Users -> [Cats -> Memos \cup {None}]] /\ memoOwner \in [Memos -> Users \cup {None}]
      /\ memoOwner[m] = None
  BY DEF TypeOK, MemoDict, FreshMemo
<1>5. nextMemo' = [nextMemo EXCEPT ![u] = [nextMemo[u] EXCEPT ![c] = m]]
  BY <1>1 DEF MemoInv, HandlersInv, HandlerInv
<1>6. ASSUME NEW x \in Users, NEW d \in Cats
      PROVE  nextMemo'[x][d] = IF x = u /\ d = c THEN m ELSE nextMemo[x][d]
  BY <1>3, <1>4, <1>5
<1>7. ASSUME NEW x \in Memos PROVE memoOwner'[x] = IF x = m THEN u ELSE memoOwner[x]
  BY <1>4
<1>8. m \in Memos /\ m # None
  BY PaymentsAssumption
<1>9. ASSUME NEW p \in PayIds, payments[p] # None
      PROVE  payments[p].memo \in Memos /\ payments[p].memo # m
  <2>1. payments[p] \in Payment
    BY <1>9 DEF TypeOK
  <2>2. QED
    BY <1>4, <1>9, <2>1 DEF MemoInv, SentInv, Payment
<1>10. ASSUME NEW v \in Workers, pc[v] \in {"announce", "send"}
       PROVE  /\ job[v].memo \in Memos /\ job[v].memo # m /\ job[v].user \in Users
  <2>1. JobOK(v)
    BY DEF TypeOK
  <2>2. job[v].memo \in Memos /\ job[v].user \in Users
    BY <1>10, <2>1, StepSets DEF JobOK
  <2>3. memoOwner[job[v].memo] = job[v].user
    BY <1>10 DEF MemoInv, HandlersInv, HandlerInv
  <2>4. QED
    BY <1>4, <2>2, <2>3, PaymentsAssumption
<1>11. ASSUME pc'[w] = "announce"
       PROVE  /\ job'[w].memo = nextMemo[u][c] /\ nextMemo[u][c] \in Memos
              /\ nextMemo[u][c] # None /\ nextMemo[u][c] # m
              /\ memoOwner[nextMemo[u][c]] = u /\ Unspent(nextMemo[u][c])
  <2>1. pc[w] = "replace" /\ job'[w].memo = job[w].memo
    BY <1>1, <1>11
  <2>2. job[w].memo = nextMemo[u][c] /\ JobOK(w)
    BY <2>1 DEF MemoInv, HandlersInv, HandlerInv, TypeOK
  <2>3. nextMemo[u][c] \in Memos /\ nextMemo[u][c] # None
    BY <2>1, <2>2, PaymentsAssumption DEF JobOK
  <2>4. memoOwner[nextMemo[u][c]] = u /\ Unspent(nextMemo[u][c])
    BY <1>3, <2>3 DEF MemoInv, DictsInv
  <2>5. QED
    BY <1>3, <1>4, <2>1, <2>2, <2>3, <2>4
<1>12. Unspent(m)'
  <2>1. memoCache'[m] = None
    BY <1>2, <1>4 DEF MemoInv, SentInv
  <2>2. \A p \in PayIds : payments'[p] # None => payments'[p].memo # m
    BY <1>2, <1>9
  <2>3. ASSUME NEW v \in Workers, pc'[v] \in {"announce", "send"} PROVE job'[v].memo # m
    BY <1>1, <1>10, <1>11, <2>3 DEF Alone
  <2>4. QED
    BY <2>1, <2>2, <2>3 DEF Unspent
<1>13. ASSUME NEW x \in Users, NEW d \in Cats, NEW y, y = nextMemo[x][d], y # None,
              ~(x = u /\ d = c)
       PROVE  memoOwner'[y] = x /\ Unspent(y)' /\ y # m
  <2>1. y \in Memos /\ memoOwner[y] = x /\ Unspent(y)
    BY <1>4, <1>13 DEF MemoInv, DictsInv
  <2>2. y # m
    BY <1>4, <2>1, PaymentsAssumption
  <2>3. memoOwner'[y] = x
    BY <1>7, <2>1, <2>2
  <2>4. ASSUME pc'[w] = "announce" PROVE job'[w].memo # y
    <3>1. CASE x = u
      BY <1>3, <1>11, <1>13, <2>4, <3>1 DEF MemoInv, DictsInv
    <3>2. CASE x # u
      BY <1>11, <2>1, <2>4, <3>2
    <3>3. QED
      BY <3>1, <3>2
  <2>5. ASSUME NEW v \in Workers, pc'[v] \in {"announce", "send"} PROVE job'[v].memo # y
    BY <1>1, <2>1, <2>4, <2>5 DEF Unspent, Alone
  <2>6. Unspent(y)'
    BY <1>2, <2>1, <2>5 DEF Unspent
  <2>7. QED
    BY <2>2, <2>3, <2>6
<1>14. DictsInv'
  <2>1. ASSUME NEW x \in Users, NEW d \in Cats, NEW y, y = nextMemo'[x][d], y # None
        PROVE  memoOwner'[y] = x /\ Unspent(y)'
    BY <1>3, <1>6, <1>7, <1>12, <1>13, <2>1
  <2>2. ASSUME NEW x \in Users, NEW d \in Cats, NEW e \in Cats,
               nextMemo'[x][d] # None, nextMemo'[x][d] = nextMemo'[x][e]
        PROVE  d = e
    BY <1>3, <1>6, <1>8, <1>13, <2>2 DEF MemoInv, DictsInv
  <2>3. ASSUME NEW x \in Users, NEW d \in Cats, nextMemo'[x][d] # None
        PROVE  (memoOwner[nextMemo[x][d]] = x /\ Unspent(nextMemo[x][d]))'
    <3>1. PICK y : y = nextMemo'[x][d]
      OBVIOUS
    <3>2. y # None
      BY <2>3, <3>1
    <3>3. memoOwner'[y] = x /\ Unspent(y)'
      BY <2>1, <3>1, <3>2
    <3>4. QED
      BY <3>1, <3>3 DEF Unspent
  <2>4. QED
    BY <2>2, <2>3 DEF DictsInv
<1>15. ASSUME NEW v \in Workers PROVE HandlerInv(v)'
  <2>1. CASE v = w
    <3>1. CASE pc'[w] \in {"fill", "schedule"}
      BY <2>1, <3>1 DEF HandlerInv
    <3>2. CASE pc'[w] = "announce"
      BY <1>1, <1>2, <1>7, <1>11, <2>1, <3>2 DEF HandlerInv, Unspent
    <3>3. QED
      BY <1>1, <3>1, <3>2
  <2>2. CASE v # w
    <3>1. pc'[v] = pc[v] /\ job'[v] = job[v] /\ HandlerInv(v)
      BY <1>1, <2>2 DEF Alone, MemoInv, HandlersInv
    <3>2. ASSUME pc[v] \in {"mint", "mintnext", "replace"}
          PROVE  nextMemo'[job[v].user] = nextMemo[job[v].user]
      <4>1. InRequest(v)
        BY <3>2, StepSets DEF InRequest
      <4>2. job[v].user \in Users /\ job[v].user # u
        BY <1>1, <2>2, <4>1 DEF MemoInv, OneRequest, TypeOK, JobOK, InRequest
      <4>3. QED
        BY <1>4, <1>5, <4>2
    <3>3. ASSUME pc[v] \in {"announce", "send"}
          PROVE  memoOwner'[job[v].memo] = memoOwner[job[v].memo]
      BY <1>7, <1>10, <3>3
    <3>4. QED
      BY <1>2, <3>1, <3>2, <3>3 DEF HandlerInv
  <2>3. QED
    BY <2>1, <2>2
<1>16. SentInv'
  <2>1. ASSUME NEW x \in Memos, memoOwner[x] # None PROVE memoOwner'[x] # None
    BY <1>3, <1>7, <2>1
  <2>2. QED
    BY <1>2, <1>9, <2>1 DEF MemoInv, SentInv
<1>17. RecordedAsSent'
  BY <1>2 DEF MemoInv, RecordedAsSent
<1>18. QED
  BY <1>14, <1>15, <1>16, <1>17 DEF MemoInv, HandlersInv

\* The request is announced under a memo no other request or payment has.
LEMMA AnnounceStep ==
  ASSUME TypeOK, MemoInv, OneRequest', NEW w \in Workers, CachePayment(w)
  PROVE  MemoInv'
<1> DEFINE m == job[w].memo
           entry == [user |-> job[w].user, task |-> job[w].task]
<1>1. /\ Alone(w) /\ pc[w] = "announce" /\ pc'[w] = "send"
      /\ job'[w].user = job[w].user /\ job'[w].task = job[w].task /\ job'[w].memo = m
  BY PayEffect DEF CachePayment
<1>2. UNCHANGED <<memoOwner, nextMemo, payments, txRow>>
  BY DEF CachePayment, appData, history
<1>3. m \in Memos /\ job[w].user \in Users /\ InRequest(w) /\ HandlerInv(w)
  BY <1>1, StepSets DEF TypeOK, JobOK, InRequest, MemoInv, HandlersInv
<1>4. \A x \in Memos : memoCache'[x] = IF x = m THEN entry ELSE memoCache[x]
  BY <1>3 DEF CachePayment, TypeOK
<1>5. ASSUME NEW x \in Memos, Unspent(x) PROVE Unspent(x)'
  BY <1>1, <1>2, <1>4, <1>5 DEF Unspent, Alone
<1>6. nextMemo \in [Users -> [Cats -> Memos \cup {None}]]
  BY DEF TypeOK, MemoDict
<1>7. DictsInv'
  BY <1>2, <1>5, <1>6 DEF MemoInv, DictsInv
<1>8. ASSUME NEW v \in Workers PROVE HandlerInv(v)'
  <2>1. CASE v = w
    BY <1>1, <1>2, <1>3, <1>4, <2>1 DEF HandlerInv
  <2>2. CASE v # w
    <3>1. pc'[v] = pc[v] /\ job'[v] = job[v] /\ HandlerInv(v)
      BY <1>1, <2>2 DEF Alone, MemoInv, HandlersInv
    <3>2. ASSUME pc[v] \in {"announce", "send"}
          PROVE  memoCache'[job[v].memo] = memoCache[job[v].memo]
      <4>1. InRequest(v) /\ job[v].memo \in Memos
        BY <3>2, StepSets DEF TypeOK, JobOK, InRequest
      <4>2. job[v].user # job[w].user
        BY <1>3, <2>2, <4>1 DEF MemoInv, OneRequest
      <4>3. job[v].memo # m
        BY <1>1, <1>3, <3>1, <3>2, <4>2 DEF HandlerInv
      <4>4. QED
        BY <1>4, <4>1, <4>3
    <3>3. QED
      BY <1>2, <3>1, <3>2 DEF HandlerInv
  <2>3. QED
    BY <2>1, <2>2
<1>9. SentInv'
  <2>1. ASSUME NEW p \in PayIds, payments[p] # None
        PROVE  memoCache'[payments[p].memo] = memoCache[payments[p].memo]
    BY <1>1, <1>3, <1>4, <2>1 DEF TypeOK, Payment, HandlerInv
  <2>2. memoOwner[m] # None
    BY <1>1, <1>3, PaymentsAssumption DEF HandlerInv
  <2>3. QED
    BY <1>2, <1>4, <2>1, <2>2 DEF MemoInv, SentInv
<1>10. QED
  BY <1>2, <1>7, <1>8, <1>9 DEF MemoInv, HandlersInv, RecordedAsSent

\* The service is asked for a payment under a memo nothing was paid under.
LEMMA SendMemoStep ==
  ASSUME TypeOK, MemoInv, OneRequest', NEW w \in Workers, SendPayment(w)
  PROVE  MemoInv'
<1> DEFINE m == job[w].memo
<1>1. Alone(w) /\ pc[w] = "send" /\ pc'[w] = "idle"
  BY EndEffect DEF SendPayment
<1>2. UNCHANGED <<memoOwner, nextMemo, memoCache, txRow>>
  BY DEF SendPayment, appData, redis, history
<1>3. CASE UNCHANGED payments
  BY <1>1, <1>2, <1>3, MemoIdle DEF memoVars
<1>4. ASSUME NEW q \in PayIds, payments[q] = None,
             payments' = [payments EXCEPT ![q] =
               [user |-> job[w].user, task |-> job[w].task, memo |-> job[w].memo,
                turn |-> job[w].turn, state |-> "sent"]]
      PROVE  MemoInv'
  <2>1. /\ payments'[q] # None /\ payments'[q].user = job[w].user
        /\ payments'[q].task = job[w].task /\ payments'[q].memo = m
        /\ \A p \in PayIds \ {q} : payments'[p] = payments[p]
    <3>1. JobOK(w) /\ job[w] \in Job
      BY DEF TypeOK
    <3>2. [user |-> job[w].user, task |-> job[w].task, memo |-> job[w].memo,
           turn |-> job[w].turn, state |-> "sent"] \in Payment
      BY <1>1, <3>1, StepSets DEF JobOK, Job, Payment
    <3>3. QED
      BY <1>4, <3>2, PaymentsNoneAssumption DEF TypeOK
  <2>2. HandlerInv(w) /\ InRequest(w) /\ job[w].user # None
    BY <1>1, StepSets, PaymentsAssumption
    DEF MemoInv, HandlersInv, InRequest, TypeOK, JobOK
  <2>3. ASSUME NEW x, Unspent(x) PROVE Unspent(x)'
    <3>1. x # m
      BY <1>1, <2>3 DEF Unspent
    <3>2. QED
      BY <1>1, <1>2, <2>1, <2>3, <3>1 DEF Unspent, Alone
  <2>4. DictsInv'
    BY <1>2, <2>3 DEF MemoInv, DictsInv
  <2>5. ASSUME NEW v \in Workers PROVE HandlerInv(v)'
    <3>1. CASE v = w
      BY <1>1, <3>1 DEF HandlerInv
    <3>2. CASE v # w
      <4>1. pc'[v] = pc[v] /\ job'[v] = job[v] /\ HandlerInv(v)
        BY <1>1, <3>2 DEF Alone, MemoInv, HandlersInv
      <4>2. ASSUME pc[v] \in {"announce", "send"} PROVE job[v].memo # m
        <5>1. InRequest(v)
          BY <4>2, StepSets DEF InRequest
        <5>2. QED
          BY <1>1, <2>2, <3>2, <4>1, <4>2, <5>1 DEF MemoInv, OneRequest, HandlerInv
      <4>3. ASSUME pc[v] = "record" PROVE payments'[job[v].pay] = payments[job[v].pay]
        BY <1>4, <2>1, <4>1, <4>3 DEF HandlerInv, TypeOK, JobOK
      <4>4. QED
        BY <1>2, <2>1, <4>1, <4>2, <4>3 DEF HandlerInv
    <3>3. QED
      BY <3>1, <3>2
  <2>6. SentInv'
    BY <1>1, <1>2, <2>1, <2>2 DEF MemoInv, SentInv, HandlerInv
  <2>7. RecordedAsSent'
    BY <1>2, <1>4, <2>1 DEF MemoInv, RecordedAsSent
  <2>8. QED
    BY <2>4, <2>5, <2>6, <2>7 DEF MemoInv, HandlersInv
<1>5. QED
  BY <1>3, <1>4 DEF SendPayment

\* The callback finds in the cache what the payment was asked for, and writes that.
LEMMA CallbackSteps ==
  ASSUME TypeOK, MemoInv, OneRequest', NEW w \in Workers,
         RecordPayment(w) \/ \E p \in PayIds : ReceiveCallback(w, p)
  PROVE  MemoInv'
<1>1. ASSUME NEW p \in PayIds, ReceiveCallback(w, p) PROVE MemoInv'
  <2>1. UNCHANGED memoVars
    BY <1>1 DEF ReceiveCallback, memoVars, appData, redis, history
  <2>2. /\ Alone(w) /\ pc'[w] = "record" /\ payments[p] # None
        /\ memoCache[payments[p].memo] # None
        /\ job'[w].user = memoCache[payments[p].memo].user
        /\ job'[w].task = memoCache[payments[p].memo].task
        /\ job'[w].memo = payments[p].memo /\ job'[w].pay = p
    BY <1>1, CallbackEffect
  <2>3. memoCache[payments[p].memo] = [user |-> payments[p].user, task |-> payments[p].task]
    BY <2>2 DEF MemoInv, SentInv
  <2>4. job'[w].user = payments[p].user /\ job'[w].task = payments[p].task
    BY <2>2, <2>3
  <2>5. HandlerInv(w)'
    BY <2>1, <2>2, <2>4 DEF HandlerInv, memoVars
  <2>6. QED
    BY <2>1, <2>2, <2>5, MemoFrame
<1>2. CASE RecordPayment(w)
  <2> DEFINE p == job[w].pay
  <2>1. Alone(w) /\ pc[w] = "record" /\ pc'[w] = "idle"
    BY <1>2, EndEffect DEF RecordPayment
  <2>2. UNCHANGED <<memoOwner, nextMemo, memoCache, payments>>
    BY <1>2 DEF RecordPayment, appData, redis, history
  <2>3. /\ p \in PayIds /\ payments[p] # None /\ payments[p].user = job[w].user
        /\ payments[p].task = job[w].task /\ payments[p].memo = job[w].memo
    BY <2>1 DEF TypeOK, JobOK, MemoInv, HandlersInv, HandlerInv
  <2>4. RecordedAsSent'
    BY <1>2, <2>2, <2>3 DEF RecordPayment, MemoInv, RecordedAsSent, TypeOK
  <2>5. ASSUME NEW x, Unspent(x) PROVE Unspent(x)'
    BY <2>1, <2>2, <2>5 DEF Unspent, Alone
  <2>6. DictsInv'
    BY <2>2, <2>5 DEF MemoInv, DictsInv
  <2>7. \A v \in Workers : HandlerInv(v)'
    BY <2>1, <2>2 DEF MemoInv, HandlersInv, HandlerInv, Alone
  <2>8. SentInv'
    BY <2>2 DEF MemoInv, SentInv
  <2>9. QED
    BY <2>4, <2>6, <2>7, <2>8 DEF MemoInv, HandlersInv
<1>3. QED
  BY <1>1, <1>2

\* Migrations, verdicts of the payment service, and expiries.
LEMMA OutsideSteps ==
  ASSUME TypeOK, Serial, MemoInv, OneRequest', UNCHANGED <<pc, job>>,
         \/ \E u \in Users : MigrateMemos(u)
         \/ \E p \in PayIds : Settle(p)
         \/ \E m \in Memos : ExpireMemoCache(m)
         \/ UNCHANGED memoVars
  PROVE  MemoInv'
<1>1. ASSUME NEW u \in Users, MigrateMemos(u) PROVE MemoInv'
  <2>1. UNCHANGED <<memoOwner, memoCache, payments, txRow>>
    BY <1>1 DEF MigrateMemos, redis, history
  <2>2. \A x \in Users : nextMemo'[x] = IF x = u THEN NoMemos ELSE nextMemo[x]
    BY <1>1 DEF MigrateMemos, TypeOK
  <2>3. ASSUME NEW x, Unspent(x) PROVE Unspent(x)'
    BY <2>1, <2>3 DEF Unspent
  <2>4. \A x \in Users, c \in Cats : nextMemo'[x][c] = None \/ nextMemo'[x][c] = nextMemo[x][c]
    BY <2>2 DEF NoMemos
  <2>5. DictsInv'
    BY <2>1, <2>2, <2>3, <2>4 DEF MemoInv, DictsInv, NoMemos
  <2>6. ASSUME NEW v \in Workers PROVE HandlerInv(v)'
    <3>1. ASSUME pc[v] \in {"mint", "mintnext", "replace"}
          PROVE  nextMemo'[job[v].user] = nextMemo[job[v].user]
      <4>1. InRequest(v)
        BY <3>1, StepSets DEF InRequest
      <4>2. job[v].user \in Users /\ job[v].user # u
        BY <1>1, <4>1 DEF MigrateMemos, MayCall, UserBusy, InRequest, TypeOK, JobOK
      <4>3. QED
        BY <2>2, <4>2
    <3>2. QED
      BY <2>1, <3>1 DEF MemoInv, HandlersInv, HandlerInv
  <2>7. SentInv' /\ RecordedAsSent'
    BY <2>1 DEF MemoInv, SentInv, RecordedAsSent
  <2>8. QED
    BY <2>5, <2>6, <2>7 DEF MemoInv, HandlersInv
<1>2. ASSUME NEW p \in PayIds, Settle(p) PROVE MemoInv'
  <2>1. UNCHANGED <<memoOwner, nextMemo, memoCache, txRow>>
    BY <1>2 DEF Settle, appData, redis, history
  <2>2. PICK state \in {"settled", "failed"} : payments' = [payments EXCEPT ![p].state = state]
    BY <1>2 DEF Settle
  <2>3. payments[p] # None /\ payments[p] \in Payment
    BY <1>2 DEF Settle, TypeOK
  <2>4. /\ payments'[p] # None
        /\ payments'[p].user = payments[p].user /\ payments'[p].task = payments[p].task
        /\ payments'[p].memo = payments[p].memo
        /\ \A q \in PayIds \ {p} : payments'[q] = payments[q]
    <3>1. payments'[p] = [payments[p] EXCEPT !.state = state]
      BY <2>2 DEF TypeOK
    <3>2. payments'[p] \in Payment
      BY <2>3, <3>1 DEF Payment
    <3>3. QED
      BY <2>2, <2>3, <3>1, <3>2, PaymentsNoneAssumption DEF TypeOK, Payment
  <2>5. ASSUME NEW q \in PayIds
        PROVE  /\ payments'[q] # None <=> payments[q] # None
               /\ payments[q] # None =>
                    /\ payments'[q].user = payments[q].user
                    /\ payments'[q].task = payments[q].task
                    /\ payments'[q].memo = payments[q].memo
    BY <2>3, <2>4
  <2>6. ASSUME NEW x, Unspent(x) PROVE Unspent(x)'
    BY <2>1, <2>5, <2>6 DEF Unspent
  <2>7. DictsInv'
    BY <2>1, <2>6 DEF MemoInv, DictsInv
  <2>8. ASSUME NEW v \in Workers PROVE HandlerInv(v)'
    <3>1. HandlerInv(v) /\ (pc[v] = "record" => job[v].pay \in PayIds)
      BY DEF MemoInv, HandlersInv, TypeOK, JobOK
    <3>2. QED
      BY <2>1, <2>5, <3>1 DEF HandlerInv
  <2>9. SentInv'
    BY <2>1, <2>5 DEF MemoInv, SentInv
  <2>10. RecordedAsSent'
    BY <2>1, <2>5 DEF MemoInv, RecordedAsSent
  <2>11. QED
    BY <2>7, <2>8, <2>9, <2>10 DEF MemoInv, HandlersInv
<1>3. ASSUME NEW m \in Memos, ExpireMemoCache(m) PROVE MemoInv'
  <2>1. UNCHANGED <<memoOwner, nextMemo, payments, txRow>>
    BY <1>3 DEF ExpireMemoCache, appData, history
  <2>2. \A x \in Memos : memoCache'[x] = IF x = m THEN None ELSE memoCache[x]
    BY <1>3 DEF ExpireMemoCache, TypeOK
  <2>3. ASSUME NEW x \in Memos, Unspent(x) PROVE Unspent(x)'
    BY <2>1, <2>2, <2>3 DEF Unspent
  <2>4. nextMemo \in [Users -> [Cats -> Memos \cup {None}]]
    BY DEF TypeOK, MemoDict
  <2>5. DictsInv'
    BY <2>1, <2>3, <2>4 DEF MemoInv, DictsInv
  <2>6. ASSUME NEW v \in Workers PROVE HandlerInv(v)'
    <3>1. HandlerInv(v) /\ (pc[v] \in {"announce", "send"} => job[v].memo \in Memos)
      BY DEF MemoInv, HandlersInv, TypeOK, JobOK
    <3>2. QED
      BY <2>1, <2>2, <3>1 DEF HandlerInv
  <2>7. SentInv'
    <3>1. \A p \in PayIds : payments[p] # None => payments[p].memo \in Memos
      BY DEF TypeOK, Payment
    <3>2. QED
      BY <2>1, <2>2, <3>1 DEF MemoInv, SentInv
  <2>8. RecordedAsSent'
    BY <2>1 DEF MemoInv, RecordedAsSent
  <2>9. QED
    BY <2>5, <2>6, <2>7, <2>8 DEF MemoInv, HandlersInv
<1>4. ASSUME UNCHANGED memoVars PROVE MemoInv'
  BY <1>4 DEF memoVars, MemoInv, DictsInv, Unspent, HandlersInv, HandlerInv, SentInv,
              RecordedAsSent
<1>5. QED
  BY <1>1, <1>2, <1>3, <1>4

\* Every step preserves the invariant when a user's requests do not overlap.
LEMMA MemoStep ==
  ASSUME TypeOK, Serial, MemoInv, [Next]_vars
  PROVE  MemoInv'
<1> USE DEF appData, redis, history
<1>1. OneRequest'
  BY RequestStep DEF MemoInv
<1>2. ASSUME NEW w \in Workers, NEW u \in Users, NEW c \in Cats, GetTask(w, u, c)
      PROVE  MemoInv'
  BY <1>1, <1>2, GetTaskEffect, MemoIdle DEF GetTask, memoVars
<1>3. ASSUME NEW w \in Workers, NEW u \in Users, NEW t \in Tasks, SubmitResults(w, u, t)
      PROVE  MemoInv'
  BY <1>1, <1>3, SubmitEffect, MemoIdle DEF SubmitResults, memoVars
<1>4. ASSUME NEW w \in Workers, SelectTask(w) PROVE MemoInv'
  <2>1. UNCHANGED memoVars
    BY <1>4 DEF SelectTask, memoVars
  <2>2. Alone(w) /\ pc'[w] \in {"mint", "fill"} /\ HandlerInv(w)'
    BY <1>4, <2>1, SelectEffect DEF HandlerInv, memoVars
  <2>3. QED
    BY <1>1, <2>1, <2>2, MemoFrame
<1>5. ASSUME NEW w \in Workers, MintMemo(w) \/ ReplaceMemo(w) PROVE MemoInv'
  <2>1. PICK m \in Memos :
          /\ FreshMemo(m)
          /\ memoOwner' = [memoOwner EXCEPT ![m] = job[w].user]
          /\ nextMemo' = [nextMemo EXCEPT ![job[w].user] =
                            [job[w].memos EXCEPT ![job[w].cat] = m]]
    BY <1>5 DEF MintMemo, ReplaceMemo
  <2>2. QED
    BY <1>1, <1>5, <2>1, NewMemoStep
<1>6. ASSUME NEW w \in Workers,
             \/ PassCooldown(w) \/ LookupPayment(w) \/ LoadCompleted(w) \/ MarkCompleted(w)
             \/ LoadNext(w)
      PROVE  MemoInv'
  <2>1. UNCHANGED memoVars
    BY <1>6 DEF PassCooldown, LookupPayment, LoadCompleted, MarkCompleted, LoadNext, memoVars
  <2>2. Alone(w) /\ pc'[w] \notin {"announce", "send"} /\ HandlerInv(w)'
    BY <1>6, <2>1, StoreEffect DEF HandlerInv, memoVars
  <2>3. QED
    BY <1>1, <2>1, <2>2, MemoFrame
<1>7. ASSUME NEW w \in Workers, Schedule(w) \/ TakePayLock(w) PROVE MemoInv'
  <2>1. UNCHANGED memoVars
    BY <1>7 DEF Schedule, TakePayLock, memoVars
  <2>2. QED
    BY <1>1, <1>7, <2>1, LockEffect, MemoIdle
<1>8. ASSUME NEW w \in Workers, TakeMemo(w) PROVE MemoInv'
  <2>1. UNCHANGED memoVars
    BY <1>8 DEF TakeMemo, memoVars
  <2>2. Alone(w) /\ pc'[w] \notin {"announce", "send"} /\ HandlerInv(w)'
    BY <1>8, <2>1, PayEffect DEF HandlerInv, memoVars, TakeMemo
  <2>3. QED
    BY <1>1, <2>1, <2>2, MemoFrame
<1>9. ASSUME NEW w \in Workers,
             FillCache(w) \/ RejectPremature(w) \/ AlreadyCompensating(w) \/ Crash(w)
      PROVE  MemoInv'
  <2>1. UNCHANGED memoVars
    BY <1>9 DEF FillCache, RejectPremature, AlreadyCompensating, Crash, memoVars
  <2>2. QED
    BY <1>1, <1>9, <2>1, EndEffect, MemoIdle
<1>10. ASSUME UNCHANGED <<pc, job>>,
              \/ \E u \in Users : MigrateMemos(u)
              \/ \E p \in PayIds : Settle(p)
              \/ \E m \in Memos : ExpireMemoCache(m)
              \/ UNCHANGED memoVars
       PROVE  MemoInv'
  BY <1>1, <1>10, OutsideSteps
<1>11. ASSUME \/ \E u \in Users, c \in Cats : EndCooldown(u, c) \/ ExpireTaskCache(u, c)
              \/ \E u \in Users, t \in Tasks : ExpirePayLock(u, t)
              \/ UNCHANGED vars
       PROVE  UNCHANGED memoVars /\ UNCHANGED <<pc, job>>
  BY <1>11 DEF EndCooldown, ExpireTaskCache, ExpirePayLock, vars, memoVars
<1>12. ASSUME \/ \E u \in Users : MigrateMemos(u)
              \/ \E p \in PayIds : Settle(p)
              \/ \E m \in Memos : ExpireMemoCache(m)
       PROVE  UNCHANGED <<pc, job>>
  BY <1>12 DEF MigrateMemos, Settle, ExpireMemoCache
<1>13. QED
  BY <1>1, <1>2, <1>3, <1>4, <1>5, <1>6, <1>7, <1>8, <1>9, <1>10, <1>11, <1>12,
     AnnounceStep, SendMemoStep, CallbackSteps DEF Next

\* Nothing is paid, cached or under way at first.
LEMMA MemoInit ==
  ASSUME Init
  PROVE  MemoInv
<1> USE DEF Init
<1>1. OneRequest /\ HandlersInv
  BY StepSets DEF OneRequest, InRequest, HandlersInv, HandlerInv
<1>2. DictsInv /\ SentInv /\ RecordedAsSent
  BY DEF DictsInv, NoMemos, SentInv, RecordedAsSent
<1>3. QED
  BY <1>1, <1>2 DEF MemoInv

\* When a user's requests do not overlap, the row the callback writes names the
\* user, the task and the memo the payment service was asked to pay, although the
\* memo, drawn from a dict that each handler copies and writes back whole, is all
\* that links the two.
THEOREM PaymentsRecordedAsSent ==
  ASSUME Serial
  PROVE  Spec => []RecordedAsSent
<1>1. Init => MemoInv
  BY MemoInit
<1>2. TypeOK /\ MemoInv /\ [Next]_vars => MemoInv'
  BY MemoStep
<1>3. MemoInv => RecordedAsSent
  BY DEF MemoInv
<1>4. QED
  BY <1>1, <1>2, <1>3, TypeCorrect, PTL DEF Spec

-----------------------------------------------------------------------------
(* A user is paid for a task at most once, while no lock expires too early. *)

\* The service was asked to pay the user for the task, and has not refused.
PaidBefore(u, t) ==
  \E p \in PayIds : Standing(p) /\ payments[p].user = u /\ payments[p].task = t

\* A worker past the resubmission check that goes on to pay.
PayerInv(w) ==
  LET k == <<job[w].user, job[w].task>>
      paid == PaidBefore(job[w].user, job[w].task) IN
  /\ BeforeLock(w) => ~paid \/ k \in payLocks
  /\ pc[w] \in PaySteps => ~paid /\ k \in payLocks

PaidInv ==
  /\ PaidOnce
  /\ \A p \in PayIds : Unrecorded(p) => <<payments[p].user, payments[p].task>> \in payLocks
  /\ \A w \in Workers : PayerInv(w)
  /\ \A v, w \in Workers :
       /\ pc[v] \in PaySteps /\ pc[w] \in PaySteps
       /\ job[v].user = job[w].user /\ job[v].task = job[w].task
       => v = w

paidVars == <<payLocks, payments, txRow>>

\* A handler moves with what PayerInv asks of it, and is not let past the lock.
LEMMA PaidFrame ==
  ASSUME PaidInv, UNCHANGED paidVars, NEW w \in Workers, Alone(w), PayerInv(w)',
         pc'[w] \in PaySteps =>
           /\ pc[w] \in PaySteps
           /\ job'[w].user = job[w].user /\ job'[w].task = job[w].task
  PROVE  PaidInv'
<1> USE DEF paidVars
<1>1. PaidOnce' /\ (\A p \in PayIds :
        Unrecorded(p) => <<payments[p].user, payments[p].task>> \in payLocks)'
  BY DEF PaidInv, PaidOnce, Standing, Unrecorded
<1>2. \A u, t : PaidBefore(u, t)' <=> PaidBefore(u, t)
  BY DEF PaidBefore, Standing
<1>3. ASSUME NEW v \in Workers \ {w} PROVE PayerInv(v)'
  <2>1. PayerInv(v) /\ pc'[v] = pc[v] /\ job'[v] = job[v]
    BY DEF PaidInv, Alone
  <2>2. QED
    BY <1>2, <2>1 DEF PayerInv, BeforeLock, PaidBefore, Standing
<1>4. ASSUME NEW v \in Workers, NEW x \in Workers, pc'[v] \in PaySteps, pc'[x] \in PaySteps,
             job'[v].user = job'[x].user, job'[v].task = job'[x].task
      PROVE  v = x
  BY <1>4 DEF PaidInv, Alone
<1>5. QED
  BY <1>1, <1>3, <1>4 DEF PaidInv

\* A handler that moves where PayerInv asks nothing of it.
LEMMA PaidIdle ==
  ASSUME PaidInv, UNCHANGED paidVars, NEW w \in Workers, Alone(w),
         pc'[w] \in {"idle", "select", "mint", "fill", "check", "lookup", "record"}
  PROVE  PaidInv'
<1>1. PayerInv(w)' /\ pc'[w] \notin PaySteps
  BY StepSets DEF PayerInv, BeforeLock
<1>2. QED
  BY <1>1, PaidFrame

\* A handler that goes on with its request on the same side of the lock.
LEMMA PaidGoes ==
  ASSUME PaidInv, UNCHANGED paidVars, NEW w \in Workers, Alone(w),
         job'[w].user = job[w].user, job'[w].task = job[w].task,
         \/ /\ pc[w] \in StoreSteps /\ pc'[w] \in StoreSteps \cup {"lock"}
            /\ pc'[w] = "lock" \/ job'[w].paid = job[w].paid
            /\ pc'[w] = "lock" => ~job[w].paid
         \/ pc[w] \in PaySteps /\ pc'[w] \in PaySteps
  PROVE  PaidInv'
<1>1. PayerInv(w)
  BY DEF PaidInv
<1>2. PaidBefore(job[w].user, job[w].task)' => PaidBefore(job[w].user, job[w].task)
  BY DEF paidVars, PaidBefore, Standing
<1>3. <<job'[w].user, job'[w].task>> = <<job[w].user, job[w].task>> /\ payLocks' = payLocks
  BY DEF paidVars
<1>4. PayerInv(w)'
  <2>1. CASE pc[w] \in StoreSteps
    <3>1. pc'[w] \notin PaySteps /\ (pc'[w] \in StoreSteps => job'[w].paid = job[w].paid)
          /\ (pc'[w] = "lock" => ~job[w].paid)
      BY <2>1, StepSets
    <3>2. QED
      BY <1>1, <1>2, <1>3, <2>1, <3>1 DEF PayerInv, BeforeLock
  <2>2. CASE pc[w] \in PaySteps
    BY <1>1, <1>2, <1>3, <2>2, StepSets DEF PayerInv, BeforeLock
  <2>3. QED
    BY <2>1, <2>2
<1>5. QED
  BY <1>4, PaidFrame, StepSets

\* A submission that finds no row for its user and task goes on: if the service
\* was asked to pay nonetheless, the callback is to come, and the lock is held.
LEMMA LookupStep ==
  ASSUME TypeOK, RecordedAsSent, PaidInv, NEW w \in Workers, LookupPayment(w)
  PROVE  PaidInv'
<1> DEFINE u == job[w].user
           t == job[w].task
<1>1. UNCHANGED paidVars
  BY DEF LookupPayment, paidVars, redis
<1>2. /\ Alone(w) /\ pc[w] = "lookup" /\ pc'[w] = "load"
      /\ job'[w].paid = AlreadyPaid(u, t) /\ job'[w].user = u /\ job'[w].task = t
  BY StoreEffect DEF LookupPayment
<1>3. u \in Users
  BY <1>2, StepSets DEF TypeOK, JobOK
<1>4. ASSUME ~AlreadyPaid(u, t), NEW p \in PayIds, Standing(p), payments[p].user = u,
             payments[p].task = t
      PROVE  <<u, t>> \in payLocks
  <2>1. u \in Associated(u)
    BY <1>3 DEF Associated
  <2>2. txRow[p] # None => txRow[p].user = u /\ txRow[p].task = t
    <3>1. ASSUME txRow[p] # None
          PROVE  txRow[p] = [user |-> payments[p].user, task |-> payments[p].task,
                             memo |-> payments[p].memo]
      BY <3>1 DEF RecordedAsSent
    <3>2. QED
      BY <1>4, <3>1
  <2> HIDE DEF u, t
  <2>3. txRow[p] = None
    BY <1>4, <2>1, <2>2 DEF AlreadyPaid
  <2> USE DEF u, t
  <2>4. QED
    BY <1>4, <2>3 DEF PaidInv, Unrecorded
<1>5. ~AlreadyPaid(u, t) => ~PaidBefore(u, t) \/ <<u, t>> \in payLocks
  BY <1>4 DEF PaidBefore
<1>6. PaidBefore(job[w].user, job[w].task)' => PaidBefore(u, t)
  BY <1>1, <1>2 DEF paidVars, PaidBefore, Standing
<1>7. ~job'[w].paid => ~PaidBefore(u, t) \/ <<u, t>> \in payLocks
  BY <1>2, <1>5, Zenon
<1>8. <<job'[w].user, job'[w].task>> = <<u, t>> /\ payLocks' = payLocks
  BY <1>1, <1>2 DEF paidVars
<1>9. PayerInv(w)'
  <2>1. pc'[w] = "load" /\ pc'[w] \notin PaySteps /\ pc'[w] # "lock"
    BY <1>2, StepSets
  <2>2. ~job'[w].paid => ~PaidBefore(job[w].user, job[w].task)'
                         \/ <<job'[w].user, job'[w].task>> \in payLocks'
    BY <1>6, <1>7, <1>8
  <2>3. QED
    BY <2>1, <2>2, Zenon DEF PayerInv, BeforeLock
<1>10. QED
  BY <1>1, <1>2, <1>9, PaidFrame, StepSets

\* The lock is free, so nothing was paid and no other worker is past it.
LEMMA TakePaidStep ==
  ASSUME TypeOK, PaidInv, NEW w \in Workers, TakePayLock(w)
  PROVE  PaidInv'
<1> DEFINE u == job[w].user
           t == job[w].task
<1>1. /\ Alone(w) /\ pc[w] = "lock" /\ pc'[w] = "memo"
      /\ job'[w].user = u /\ job'[w].task = t
  BY LockEffect DEF TakePayLock
<1>2. UNCHANGED <<payments, txRow>> /\ payLocks' = payLocks \cup {<<u, t>>}
      /\ <<u, t>> \notin payLocks
  BY DEF TakePayLock
<1>3. ~PaidBefore(u, t)
  BY <1>1, <1>2 DEF PaidInv, PayerInv, BeforeLock
<1>4. \A x, y : PaidBefore(x, y)' <=> PaidBefore(x, y)
  BY <1>2 DEF PaidBefore, Standing
<1>5. ASSUME NEW v \in Workers PROVE PayerInv(v)'
  <2>1. CASE v = w
    <3>1. <<job'[v].user, job'[v].task>> \in payLocks'
      BY <1>1, <1>2, <2>1
    <3>2. ~PaidBefore(job[v].user, job[v].task)'
      BY <1>1, <1>2, <1>3, <2>1 DEF PaidBefore, Standing
    <3>3. QED
      BY <3>1, <3>2 DEF PayerInv, BeforeLock
  <2>2. CASE v # w
    <3>1. PayerInv(v) /\ pc'[v] = pc[v] /\ job'[v] = job[v]
      BY <1>1, <2>2 DEF PaidInv, Alone
    <3>2. QED
      BY <1>2, <3>1 DEF PayerInv, BeforeLock, PaidBefore, Standing
  <2>3. QED
    BY <2>1, <2>2
<1>6. PaidOnce' /\ (\A p \in PayIds :
        Unrecorded(p) => <<payments[p].user, payments[p].task>> \in payLocks)'
  BY <1>2 DEF PaidInv, PaidOnce, Standing, Unrecorded
<1>7. ASSUME NEW v \in Workers, NEW x \in Workers, pc'[v] \in PaySteps, pc'[x] \in PaySteps,
             job'[v].user = job'[x].user, job'[v].task = job'[x].task
      PROVE  v = x
  <2>1. ASSUME NEW y \in Workers \ {w}, pc'[y] \in PaySteps
        PROVE  <<job'[y].user, job'[y].task>> # <<u, t>>
    <3>1. pc[y] \in PaySteps /\ job'[y] = job[y] /\ PayerInv(y)
      BY <1>1, <2>1 DEF PaidInv, Alone
    <3>2. <<job[y].user, job[y].task>> \in payLocks
      BY <3>1 DEF PayerInv, BeforeLock
    <3>3. QED
      BY <1>2, <3>1, <3>2
  <2>2. CASE v = w \/ x = w
    BY <1>1, <1>7, <2>1, <2>2
  <2>3. CASE v # w /\ x # w
    BY <1>1, <1>7, <2>3 DEF PaidInv, Alone
  <2>4. QED
    BY <2>2, <2>3
<1>8. QED
  BY <1>5, <1>6, <1>7 DEF PaidInv

\* The service is asked to pay by the one worker past the lock, when nobody has been.
LEMMA SendPaidStep ==
  ASSUME TypeOK, PaidInv, NEW w \in Workers, SendPayment(w)
  PROVE  PaidInv'
<1> DEFINE u == job[w].user
           t == job[w].task
<1>1. Alone(w) /\ pc[w] = "send" /\ pc'[w] = "idle"
  BY EndEffect DEF SendPayment
<1>2. UNCHANGED <<payLocks, txRow>>
  BY DEF SendPayment, redis
<1>3. CASE UNCHANGED payments
  BY <1>1, <1>2, <1>3, PaidIdle DEF paidVars
<1>4. ASSUME NEW q \in PayIds, payments[q] = None,
             payments' = [payments EXCEPT ![q] =
               [user |-> job[w].user, task |-> job[w].task, memo |-> job[w].memo,
                turn |-> job[w].turn, state |-> "sent"]]
      PROVE  PaidInv'
  <2>1. /\ payments'[q].user = u /\ payments'[q].task = t
        /\ \A p \in PayIds \ {q} : payments'[p] = payments[p]
    BY <1>4 DEF TypeOK
  <2>2. ~PaidBefore(u, t) /\ <<u, t>> \in payLocks
    BY <1>1, StepSets DEF PaidInv, PayerInv, BeforeLock
  <2>3. ASSUME NEW p \in PayIds \ {q} PROVE Standing(p)' <=> Standing(p)
    BY <2>1 DEF Standing
  <2>4. PaidOnce'
    <3>1. ASSUME NEW p \in PayIds \ {q}, Standing(p)'
          PROVE  ~(payments'[p].user = u /\ payments'[p].task = t)
      BY <2>1, <2>2, <2>3, <3>1 DEF PaidBefore
    <3>2. QED
      BY <2>1, <2>3, <3>1 DEF PaidInv, PaidOnce
  <2>5. ASSUME NEW p \in PayIds, Unrecorded(p)'
        PROVE  <<payments'[p].user, payments'[p].task>> \in payLocks'
    BY <1>2, <2>1, <2>2, <2>3, <2>5 DEF PaidInv, Unrecorded
  <2>6. ASSUME NEW v \in Workers PROVE PayerInv(v)'
    <3>1. CASE v = w
      BY <1>1, <3>1, StepSets DEF PayerInv, BeforeLock
    <3>2. CASE v # w
      <4>1. PayerInv(v) /\ pc'[v] = pc[v] /\ job'[v] = job[v]
        BY <1>1, <3>2 DEF PaidInv, Alone
      <4>2. CASE job[v].user = u /\ job[v].task = t
        <5>1. pc[v] \notin PaySteps
          BY <1>1, <3>2, <4>2, StepSets DEF PaidInv
        <5>2. QED
          BY <1>2, <2>2, <4>1, <4>2, <5>1 DEF PayerInv, BeforeLock
      <4>3. CASE ~(job[v].user = u /\ job[v].task = t)
        <5>1. PaidBefore(job[v].user, job[v].task)' => PaidBefore(job[v].user, job[v].task)
          BY <2>1, <2>3, <4>1, <4>3 DEF PaidBefore
        <5>2. QED
          BY <1>2, <4>1, <5>1 DEF PayerInv, BeforeLock
      <4>4. QED
        BY <4>2, <4>3
    <3>3. QED
      BY <3>1, <3>2
  <2>7. \A v, x \in Workers :
          /\ pc'[v] \in PaySteps /\ pc'[x] \in PaySteps
          /\ job'[v].user = job'[x].user /\ job'[v].task = job'[x].task
          => v = x
    BY <1>1, StepSets DEF PaidInv, Alone
  <2>8. QED
    BY <2>4, <2>5, <2>6, <2>7 DEF PaidInv
<1>5. QED
  BY <1>3, <1>4 DEF SendPayment

\* Less is standing or unrecorded, and the locks that tell of it are still held.
LEMMA PaidLess ==
  ASSUME PaidInv, UNCHANGED <<pc, job>>,
         \A p \in PayIds : Standing(p)' =>
           /\ Standing(p)
           /\ payments'[p].user = payments[p].user /\ payments'[p].task = payments[p].task,
         \A p \in PayIds : Unrecorded(p)' =>
           Unrecorded(p) /\ <<payments[p].user, payments[p].task>> \in payLocks',
         \A v \in Workers :
           /\ BeforeLock(v) \/ pc[v] \in PaySteps
           /\ <<job[v].user, job[v].task>> \in payLocks
           => <<job[v].user, job[v].task>> \in payLocks'
  PROVE  PaidInv'
<1>1. PaidOnce'
  BY DEF PaidInv, PaidOnce
<1>2. \A p \in PayIds : Unrecorded(p)' => <<payments'[p].user, payments'[p].task>> \in payLocks'
  BY DEF Unrecorded
<1>3. ASSUME NEW v \in Workers PROVE PayerInv(v)'
  <2>1. PaidBefore(job[v].user, job[v].task)' => PaidBefore(job[v].user, job[v].task)
    BY DEF PaidBefore
  <2>2. PayerInv(v)
    BY DEF PaidInv
  <2>3. QED
    BY <2>1, <2>2 DEF PayerInv, BeforeLock
<1>4. QED
  BY <1>1, <1>2, <1>3 DEF PaidInv

\* Verdicts of the payment service, and locks that expire when nobody needs them.
LEMMA PaidOutside ==
  ASSUME TypeOK, Timely, Swift, PaidInv, UNCHANGED <<pc, job>>,
         \/ \E p \in PayIds : Settle(p)
         \/ \E u \in Users, t \in Tasks : ExpirePayLock(u, t)
         \/ UNCHANGED paidVars
  PROVE  PaidInv'
<1>1. ASSUME NEW p \in PayIds, Settle(p) PROVE PaidInv'
  <2>1. UNCHANGED <<payLocks, txRow>>
    BY <1>1 DEF Settle, redis
  <2>2. PICK state \in {"settled", "failed"} : payments' = [payments EXCEPT ![p].state = state]
    BY <1>1 DEF Settle
  <2>3. payments[p] # None /\ payments[p] \in Payment /\ payments[p].state = "sent"
    BY <1>1 DEF Settle, TypeOK
  <2>4. /\ payments'[p].user = payments[p].user /\ payments'[p].task = payments[p].task
        /\ Standing(p)
        /\ \A q \in PayIds \ {p} : payments'[q] = payments[q]
    BY <2>2, <2>3 DEF TypeOK, Payment, Standing
  <2>5. \A q \in PayIds : Standing(q)' =>
          /\ Standing(q)
          /\ payments'[q].user = payments[q].user /\ payments'[q].task = payments[q].task
    BY <2>4 DEF Standing
  <2>6. \A q \in PayIds : Unrecorded(q)' =>
          Unrecorded(q) /\ <<payments[q].user, payments[q].task>> \in payLocks'
    BY <2>1, <2>5 DEF Unrecorded, PaidInv
  <2>7. QED
    BY <2>1, <2>5, <2>6, PaidLess
<1>2. ASSUME NEW u \in Users, NEW t \in Tasks, ExpirePayLock(u, t) PROVE PaidInv'
  <2>1. UNCHANGED <<payments, txRow>> /\ payLocks' = payLocks \ {<<u, t>>}
    BY <1>2 DEF ExpirePayLock
  <2>2. \A q \in PayIds : (Standing(q)' <=> Standing(q)) /\ (Unrecorded(q)' <=> Unrecorded(q))
    BY <2>1 DEF Standing, Unrecorded
  <2>3. ASSUME NEW q \in PayIds, Unrecorded(q)
        PROVE  <<payments[q].user, payments[q].task>> \in payLocks'
    BY <1>2, <2>1, <2>3 DEF PaidInv, ExpirePayLock
  <2>4. ASSUME NEW v \in Workers, BeforeLock(v) \/ pc[v] \in PaySteps,
               <<job[v].user, job[v].task>> \in payLocks
        PROVE  <<job[v].user, job[v].task>> \in payLocks'
    BY <1>2, <2>1, <2>4 DEF ExpirePayLock
  <2>5. QED
    BY <2>1, <2>2, <2>3, <2>4, PaidLess
<1>3. ASSUME UNCHANGED paidVars PROVE PaidInv'
  BY <1>3, PaidLess DEF paidVars, PaidInv, Standing, Unrecorded
<1>4. QED
  BY <1>1, <1>2, <1>3

\* Every step preserves the invariant when locks and cache entries expire in time.
LEMMA PaidStep ==
  ASSUME TypeOK, Timely, Swift, RecordedAsSent, PaidInv, [Next]_vars
  PROVE  PaidInv'
<1> USE DEF redis
<1>1. ASSUME NEW w \in Workers, NEW u \in Users, NEW c \in Cats, GetTask(w, u, c)
      PROVE  PaidInv'
  BY <1>1, GetTaskEffect, PaidIdle DEF GetTask, paidVars
<1>2. ASSUME NEW w \in Workers, NEW u \in Users, NEW t \in Tasks, SubmitResults(w, u, t)
      PROVE  PaidInv'
  BY <1>2, SubmitEffect, PaidIdle DEF SubmitResults, paidVars
<1>3. ASSUME NEW w \in Workers, NEW p \in PayIds, ReceiveCallback(w, p) PROVE PaidInv'
  BY <1>3, CallbackEffect, PaidIdle DEF ReceiveCallback, paidVars
<1>4. ASSUME NEW w \in Workers, SelectTask(w) PROVE PaidInv'
  BY <1>4, SelectEffect, PaidIdle DEF SelectTask, paidVars
<1>5. ASSUME NEW w \in Workers, MintMemo(w) PROVE PaidInv'
  <2>1. UNCHANGED paidVars
    BY <1>5 DEF MintMemo, paidVars
  <2>2. CASE pc'[w] = "fill"
    BY <1>5, <2>1, <2>2, MintEffect, PaidIdle
  <2>3. CASE pc[w] = "mintnext" /\ pc'[w] = "schedule"
    BY <1>5, <2>1, <2>3, MintEffect, PaidGoes, StepSets
  <2>4. QED
    BY <1>5, <2>2, <2>3, MintEffect
<1>6. ASSUME NEW w \in Workers, PassCooldown(w) PROVE PaidInv'
  BY <1>6, StoreEffect, PaidIdle DEF PassCooldown, paidVars
<1>7. ASSUME NEW w \in Workers, LoadCompleted(w) \/ MarkCompleted(w) \/ LoadNext(w)
      PROVE  PaidInv'
  <2>1. UNCHANGED paidVars /\ pc[w] \in {"load", "complete", "next"}
    BY <1>7 DEF LoadCompleted, MarkCompleted, LoadNext, paidVars
  <2>2. /\ Alone(w) /\ job'[w].user = job[w].user /\ job'[w].task = job[w].task
        /\ pc[w] \in StoreSteps /\ pc'[w] \in StoreSteps /\ job'[w].paid = job[w].paid
    BY <1>7, <2>1, StoreEffect, StepSets
  <2>3. QED
    BY <2>1, <2>2, PaidGoes, StepSets
<1>8. ASSUME NEW w \in Workers, Schedule(w) PROVE PaidInv'
  <2>1. UNCHANGED paidVars /\ pc[w] = "schedule"
    BY <1>8 DEF Schedule, paidVars
  <2>2. CASE pc'[w] = "idle"
    BY <1>8, <2>1, <2>2, LockEffect, PaidIdle
  <2>3. CASE pc'[w] = "lock"
    BY <1>8, <2>1, <2>3, LockEffect, PaidGoes, StepSets
  <2>4. QED
    BY <1>8, <2>1, <2>2, <2>3, LockEffect
<1>9. ASSUME NEW w \in Workers, TakeMemo(w) \/ ReplaceMemo(w) \/ CachePayment(w)
      PROVE  PaidInv'
  <2>1. UNCHANGED paidVars
    BY <1>9 DEF TakeMemo, ReplaceMemo, CachePayment, paidVars
  <2>2. CASE pc'[w] = "idle"
    BY <1>9, <2>1, <2>2, PayEffect, PaidIdle
  <2>3. CASE pc'[w] # "idle"
    <3>1. /\ Alone(w) /\ job'[w].user = job[w].user /\ job'[w].task = job[w].task
          /\ pc[w] \in PaySteps /\ pc'[w] \in PaySteps
      BY <1>9, <2>3, PayEffect, StepSets
    <3>2. QED
      BY <2>1, <3>1, PaidGoes
  <2>4. QED
    BY <2>2, <2>3
<1>10. ASSUME NEW w \in Workers,
              FillCache(w) \/ RejectPremature(w) \/ AlreadyCompensating(w) \/ Crash(w)
       PROVE  PaidInv'
  <2>1. UNCHANGED paidVars
    BY <1>10 DEF FillCache, RejectPremature, AlreadyCompensating, Crash, paidVars
  <2>2. QED
    BY <1>10, <2>1, EndEffect, PaidIdle
<1>11. ASSUME NEW w \in Workers, RecordPayment(w) PROVE PaidInv'
  <2>1. Alone(w) /\ pc[w] = "record" /\ pc'[w] = "idle"
    BY <1>11, EndEffect DEF RecordPayment
  <2>2. UNCHANGED <<payLocks, payments>>
    BY <1>11 DEF RecordPayment
  <2>3. ASSUME NEW p \in PayIds, Unrecorded(p)' PROVE Unrecorded(p)
    <3>1. JobOK(w) /\ txRow \in [PayIds -> Row \cup {None}]
      BY DEF TypeOK
    <3>2. txRow[p] # None => txRow'[p] # None
      BY <1>11, <3>1 DEF RecordPayment
    <3>3. QED
      BY <2>2, <2>3, <3>2 DEF Unrecorded, Standing
  <2>4. PaidOnce' /\ (\A p \in PayIds :
          Unrecorded(p) => <<payments[p].user, payments[p].task>> \in payLocks)'
    BY <2>2, <2>3 DEF PaidInv, PaidOnce, Standing
  <2>5. ASSUME NEW v \in Workers PROVE PayerInv(v)'
    <3>1. CASE v = w
      BY <2>1, <3>1, StepSets DEF PayerInv, BeforeLock
    <3>2. CASE v # w
      BY <2>1, <2>2, <3>2 DEF PaidInv, PayerInv, BeforeLock, Alone, PaidBefore, Standing
    <3>3. QED
      BY <3>1, <3>2
  <2>6. \A v, x \in Workers :
          /\ pc'[v] \in PaySteps /\ pc'[x] \in PaySteps
          /\ job'[v].user = job'[x].user /\ job'[v].task = job'[x].task
          => v = x
    BY <2>1, StepSets DEF PaidInv, Alone
  <2>7. QED
    BY <2>4, <2>5, <2>6 DEF PaidInv
<1>12. ASSUME UNCHANGED <<pc, job>>,
              \/ \E p \in PayIds : Settle(p)
              \/ \E u \in Users, t \in Tasks : ExpirePayLock(u, t)
              \/ UNCHANGED paidVars
       PROVE  PaidInv'
  BY <1>12, PaidOutside
<1>13. ASSUME \/ \E u \in Users, c \in Cats : EndCooldown(u, c) \/ ExpireTaskCache(u, c)
              \/ \E u \in Users : MigrateMemos(u)
              \/ \E m \in Memos : ExpireMemoCache(m)
              \/ UNCHANGED vars
       PROVE  UNCHANGED paidVars /\ UNCHANGED <<pc, job>>
  BY <1>13 DEF EndCooldown, ExpireTaskCache, MigrateMemos, ExpireMemoCache, vars, paidVars
<1>14. ASSUME \/ \E p \in PayIds : Settle(p)
              \/ \E u \in Users, t \in Tasks : ExpirePayLock(u, t)
       PROVE  UNCHANGED <<pc, job>>
  BY <1>14 DEF Settle, ExpirePayLock
<1>15. QED
  BY <1>1, <1>2, <1>3, <1>4, <1>5, <1>6, <1>7, <1>8, <1>9, <1>10, <1>11, <1>12, <1>13,
     <1>14, LookupStep, TakePaidStep, SendPaidStep DEF Next

\* The service is asked at most once to pay a user for a task, however often the
\* results are sent and wherever handlers die.  The lock tells of a payment until the
\* callback's row does, if three things hold that the code does not see to: a user's
\* requests do not overlap, a payment is recorded before its lock expires, and no lock
\* expires while a submission that found no row goes on to the lock.
THEOREM TaskPaidOnce ==
  ASSUME Serial, Timely, Swift
  PROVE  Spec => []PaidOnce
<1>1. Init => PaidInv
  BY StepSets DEF Init, PaidInv, PaidOnce, Standing, Unrecorded, PayerInv, BeforeLock
<1>2. TypeOK /\ RecordedAsSent /\ PaidInv /\ [Next]_vars => PaidInv'
  BY PaidStep
<1>3. PaidInv => PaidOnce
  BY DEF PaidInv
<1>4. QED
  BY <1>1, <1>2, <1>3, TypeCorrect, PaymentsRecordedAsSent, PTL DEF Spec

-----------------------------------------------------------------------------
(* Solved tasks stay solved, and the tasks cache offers none of them. *)

\* What a handler has read of a user's solved tasks is still so when it acts on it.
ReaderInv(w) ==
  /\ pc[w] \in SubmitSteps => \A c \in Cats : taskCache[<<job[w].user, c>>] = None
  /\ pc[w] \in {"mint", "fill"} => job[w].task \notin completed[job[w].user]
  /\ pc[w] = "complete" => job[w].seen = completed[job[w].user]

SolvedInv ==
  /\ OneRequest
  /\ \A u \in Users, c \in Cats : taskCache[<<u, c>>] \notin completed[u]
  /\ \A w \in Workers : ReaderInv(w)

\* A handler moves with what ReaderInv asks of it, and changes nothing it is about.
LEMMA SolvedFrame ==
  ASSUME SolvedInv, OneRequest', UNCHANGED <<completed, taskCache>>, NEW w \in Workers,
         Alone(w), ReaderInv(w)'
  PROVE  SolvedInv'
BY DEF SolvedInv, ReaderInv, Alone

\* A handler past the check goes on with its submission, or any handler ends.
LEMMA SolvedGoes ==
  ASSUME SolvedInv, OneRequest', UNCHANGED <<completed, taskCache>>, NEW w \in Workers,
         Alone(w),
         \/ pc'[w] \in {"idle", "record", "select"}
         \/ /\ pc[w] \in SubmitSteps /\ pc'[w] \notin {"mint", "fill"}
            /\ job'[w].user = job[w].user
            /\ pc'[w] = "complete" => job'[w].seen = completed[job[w].user]
  PROVE  SolvedInv'
<1>1. ReaderInv(w)
  BY DEF SolvedInv
<1>2. ReaderInv(w)'
  BY <1>1, StepSets DEF ReaderInv
<1>3. QED
  BY <1>2, SolvedFrame

\* The cache of the user is cleared as the submission begins.
LEMMA SubmitSolvedStep ==
  ASSUME TypeOK, SolvedInv, OneRequest', NEW w \in Workers, NEW u \in Users, NEW t \in Tasks,
         SubmitResults(w, u, t)
  PROVE  SolvedInv'
<1>1. Alone(w) /\ pc'[w] = "check" /\ job'[w].user = u
  BY SubmitEffect
<1>2. completed' = completed
  BY DEF SubmitResults, appData
<1>3. ASSUME NEW x \in Users, NEW c \in Cats
      PROVE  taskCache'[<<x, c>>] = IF x = u THEN None ELSE taskCache[<<x, c>>]
  BY DEF SubmitResults
<1>4. ASSUME NEW x \in Users, NEW c \in Cats PROVE taskCache'[<<x, c>>] \notin completed'[x]
  BY <1>2, <1>3, PaymentsAssumption DEF SolvedInv, TypeOK
<1>5. ASSUME NEW v \in Workers PROVE ReaderInv(v)'
  <2>1. CASE v = w
    BY <1>1, <1>3, <2>1 DEF ReaderInv
  <2>2. CASE v # w
    <3>1. ReaderInv(v) /\ pc'[v] = pc[v] /\ job'[v] = job[v]
      BY <1>1, <2>2 DEF SolvedInv, Alone
    <3>2. ASSUME pc[v] \in SubmitSteps, NEW c \in Cats
          PROVE  taskCache'[<<job[v].user, c>>] = None
      BY <1>3, <3>1, <3>2 DEF ReaderInv, TypeOK, JobOK
    <3>3. QED
      BY <1>2, <3>1, <3>2 DEF ReaderInv
  <2>3. QED
    BY <2>1, <2>2
<1>6. QED
  BY <1>4, <1>5 DEF SolvedInv

\* The task goes to the cache unsolved: nobody solves it between choice and write.
LEMMA FillSolvedStep ==
  ASSUME TypeOK, SolvedInv, OneRequest', NEW w \in Workers, FillCache(w)
  PROVE  SolvedInv'
<1> DEFINE u == job[w].user
<1>1. Alone(w) /\ pc[w] = "fill" /\ pc'[w] = "idle"
  BY EndEffect DEF FillCache
<1>2. completed' = completed /\ u \in Users /\ job[w].cat \in Cats /\ InRequest(w)
  BY <1>1, StepSets DEF FillCache, appData, TypeOK, JobOK, InRequest
<1>3. job[w].task \notin completed[u]
  BY <1>1 DEF SolvedInv, ReaderInv
<1>4. ASSUME NEW x \in Users, NEW c \in Cats
      PROVE  taskCache'[<<x, c>>] = IF x = u /\ c = job[w].cat THEN job[w].task
                                    ELSE taskCache[<<x, c>>]
  BY <1>2 DEF FillCache, TypeOK
<1>5. ASSUME NEW x \in Users, NEW c \in Cats PROVE taskCache'[<<x, c>>] \notin completed'[x]
  BY <1>2, <1>3, <1>4 DEF SolvedInv
<1>6. ASSUME NEW v \in Workers PROVE ReaderInv(v)'
  <2>1. CASE v = w
    BY <1>1, <2>1, StepSets DEF ReaderInv
  <2>2. CASE v # w
    <3>1. ReaderInv(v) /\ pc'[v] = pc[v] /\ job'[v] = job[v]
      BY <1>1, <2>2 DEF SolvedInv, Alone
    <3>2. ASSUME pc[v] \in SubmitSteps, NEW c \in Cats
          PROVE  taskCache'[<<job[v].user, c>>] = None
      <4>1. job[v].user \in Users /\ job[v].user # u
        BY <1>2, <2>2, <3>2 DEF SolvedInv, OneRequest, InRequest, TypeOK, JobOK
      <4>2. QED
        BY <1>4, <3>1, <3>2, <4>1 DEF ReaderInv
    <3>3. QED
      BY <1>2, <3>1, <3>2 DEF ReaderInv
  <2>3. QED
    BY <2>1, <2>2
<1>7. QED
  BY <1>5, <1>6 DEF SolvedInv

\* The dict is written back with the task in it, while the user's cache is clear.
LEMMA MarkSolvedStep ==
  ASSUME TypeOK, SolvedInv, OneRequest', NEW w \in Workers, MarkCompleted(w)
  PROVE  SolvedInv'
<1> DEFINE u == job[w].user
<1>1. Alone(w) /\ pc[w] = "complete" /\ pc'[w] = "next" /\ job'[w].user = u
  BY StoreEffect DEF MarkCompleted
<1>2. taskCache' = taskCache /\ u \in Users /\ InRequest(w) /\ job[w].task \in Tasks
  BY <1>1, StepSets DEF MarkCompleted, redis, TypeOK, JobOK, InRequest
<1>3. \A c \in Cats : taskCache[<<u, c>>] = None
  BY <1>1, StepSets DEF SolvedInv, ReaderInv
<1>4. job[w].seen \in SUBSET Tasks
  BY DEF TypeOK, Job
<1>5. ASSUME NEW x \in Users
      PROVE  completed'[x] = IF x = u THEN job[w].seen \cup {job[w].task} ELSE completed[x]
  BY <1>2 DEF MarkCompleted, TypeOK
<1>6. ASSUME NEW x \in Users, NEW c \in Cats PROVE taskCache'[<<x, c>>] \notin completed'[x]
  BY <1>2, <1>3, <1>4, <1>5, PaymentsAssumption DEF SolvedInv
<1>7. ASSUME NEW v \in Workers PROVE ReaderInv(v)'
  <2>1. CASE v = w
    BY <1>1, <1>2, <1>3, <2>1 DEF ReaderInv
  <2>2. CASE v # w
    <3>1. ReaderInv(v) /\ pc'[v] = pc[v] /\ job'[v] = job[v]
      BY <1>1, <2>2 DEF SolvedInv, Alone
    <3>2. ASSUME pc[v] \in {"mint", "fill", "complete"}
          PROVE  completed'[job[v].user] = completed[job[v].user]
      <4>1. InRequest(v)
        BY <3>2, StepSets DEF InRequest
      <4>2. job[v].user \in Users /\ job[v].user # u
        BY <1>2, <2>2, <4>1 DEF SolvedInv, OneRequest, InRequest, TypeOK, JobOK
      <4>3. QED
        BY <1>5, <4>2
    <3>3. QED
      BY <1>2, <3>1, <3>2 DEF ReaderInv
  <2>3. QED
    BY <2>1, <2>2
<1>8. QED
  BY <1>6, <1>7 DEF SolvedInv

\* Every step preserves the invariant when a user's requests do not overlap.
LEMMA SolvedStep ==
  ASSUME TypeOK, Serial, SolvedInv, [Next]_vars
  PROVE  SolvedInv'
<1> USE DEF appData, redis
<1>1. OneRequest'
  BY RequestStep DEF SolvedInv
<1>2. ASSUME NEW w \in Workers, NEW u \in Users, NEW c \in Cats, GetTask(w, u, c)
      PROVE  SolvedInv'
  BY <1>1, <1>2, GetTaskEffect, SolvedGoes DEF GetTask
<1>3. ASSUME NEW w \in Workers, NEW p \in PayIds, ReceiveCallback(w, p) PROVE SolvedInv'
  BY <1>1, <1>3, CallbackEffect, SolvedGoes DEF ReceiveCallback
<1>4. ASSUME NEW w \in Workers, SelectTask(w) PROVE SolvedInv'
  <2>1. UNCHANGED <<completed, taskCache>>
    BY <1>4 DEF SelectTask
  <2>2. /\ Alone(w) /\ pc[w] = "select" /\ pc'[w] \in {"mint", "fill"}
        /\ job'[w].user = job[w].user
        /\ job'[w].task \in (Tasks \ completed[job[w].user]) \cup {Empty}
    BY <1>4, SelectEffect
  <2>3. Empty \notin completed[job[w].user]
    BY <2>2, StepSets, PaymentsAssumption DEF TypeOK, JobOK
  <2>4. ReaderInv(w)'
    BY <2>1, <2>2, <2>3, StepSets DEF ReaderInv
  <2>5. QED
    BY <1>1, <2>1, <2>2, <2>4, SolvedFrame
<1>5. ASSUME NEW w \in Workers, MintMemo(w) PROVE SolvedInv'
  <2>1. UNCHANGED <<completed, taskCache>>
    BY <1>5 DEF MintMemo
  <2>2. /\ Alone(w) /\ job'[w].user = job[w].user /\ job'[w].task = job[w].task
        /\ \/ pc[w] = "mint" /\ pc'[w] = "fill"
           \/ pc[w] = "mintnext" /\ pc'[w] = "schedule"
    BY <1>5, MintEffect
  <2>3. ReaderInv(w)'
    BY <2>1, <2>2, StepSets DEF SolvedInv, ReaderInv
  <2>4. QED
    BY <1>1, <2>1, <2>2, <2>3, SolvedFrame
<1>6. ASSUME NEW w \in Workers,
             PassCooldown(w) \/ LookupPayment(w) \/ LoadCompleted(w) \/ LoadNext(w)
      PROVE  SolvedInv'
  <2>1. UNCHANGED <<completed, taskCache>>
    BY <1>6 DEF PassCooldown, LookupPayment, LoadCompleted, LoadNext
  <2>2. /\ Alone(w) /\ pc[w] \in SubmitSteps /\ pc'[w] \notin {"mint", "fill"}
        /\ job'[w].user = job[w].user
        /\ pc'[w] = "complete" => job'[w].seen = completed[job[w].user]
    BY <1>6, StoreEffect, StepSets
  <2>3. QED
    BY <1>1, <2>1, <2>2, SolvedGoes
<1>7. ASSUME NEW w \in Workers, Schedule(w) \/ TakePayLock(w) PROVE SolvedInv'
  <2>1. UNCHANGED <<completed, taskCache>>
    BY <1>7 DEF Schedule, TakePayLock
  <2>2. QED
    BY <1>1, <1>7, <2>1, LockEffect, SolvedGoes, StepSets
<1>8. ASSUME NEW w \in Workers, TakeMemo(w) \/ ReplaceMemo(w) \/ CachePayment(w)
      PROVE  SolvedInv'
  <2>1. UNCHANGED <<completed, taskCache>>
    BY <1>8 DEF TakeMemo, ReplaceMemo, CachePayment
  <2>2. QED
    BY <1>1, <1>8, <2>1, PayEffect, SolvedGoes, StepSets
<1>9. ASSUME NEW w \in Workers,
             \/ RejectPremature(w) \/ AlreadyCompensating(w) \/ SendPayment(w)
             \/ RecordPayment(w) \/ Crash(w)
      PROVE  SolvedInv'
  <2>1. UNCHANGED <<completed, taskCache>>
    BY <1>9 DEF RejectPremature, AlreadyCompensating, SendPayment, RecordPayment, Crash
  <2>2. QED
    BY <1>1, <1>9, <2>1, EndEffect, SolvedGoes
<1>10. ASSUME UNCHANGED <<completed, pc, job>>,
              \A u \in Users, c \in Cats :
                taskCache'[<<u, c>>] = None \/ taskCache'[<<u, c>>] = taskCache[<<u, c>>]
       PROVE  SolvedInv'
  <2>1. ASSUME NEW u \in Users PROVE None \notin completed[u]
    BY PaymentsAssumption DEF TypeOK
  <2>2. ASSUME NEW v \in Workers PROVE ReaderInv(v)'
    BY <1>10 DEF SolvedInv, ReaderInv, TypeOK, JobOK
  <2>3. QED
    BY <1>1, <1>10, <2>1, <2>2 DEF SolvedInv
<1>11. ASSUME NEW x \in Users, NEW d \in Cats, ExpireTaskCache(x, d) PROVE SolvedInv'
  <2>1. UNCHANGED <<completed, pc, job>>
    BY <1>11 DEF ExpireTaskCache
  <2>2. \A u \in Users, c \in Cats :
          taskCache'[<<u, c>>] = None \/ taskCache'[<<u, c>>] = taskCache[<<u, c>>]
    BY <1>11 DEF ExpireTaskCache, TypeOK
  <2>3. QED
    BY <1>10, <2>1, <2>2
<1>12. ASSUME \/ \E u \in Users, c \in Cats : EndCooldown(u, c)
              \/ \E u \in Users, t \in Tasks : ExpirePayLock(u, t)
              \/ \E u \in Users : MigrateMemos(u)
              \/ \E m \in Memos : ExpireMemoCache(m)
              \/ \E p \in PayIds : Settle(p)
              \/ UNCHANGED vars
       PROVE  SolvedInv'
  <2>1. UNCHANGED <<completed, taskCache, pc, job>>
    BY <1>12 DEF EndCooldown, ExpirePayLock, MigrateMemos, ExpireMemoCache, Settle, vars
  <2>2. QED
    BY <1>10, <2>1
<1>13. QED
  BY <1>1, <1>2, <1>3, <1>4, <1>5, <1>6, <1>7, <1>8, <1>9, <1>11, <1>12,
     SubmitSolvedStep, FillSolvedStep, MarkSolvedStep DEF Next

\* The invariant holds throughout when a user's requests do not overlap.
LEMMA SolvedAlways ==
  ASSUME Serial
  PROVE  Spec => []SolvedInv
<1>1. Init => SolvedInv
  BY StepSets DEF Init, SolvedInv, OneRequest, InRequest, ReaderInv
<1>2. TypeOK /\ SolvedInv /\ [Next]_vars => SolvedInv'
  BY SolvedStep
<1>3. QED
  BY <1>1, <1>2, TypeCorrect, PTL DEF Spec

\* When a user's requests do not overlap, the tasks cache of a user with no request
\* in progress offers no solved task: a submission clears the cache before it
\* solves the task, and nothing refills it from what was read before.
THEOREM CacheOffersOpenTasks ==
  ASSUME Serial
  PROVE  Spec => []CachedTaskOpen
<1>1. SolvedInv => CachedTaskOpen
  BY DEF SolvedInv, CachedTaskOpen
<1>2. QED
  BY <1>1, SolvedAlways, PTL

\* When a user's requests do not overlap, no write of the whole dict of solved
\* tasks drops a task from it.
THEOREM SolvedStaysSolved ==
  ASSUME Serial
  PROVE  Spec => CompletedNeverLost
<1>1. TypeOK /\ SolvedInv /\ [Next]_vars
        => [\A u \in Users : completed[u] \subseteq completed'[u]]_vars
  <2> SUFFICES ASSUME TypeOK, SolvedInv, [Next]_vars, NEW u \in Users
               PROVE  completed[u] \subseteq completed'[u]
    OBVIOUS
  <2>1. ASSUME NEW w \in Workers, MarkCompleted(w) PROVE completed[u] \subseteq completed'[u]
    <3>1. job[w].seen = completed[job[w].user]
      BY <2>1 DEF MarkCompleted, SolvedInv, ReaderInv
    <3>2. QED
      BY <2>1, <3>1 DEF MarkCompleted, TypeOK
  <2>2. CASE UNCHANGED completed
    BY <2>2
  <2>3. QED
    BY <2>1, <2>2
    DEF Next, vars, appData, GetTask, SubmitResults, ReceiveCallback, SelectTask, MintMemo,
        FillCache, RejectPremature, PassCooldown, LookupPayment, LoadCompleted, LoadNext,
        Schedule, TakePayLock, AlreadyCompensating, TakeMemo, ReplaceMemo, CachePayment,
        SendPayment, RecordPayment, Crash, Settle, MigrateMemos, EndCooldown,
        ExpireTaskCache, ExpirePayLock, ExpireMemoCache
<1>2. QED
  BY <1>1, SolvedAlways, TypeCorrect, PTL DEF Spec, CompletedNeverLost
=============================================================================
