------------------------------ MODULE Payments ------------------------------
(***************************************************************************)
(* Solving tasks and getting paid for it.  GET /user/category/<c>/tasks    *)
(* serves the next task of a category, out of redis when it can;           *)
(* POST /user/task/results stores the answers and asks the payment service *)
(* for the reward under a memo; the service calls POST /payments/callback  *)
(* when the payment is on the blockchain, and only then is it written to   *)
(* table transaction, which is how a second submission is recognised.      *)
(*                                                                         *)
(* A worker is one uwsgi thread, and each SQL statement, redis call and    *)
(* HTTP call is an action of its own.  A column of user_app_data holds a   *)
(* whole dict: a handler selects the row, changes one key of its copy and  *)
(* writes the whole dict back.                                             *)
(***************************************************************************)
EXTENDS Naturals, FiniteSets

CONSTANTS
  Workers,   \* threads serving requests, of every server
  Users,
  Tasks,
  Cats,      \* task categories
  CatOf,     \* Tasks -> Cats: the column task2.category_id
  PhoneOf,   \* Users -> phone number: the column user.enc_phone_number, or None
  Memos,     \* what generate_order_id may ever produce (bounds the memos)
  PayIds,    \* payments the service may ever accept (bounds them); also their hash
  MaxTurns,  \* bounds how often one payment lock is taken: it expires less often
  Timely,    \* a payment is recorded before the lock taken for it expires
  Swift,     \* no payment lock expires between a submission's look for an earlier
             \* payment and its own attempt at the lock
  Serial,    \* a user has one request at a time in progress
  Faulty,    \* processes may die
  Empty,     \* a cached empty list of tasks
  None       \* SQL NULL, a missing key, or no value

ASSUME PaymentsAssumption ==
  /\ CatOf \in [Tasks -> Cats]
  /\ MaxTurns \in Nat
  /\ Timely \in BOOLEAN /\ Swift \in BOOLEAN /\ Serial \in BOOLEAN /\ Faulty \in BOOLEAN
  /\ DOMAIN PhoneOf = Users
  /\ Empty # None /\ Empty \notin Tasks
  /\ None \notin Users \cup Tasks \cup Cats \cup Memos \cup PayIds

VARIABLES
  completed,  \* user_app_data.completed_tasks_dict: the tasks each user has solved
  cooling,    \* user_app_data.next_task_ts_dict: categories whose time is yet to come
  nextMemo,   \* user_app_data.next_task_memo_dict
  taskCache,  \* redis: the task last served to a user in a category
  payLocks,   \* redis: the keys pay:<user_id>-<task_id>
  memoCache,  \* redis: memo:<memo>, the user and task a payment was asked for
  payments,   \* the payment service: what it was asked to pay, and how far it got
  txRow,      \* table transaction: the outgoing rows, by hash
  memoOwner,  \* history: the user each memo was generated for
  turn,       \* history: how often each payment lock was taken
  pc,         \* where each worker stands in its handler
  job         \* the local variables of each worker's handler

appData == <<completed, cooling, nextMemo>>
redis == <<taskCache, payLocks, memoCache>>
history == <<memoOwner, turn>>
vars == <<completed, cooling, nextMemo, taskCache, payLocks, memoCache, payments,
          txRow, memoOwner, turn, pc, job>>

-----------------------------------------------------------------------------

ServeSteps == {"select", "mint", "fill"}
StoreSteps == {"load", "complete", "next", "mintnext", "schedule"}
PaySteps == {"memo", "replace", "announce", "send"}
SubmitSteps == {"check", "lookup"} \cup StoreSteps \cup {"lock"} \cup PaySteps
Steps == {"idle", "record"} \cup ServeSteps \cup SubmitSteps

MemoDict == [Cats -> Memos \cup {None}]
Request == [user : Users, task : Tasks]
Payment == [user : Users, task : Tasks, memo : Memos, turn : Nat,
            state : {"sent", "settled", "failed"}]
Row == [user : Users, task : Tasks, memo : Memos]

ASSUME PaymentsNoneAssumption == None \notin Request \cup Payment \cup Row

\* seen, times, memos: the handler's copies of the three dicts, forgotten here
\* once it has no more use for them.
Job == [user : Users \cup {None}, cat : Cats \cup {None},
        task : Tasks \cup {None, Empty}, seen : SUBSET Tasks, times : SUBSET Cats,
        memos : MemoDict, paid : BOOLEAN, memo : Memos \cup {None}, turn : Nat,
        pay : PayIds \cup {None}]
NoMemos == [c \in Cats |-> None]
NoJob == [user |-> None, cat |-> None, task |-> None, seen |-> {}, times |-> {},
          memos |-> NoMemos, paid |-> FALSE, memo |-> None, turn |-> 0, pay |-> None]

\* The local variables a handler has set by the time it reaches a step.
JobOK(w) ==
  /\ pc[w] \in ServeSteps \cup SubmitSteps => job[w].user \in Users /\ job[w].cat \in Cats
  /\ pc[w] \in {"mint", "fill"} => job[w].task \in Tasks \cup {Empty}
  /\ pc[w] \in SubmitSteps \cup {"record"} => job[w].task \in Tasks
  /\ pc[w] \in {"replace", "announce", "send", "record"} => job[w].memo \in Memos
  /\ pc[w] = "record" => job[w].user \in Users /\ job[w].pay \in PayIds

TypeOK ==
  /\ completed \in [Users -> SUBSET Tasks]
  /\ cooling \in [Users -> SUBSET Cats]
  /\ nextMemo \in [Users -> MemoDict]
  /\ taskCache \in [Users \X Cats -> Tasks \cup {Empty, None}]
  /\ payLocks \subseteq Users \X Tasks
  /\ memoCache \in [Memos -> Request \cup {None}]
  /\ payments \in [PayIds -> Payment \cup {None}]
  /\ txRow \in [PayIds -> Row \cup {None}]
  /\ memoOwner \in [Memos -> Users \cup {None}]
  /\ turn \in [Users \X Tasks -> Nat]
  /\ pc \in [Workers -> Steps]
  /\ job \in [Workers -> Job]
  /\ \A w \in Workers : JobOK(w)

Init ==
  /\ completed = [u \in Users |-> {}]
  /\ cooling = [u \in Users |-> {}]
  /\ nextMemo = [u \in Users |-> NoMemos]
  /\ taskCache = [k \in Users \X Cats |-> None]
  /\ payLocks = {}
  /\ memoCache = [m \in Memos |-> None]
  /\ payments = [p \in PayIds |-> None]
  /\ txRow = [p \in PayIds |-> None]
  /\ memoOwner = [m \in Memos |-> None]
  /\ turn = [k \in Users \X Tasks |-> 0]
  /\ pc = [w \in Workers |-> "idle"]
  /\ job = [w \in Workers |-> NoJob]

-----------------------------------------------------------------------------

(* Operators named ...Broken are the code with one plausible mistake in it; *)
(* no action uses them.  They show that a property notices the mistake.      *)

TasksOf(c) == {t \in Tasks : CatOf[t] = c}

\* get_associated_user_ids.
Associated(u) == {v \in Users : v = u \/ (PhoneOf[u] # None /\ PhoneOf[v] = PhoneOf[u])}

\* handle_task_results_resubmission: get_memo_for_user_ids finds a row.
AlreadyPaidBroken(u, t) ==
  \E p \in PayIds : txRow[p] # None /\ txRow[p].task = t /\ txRow[p].user \in Associated(u) \ {u}
AlreadyPaid(u, t) ==
  \E p \in PayIds : txRow[p] # None /\ txRow[p].task = t /\ txRow[p].user \in Associated(u)

\* The service was asked for p and has not turned it down.
Standing(p) == payments[p] # None /\ payments[p].state # "failed"
Unrecorded(p) == Standing(p) /\ txRow[p] = None

UserBusy(u) == \E w \in Workers : pc[w] \in ServeSteps \cup SubmitSteps /\ job[w].user = u
MayCall(u) == Serial => ~UserBusy(u)

Goto(w, step) == pc' = [pc EXCEPT ![w] = step]
Finish(w) == Goto(w, "idle") /\ job' = [job EXCEPT ![w] = NoJob]

\* generate_order_id: random, and long enough not to repeat.
FreshMemo(m) == memoOwner[m] = None

-----------------------------------------------------------------------------
(* GET /user/category/<cat_id>/tasks: get_next_tasks_for_user. *)

\* The tasks cache has an answer, or it has none and the handler goes on.
GetTask(w, u, c) ==
  /\ pc[w] = "idle" /\ MayCall(u)
  /\ taskCache[<<u, c>>] = None
  /\ Goto(w, "select")
  /\ job' = [job EXCEPT ![w] = [NoJob EXCEPT !.user = u, !.cat = c]]
  /\ UNCHANGED <<appData, redis, payments, txRow, history>>

\* next_task_id_for_category: the first unsolved task the filters let through
\* (client version, country, dates; here, any), or an empty list.
SelectTask(w) ==
  LET j == job[w] IN
  /\ pc[w] = "select"
  /\ \E t \in (TasksOf(j.cat) \ completed[j.user]) \cup {Empty} :
       IF t # Empty /\ nextMemo[j.user][j.cat] = None
         THEN job' = [job EXCEPT ![w].task = t, ![w].memos = nextMemo[j.user]] /\ Goto(w, "mint")
         ELSE job' = [job EXCEPT ![w].task = t] /\ Goto(w, "fill")
  /\ UNCHANGED <<appData, redis, payments, txRow, history>>

\* get_next_task_memo: generate_and_save_next_task_memo writes the whole dict.
\* During a submission the dict of times is selected again after this commit.
MintMemo(w) ==
  LET j == job[w] IN
  /\ \E m \in Memos :
       /\ FreshMemo(m)
       /\ memoOwner' = [memoOwner EXCEPT ![m] = j.user]
       /\ nextMemo' = [nextMemo EXCEPT ![j.user] = [j.memos EXCEPT ![j.cat] = m]]
  /\ \/ /\ pc[w] = "mint"
        /\ job' = [job EXCEPT ![w].memos = NoMemos]
        /\ Goto(w, "fill")
     \/ /\ pc[w] = "mintnext"
        /\ job' = [job EXCEPT ![w].memos = NoMemos, ![w].times = cooling[j.user]]
        /\ Goto(w, "schedule")
  /\ UNCHANGED <<completed, cooling, redis, payments, txRow, turn>>

\* The answer goes to the tasks cache, for 30 minutes.
FillCache(w) ==
  /\ pc[w] = "fill"
  /\ taskCache' = [taskCache EXCEPT ![<<job[w].user, job[w].cat>>] = job[w].task]
  /\ Finish(w)
  /\ UNCHANGED <<appData, payLocks, memoCache, payments, txRow, history>>

\* POST /user/migrate: migrate_next_task_memo empties the dict.
MigrateMemos(u) ==
  /\ MayCall(u)
  /\ nextMemo[u] # NoMemos
  /\ nextMemo' = [nextMemo EXCEPT ![u] = NoMemos]
  /\ UNCHANGED <<completed, cooling, redis, payments, txRow, history, pc, job>>

-----------------------------------------------------------------------------
(* POST /user/task/results: post_user_task_results_endpoint. *)

\* The request is authorised; the user's tasks cache is cleared.
SubmitResultsBroken(w, u, t) ==
  /\ pc[w] = "idle" /\ MayCall(u)
  /\ Goto(w, "check")
  /\ job' = [job EXCEPT ![w] = [NoJob EXCEPT !.user = u, !.task = t, !.cat = CatOf[t]]]
  /\ UNCHANGED <<appData, redis, payments, txRow, history>>

SubmitResults(w, u, t) ==
  /\ pc[w] = "idle" /\ MayCall(u)
  /\ taskCache' = [k \in Users \X Cats |-> IF k[1] = u THEN None ELSE taskCache[k]]
  /\ Goto(w, "check")
  /\ job' = [job EXCEPT ![w] = [NoJob EXCEPT !.user = u, !.task = t, !.cat = CatOf[t]]]
  /\ UNCHANGED <<appData, payLocks, memoCache, payments, txRow, history>>

\* reject_premature_results.
RejectPremature(w) ==
  /\ pc[w] = "check"
  /\ job[w].cat \in cooling[job[w].user]
  /\ Finish(w)
  /\ UNCHANGED <<appData, redis, payments, txRow, history>>

PassCooldown(w) ==
  /\ pc[w] = "check"
  /\ job[w].cat \notin cooling[job[w].user]
  /\ Goto(w, "lookup")
  /\ UNCHANGED <<appData, redis, payments, txRow, history, job>>

\* handle_task_results_resubmission.
LookupPayment(w) ==
  /\ pc[w] = "lookup"
  /\ job' = [job EXCEPT ![w].paid = AlreadyPaid(job[w].user, job[w].task)]
  /\ Goto(w, "load")
  /\ UNCHANGED <<appData, redis, payments, txRow, history>>

\* store_task_results upserts the answers, which nothing else reads, and selects
\* user_app_data.
LoadCompleted(w) ==
  /\ pc[w] = "load"
  /\ job' = [job EXCEPT ![w].seen = completed[job[w].user]]
  /\ Goto(w, "complete")
  /\ UNCHANGED <<appData, redis, payments, txRow, history>>

\* completed_tasks_dict is written back with the task in it.
MarkCompletedBroken(w) ==
  /\ pc[w] = "complete"
  /\ completed' = [completed EXCEPT ![job[w].user] = {job[w].task}]
  /\ Goto(w, "next")
  /\ UNCHANGED <<cooling, nextMemo, redis, payments, txRow, history, job>>

MarkCompleted(w) ==
  /\ pc[w] = "complete"
  /\ completed' = [completed EXCEPT ![job[w].user] = job[w].seen \cup {job[w].task}]
  /\ job' = [job EXCEPT ![w].seen = {}]
  /\ Goto(w, "next")
  /\ UNCHANGED <<cooling, nextMemo, redis, payments, txRow, history>>

\* get_next_task_delay_days looks for the next task of the category, and in
\* passing mints a memo for it when there is none.
LoadNext(w) ==
  LET j == job[w] IN
  /\ pc[w] = "next"
  /\ \/ /\ job' = [job EXCEPT ![w].times = cooling[j.user]]
        /\ Goto(w, "schedule")
     \/ /\ nextMemo[j.user][j.cat] = None
        /\ TasksOf(j.cat) \ completed[j.user] # {}
        /\ job' = [job EXCEPT ![w].memos = nextMemo[j.user]]
        /\ Goto(w, "mintnext")
  /\ UNCHANGED <<appData, redis, payments, txRow, history>>

\* store_next_task_results_ts writes the whole dict of times; the category's is
\* in the future iff the next task has delay_days.  A paid task ends here.
Schedule(w) ==
  LET j == job[w] IN
  /\ pc[w] = "schedule"
  /\ \E later \in {{}, {j.cat}} :
       cooling' = [cooling EXCEPT ![j.user] = (j.times \ {j.cat}) \cup later]
  /\ IF j.paid THEN Finish(w)
     ELSE Goto(w, "lock") /\ job' = [job EXCEPT ![w].times = {}]
  /\ UNCHANGED <<completed, nextMemo, redis, payments, txRow, history>>

\* The lock pay:<user>-<task>, for 60 seconds.
TakePayLockBroken(w) ==
  LET k == <<job[w].user, job[w].task>> IN
  /\ pc[w] = "lock"
  /\ payLocks' = payLocks \cup {k}
  /\ turn' = [turn EXCEPT ![k] = IF k \in payLocks THEN @ ELSE @ + 1]
  /\ job' = [job EXCEPT ![w].turn = turn'[k]]
  /\ Goto(w, "memo")
  /\ UNCHANGED <<appData, taskCache, memoCache, payments, txRow, memoOwner>>

TakePayLock(w) ==
  LET k == <<job[w].user, job[w].task>> IN
  /\ pc[w] = "lock"
  /\ k \notin payLocks
  /\ payLocks' = payLocks \cup {k}
  /\ turn' = [turn EXCEPT ![k] = @ + 1]
  /\ job' = [job EXCEPT ![w].turn = turn[k] + 1]
  /\ Goto(w, "memo")
  /\ UNCHANGED <<appData, taskCache, memoCache, payments, txRow, memoOwner>>

\* already_compensating.
AlreadyCompensating(w) ==
  /\ pc[w] = "lock"
  /\ <<job[w].user, job[w].task>> \in payLocks
  /\ Finish(w)
  /\ UNCHANGED <<appData, redis, payments, txRow, history>>

\* get_and_replace_next_task_memo selects the dict.  Without a memo for the
\* category it raises; the handler swallows that and answers without paying.
TakeMemoBroken(w) ==
  LET j == job[w]
      dict == nextMemo[j.user] IN
  /\ pc[w] = "memo"
  /\ job' = [job EXCEPT ![w].memos = dict, ![w].memo = dict[j.cat]]
  /\ Goto(w, "replace")
  /\ UNCHANGED <<appData, redis, payments, txRow, history>>

TakeMemo(w) ==
  LET j == job[w]
      dict == nextMemo[j.user] IN
  /\ pc[w] = "memo"
  /\ IF dict[j.cat] = None
       THEN Finish(w)
       ELSE /\ job' = [job EXCEPT ![w].memos = dict, ![w].memo = dict[j.cat]]
            /\ Goto(w, "replace")
  /\ UNCHANGED <<appData, redis, payments, txRow, history>>

\* generate_and_save_next_task_memo writes the whole dict.
ReplaceMemoBroken(w) ==
  /\ pc[w] = "replace"
  /\ Goto(w, "announce")
  /\ UNCHANGED <<appData, redis, payments, txRow, history, job>>

ReplaceMemo(w) ==
  LET j == job[w] IN
  /\ pc[w] = "replace"
  /\ \E m \in Memos :
       /\ FreshMemo(m)
       /\ memoOwner' = [memoOwner EXCEPT ![m] = j.user]
       /\ nextMemo' = [nextMemo EXCEPT ![j.user] = [j.memos EXCEPT ![j.cat] = m]]
  /\ job' = [job EXCEPT ![w].memos = NoMemos]
  /\ Goto(w, "announce")
  /\ UNCHANGED <<completed, cooling, redis, payments, txRow, turn>>

\* write_payment_data_to_cache, for 30 minutes.
CachePayment(w) ==
  /\ pc[w] = "announce"
  /\ memoCache' = [memoCache EXCEPT ![job[w].memo] =
                     [user |-> job[w].user, task |-> job[w].task]]
  /\ Goto(w, "send")
  /\ UNCHANGED <<appData, taskCache, payLocks, payments, txRow, history, job>>

\* send_kin_with_payment_service: the service takes the request or it does not
\* (an error, or an amount below 1); the handler answers ok either way.
SendPayment(w) ==
  LET j == job[w] IN
  /\ pc[w] = "send"
  /\ \/ \E p \in PayIds :
          /\ payments[p] = None
          /\ payments' = [payments EXCEPT ![p] =
               [user |-> j.user, task |-> j.task, memo |-> j.memo, turn |-> j.turn,
                state |-> "sent"]]
     \/ UNCHANGED payments
  /\ Finish(w)
  /\ UNCHANGED <<appData, redis, txRow, history>>

-----------------------------------------------------------------------------
(* The payment service, and POST /payments/callback. *)

\* The service has the payment on the blockchain, or gives it up; a failed
\* payment is only counted by the callback.
Settle(p) ==
  /\ payments[p] # None /\ payments[p].state = "sent"
  /\ \E state \in {"settled", "failed"} :
       payments' = [payments EXCEPT ![p].state = state]
  /\ UNCHANGED <<appData, redis, txRow, history, pc, job>>

\* The callback, perhaps repeated, reads the user and the task from the cache.
\* When they are gone it answers with an error and changes nothing.
ReceiveCallback(w, p) ==
  /\ pc[w] = "idle"
  /\ payments[p] # None /\ payments[p].state = "settled"
  /\ LET entry == memoCache[payments[p].memo] IN
     /\ entry # None
     /\ job' = [job EXCEPT ![w] = [NoJob EXCEPT !.user = entry.user, !.task = entry.task,
                                   !.memo = payments[p].memo, !.pay = p]]
  /\ Goto(w, "record")
  /\ UNCHANGED <<appData, redis, payments, txRow, history>>

\* create_tx; a duplicate hash is only logged.  The new Lock object whose
\* release() comes next does not hold pay:<user>-<task>: that raises, and is logged.
RecordPayment(w) ==
  LET j == job[w] IN
  /\ pc[w] = "record"
  /\ txRow' = IF txRow[j.pay] # None THEN txRow
              ELSE [txRow EXCEPT ![j.pay] =
                      [user |-> j.user, task |-> j.task, memo |-> j.memo]]
  /\ Finish(w)
  /\ UNCHANGED <<appData, redis, payments, history>>

-----------------------------------------------------------------------------
(* Time and failures. *)

\* next_task_ts comes to pass.
EndCooldown(u, c) ==
  /\ c \in cooling[u]
  /\ cooling' = [cooling EXCEPT ![u] = @ \ {c}]
  /\ UNCHANGED <<completed, nextMemo, redis, payments, txRow, history, pc, job>>

\* A submission that pays unless it finds the lock taken, and is yet to try.
BeforeLock(w) == (pc[w] \in StoreSteps /\ ~job[w].paid) \/ pc[w] = "lock"

\* 60 seconds after it was taken, come what may.  Timely and Swift leave out what can
\* happen then: the code guarantees neither.
ExpirePayLock(u, t) ==
  /\ <<u, t>> \in payLocks
  /\ turn[<<u, t>>] < MaxTurns
  /\ Timely =>
       /\ \A p \in PayIds :
            Unrecorded(p) => ~(payments[p].user = u /\ payments[p].task = t)
       /\ \A w \in Workers :
            ~(pc[w] \in PaySteps /\ job[w].user = u /\ job[w].task = t)
  /\ Swift =>
       \A w \in Workers : ~(BeforeLock(w) /\ job[w].user = u /\ job[w].task = t)
  /\ payLocks' = payLocks \ {<<u, t>>}
  /\ UNCHANGED <<appData, taskCache, memoCache, payments, txRow, history, pc, job>>

\* 30 minutes after they were written.
ExpireMemoCache(m) ==
  /\ memoCache[m] # None
  /\ Timely =>
       /\ \A p \in PayIds : Unrecorded(p) => payments[p].memo # m
       /\ \A w \in Workers : ~(pc[w] = "send" /\ job[w].memo = m)
  /\ memoCache' = [memoCache EXCEPT ![m] = None]
  /\ UNCHANGED <<appData, taskCache, payLocks, payments, txRow, history, pc, job>>

ExpireTaskCache(u, c) ==
  /\ taskCache[<<u, c>>] # None
  /\ taskCache' = [taskCache EXCEPT ![<<u, c>>] = None]
  /\ UNCHANGED <<appData, payLocks, memoCache, payments, txRow, history, pc, job>>

\* The process dies, or a call raises an exception that ends the handler.
Crash(w) ==
  /\ Faulty
  /\ pc[w] # "idle"
  /\ Finish(w)
  /\ UNCHANGED <<appData, redis, payments, txRow, history>>

Next ==
  \/ \E w \in Workers :
       \/ \E u \in Users, c \in Cats : GetTask(w, u, c)
       \/ \E u \in Users, t \in Tasks : SubmitResults(w, u, t)
       \/ \E p \in PayIds : ReceiveCallback(w, p)
       \/ SelectTask(w) \/ MintMemo(w) \/ FillCache(w)
       \/ RejectPremature(w) \/ PassCooldown(w) \/ LookupPayment(w)
       \/ LoadCompleted(w) \/ MarkCompleted(w) \/ LoadNext(w) \/ Schedule(w)
       \/ TakePayLock(w) \/ AlreadyCompensating(w)
       \/ TakeMemo(w) \/ ReplaceMemo(w) \/ CachePayment(w) \/ SendPayment(w)
       \/ RecordPayment(w) \/ Crash(w)
  \/ \E p \in PayIds : Settle(p)
  \/ \E u \in Users : MigrateMemos(u)
  \/ \E u \in Users, c \in Cats : EndCooldown(u, c) \/ ExpireTaskCache(u, c)
  \/ \E u \in Users, t \in Tasks : ExpirePayLock(u, t)
  \/ \E m \in Memos : ExpireMemoCache(m)

Spec == Init /\ [][Next]_vars

-----------------------------------------------------------------------------
(* Properties. *)

\* Each time the payment lock is taken, the task is paid for at most once: two
\* payments of a task to a user come from two turns of holding its lock.
OnePaymentPerLock ==
  \A p, q \in PayIds :
    /\ payments[p] # None /\ payments[q] # None
    /\ payments[p].user = payments[q].user /\ payments[p].task = payments[q].task
    /\ payments[p].turn = payments[q].turn
    => p = q

\* The row the callback writes names the user and the task that were paid for:
\* the memo is the only link between the payment and the cached request.
RecordedAsSent ==
  \A p \in PayIds : txRow[p] # None =>
    /\ payments[p] # None
    /\ txRow[p] = [user |-> payments[p].user, task |-> payments[p].task,
                   memo |-> payments[p].memo]

\* A user is paid for a task at most once, however often the results are sent
\* ("prevent multiple payments for the same user_id and task_id").
PaidOnce ==
  \A p, q \in PayIds :
    /\ Standing(p) /\ Standing(q)
    /\ payments[p].user = payments[q].user /\ payments[p].task = payments[q].task
    => p = q

\* A solved task stays solved.
CompletedNeverLost == [][\A u \in Users : completed[u] \subseteq completed'[u]]_vars

\* Between requests, the tasks cache does not offer a task the user has solved.
CachedTaskOpen ==
  \A u \in Users, c \in Cats : ~UserBusy(u) => taskCache[<<u, c>>] \notin completed[u]

-----------------------------------------------------------------------------
(* The inductive invariant behind OnePaymentPerLock. *)

\* A worker that has taken the lock will pay under a turn of its own: nothing
\* was paid under it, and no other worker holds the same turn.
LockInv ==
  /\ OnePaymentPerLock
  /\ \A p \in PayIds : payments[p] # None =>
       payments[p].turn <= turn[<<payments[p].user, payments[p].task>>]
  /\ \A w \in Workers : pc[w] \in PaySteps =>
       /\ job[w].turn <= turn[<<job[w].user, job[w].task>>]
       /\ \A p \in PayIds :
            /\ payments[p] # None
            /\ payments[p].user = job[w].user /\ payments[p].task = job[w].task
            => payments[p].turn # job[w].turn
       /\ \A v \in Workers \ {w} :
            pc[v] \in PaySteps /\ job[v].user = job[w].user /\ job[v].task = job[w].task
              => job[v].turn # job[w].turn
=============================================================================
