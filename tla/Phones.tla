-------------------------------- MODULE Phones --------------------------------
(***************************************************************************)
(* Phone numbers and the users behind them.  A client that has verified a  *)
(* number sends POST /user/firebase/update-id-token; the number moves to   *)
(* its user, the other users of the number are deactivated, and the        *)
(* history of solved tasks goes to the new one.  POST /user/restore takes  *)
(* the number back to an earlier user.  Every statement commits by itself. *)
(*                                                                         *)
(* A worker is one uwsgi thread.  Nothing keeps two requests about one     *)
(* number, or of one user, apart.                                          *)
(***************************************************************************)
EXTENDS Naturals, FiniteSets

CONSTANTS
  Workers,           \* threads serving requests, of every server
  Users,             \* registered users; each has a public address of its own
  Numbers,           \* phone numbers (encrypted: one ciphertext per number)
  Tasks,
  MaxRegistrations,  \* config.MAX_NUM_REGISTRATIONS_PER_NUMBER
  Faulty,            \* processes may die and statements may fail
  None               \* SQL NULL, or no value

ASSUME PhonesAssumption ==
  /\ IsFiniteSet(Workers)
  /\ MaxRegistrations \in Nat
  /\ Faulty \in BOOLEAN
  /\ None \notin Users \cup Numbers \cup Tasks

VARIABLES
  phone,        \* column user.enc_phone_number
  deactivated,  \* users whose column deactivated is true
  completed,    \* user_app_data.completed_tasks_dict
  results,      \* table user_task_results: pairs of user and task
  hinted,       \* table phone_backup_hints: the numbers with a row
  pc,           \* where each worker stands in its handler
  job,          \* the local variables of each worker's handler
  todo,         \* the users a handler has still to deactivate
  earned,       \* history: tasks solved by the users of a number
  overlapped,   \* history: numbers with two requests at once
  spoiled,      \* history: numbers with a request that ended halfway, or
                \* that took the place of another, or lost its place to another
  blocked       \* history: users deactivated for their old client

tables == <<phone, deactivated, completed, results, hinted>>
history == <<earned, overlapped, spoiled, blocked>>
vars == <<phone, deactivated, completed, results, hinted, pc, job, todo,
          earned, overlapped, spoiled, blocked>>

-----------------------------------------------------------------------------

VerifySteps == {"count", "read", "write"}
RestoreSteps == {"match", "activate"}
MoveSteps == {"list", "deactivate", "copy", "purge", "move"}
SubmitSteps == {"store", "load", "mark"}
Steps == {"idle"} \cup VerifySteps \cup RestoreSteps \cup MoveSteps \cup SubmitSteps

\* user: whom the number goes to (or who solved the task).
Job == [user : Users \cup {None}, number : Numbers \cup {None},
        victim : Users \cup {None}, task : Tasks \cup {None}, seen : SUBSET Tasks]
NoJob == [user |-> None, number |-> None, victim |-> None, task |-> None, seen |-> {}]

\* The local variables a handler has set by the time it reaches a step.
JobOK(w) ==
  /\ pc[w] # "idle" => job[w].user \in Users /\ job[w].number \in Numbers
  /\ pc[w] \in {"copy", "purge", "move"} => job[w].victim \in Users
  /\ pc[w] \in SubmitSteps => job[w].task \in Tasks

TypeOK ==
  /\ phone \in [Users -> Numbers \cup {None}]
  /\ deactivated \subseteq Users
  /\ completed \in [Users -> SUBSET Tasks]
  /\ results \subseteq Users \X Tasks
  /\ hinted \subseteq Numbers
  /\ pc \in [Workers -> Steps]
  /\ job \in [Workers -> Job]
  /\ todo \in [Workers -> SUBSET Users]
  /\ earned \in [Numbers -> SUBSET Tasks]
  /\ overlapped \subseteq Numbers
  /\ spoiled \subseteq Numbers
  /\ blocked \subseteq Users
  /\ \A w \in Workers : JobOK(w)

Init ==
  /\ phone = [u \in Users |-> None]
  /\ deactivated = {}
  /\ completed = [u \in Users |-> {}]
  /\ results = {}
  /\ hinted = {}
  /\ pc = [w \in Workers |-> "idle"]
  /\ job = [w \in Workers |-> NoJob]
  /\ todo = [w \in Workers |-> {}]
  /\ earned = [n \in Numbers |-> {}]
  /\ overlapped = {}
  /\ spoiled = {}
  /\ blocked = {}

-----------------------------------------------------------------------------

(* Operators named ...Broken are the code with one plausible mistake in it; *)
(* no action uses them.  They show that a property notices the mistake.      *)

UsersOf(n) == {u \in Users : phone[u] = n}
ActiveUsers(n) == UsersOf(n) \ deactivated

\* count_registrations_for_phone_number, and the comparison made with it.
TooManyRegistrationsBroken(n) == Cardinality(UsersOf(n)) > MaxRegistrations
TooManyRegistrations(n) == Cardinality(UsersOf(n)) > MaxRegistrations - 1

BusyWith(n) == \E w \in Workers : pc[w] # "idle" /\ job[w].number = n

Goto(w, step) == pc' = [pc EXCEPT ![w] = step]
Finish(w) == Goto(w, "idle") /\ job' = [job EXCEPT ![w] = NoJob]

\* A request about number n arrives.
Start(w, step, j) ==
  /\ pc[w] = "idle"
  /\ Goto(w, step)
  /\ job' = [job EXCEPT ![w] = j]
  /\ overlapped' = IF BusyWith(j.number) THEN overlapped \cup {j.number} ELSE overlapped
  /\ UNCHANGED <<tables, todo, earned, spoiled, blocked>>

-----------------------------------------------------------------------------
(* POST /user/firebase/update-id-token: set_user_phone_number_endpoint,     *)
(* set_user_phone_number.                                                   *)

VerifyNumber(w, u, n) == Start(w, "count", [NoJob EXCEPT !.user = u, !.number = n])

\* 403 when the number has been registered too often.
CheckRegistrations(w) ==
  /\ pc[w] = "count"
  /\ IF TooManyRegistrations(job[w].number)
       THEN Finish(w)
       ELSE Goto(w, "read") /\ UNCHANGED job
  /\ UNCHANGED <<tables, todo, history>>

\* The same number again is ignored; a different one is refused.
ReadNumber(w) ==
  /\ pc[w] = "read"
  /\ IF phone[job[w].user] = None
       THEN Goto(w, "write") /\ UNCHANGED job
       ELSE Finish(w)
  /\ UNCHANGED <<tables, todo, history>>

WriteNumber(w) ==
  /\ pc[w] = "write"
  /\ phone' = [phone EXCEPT ![job[w].user] = job[w].number]
  /\ spoiled' = IF phone[job[w].user] \in {None, job[w].number} THEN spoiled
                ELSE spoiled \cup {job[w].number, phone[job[w].user]}
  /\ Goto(w, "list")
  /\ UNCHANGED <<deactivated, completed, results, hinted, job, todo, earned, overlapped,
                 blocked>>

-----------------------------------------------------------------------------
(* deactivate_by_enc_phone_number. *)

\* The active users of the number, except the new one.
OthersOf(u, n) == ActiveUsers(n) \ {u}

ListOthers(w) ==
  /\ pc[w] = "list"
  /\ LET others == OthersOf(job[w].user, job[w].number) IN
       IF others = {}
         THEN Finish(w) /\ UNCHANGED todo
         ELSE Goto(w, "deactivate") /\ todo' = [todo EXCEPT ![w] = others] /\ UNCHANGED job
  /\ UNCHANGED <<tables, history>>

\* The update names the number as well as the user.
DeactivateOther(w) ==
  /\ pc[w] = "deactivate"
  /\ \E v \in todo[w] :
       /\ deactivated' = IF phone[v] = job[w].number THEN deactivated \cup {v} ELSE deactivated
       /\ job' = [job EXCEPT ![w].victim = v]
       /\ todo' = [todo EXCEPT ![w] = @ \ {v}]
  /\ Goto(w, "copy")
  /\ UNCHANGED <<phone, completed, results, hinted, history>>

\* completed_tasks_dict and next_task_ts_dict, in one statement.
CopyHistory(w) ==
  /\ pc[w] = "copy"
  /\ completed' = [completed EXCEPT ![job[w].user] = completed[job[w].victim]]
  /\ Goto(w, "purge")
  /\ UNCHANGED <<phone, deactivated, results, hinted, job, todo, history>>

PurgeResults(w) ==
  /\ pc[w] = "purge"
  /\ results' = {r \in results : r[1] # job[w].user}
  /\ Goto(w, "move")
  /\ UNCHANGED <<phone, deactivated, completed, hinted, job, todo, history>>

ResultsOf(u) == {t \in Tasks : <<u, t>> \in results}

\* The rows of the old user become the new one's.  A row the new user got in
\* the meantime for one of the tasks breaks the primary key, and the request.
MoveResultsBroken(w) ==
  /\ pc[w] = "move"
  /\ results' = {r \in results : r[1] # job[w].victim}
  /\ IF todo[w] = {} THEN Finish(w) ELSE Goto(w, "deactivate") /\ UNCHANGED job
  /\ UNCHANGED <<phone, deactivated, completed, hinted, todo, history>>

MoveResults(w) ==
  LET u == job[w].user
      v == job[w].victim IN
  /\ pc[w] = "move"
  /\ ResultsOf(u) \cap ResultsOf(v) = {}
  /\ results' = {r \in results : r[1] # v} \cup {<<u, t>> : t \in ResultsOf(v)}
  /\ IF todo[w] = {} THEN Finish(w) ELSE Goto(w, "deactivate") /\ UNCHANGED job
  /\ UNCHANGED <<phone, deactivated, completed, hinted, todo, history>>

MoveResultsFails(w) ==
  /\ pc[w] = "move"
  /\ ResultsOf(job[w].user) \cap ResultsOf(job[w].victim) # {}
  /\ Finish(w)
  /\ todo' = [todo EXCEPT ![w] = {}]
  /\ spoiled' = spoiled \cup {job[w].number}
  /\ UNCHANGED <<tables, earned, overlapped, blocked>>

-----------------------------------------------------------------------------
(* POST /user/restore: restore_user_by_address; POST /user/backup/hints. *)

\* store_backup_hints, for the number of the user.
StoreHints(u) ==
  /\ phone[u] # None
  /\ hinted' = hinted \cup {phone[u]}
  /\ UNCHANGED <<phone, deactivated, completed, results, pc, job, todo, history>>

\* The number of the user that asks has hints; o is the user of the address.
AskRestoreBroken(w, u, o) ==
  Start(w, "match", [NoJob EXCEPT !.user = o, !.number = phone[u]])
AskRestore(w, u, o) ==
  /\ phone[u] \in hinted
  /\ Start(w, "match", [NoJob EXCEPT !.user = o, !.number = phone[u]])

\* Both users must have the number.
MatchNumbers(w) ==
  /\ pc[w] = "match"
  /\ IF phone[job[w].user] = job[w].number
       THEN Goto(w, "activate") /\ UNCHANGED job
       ELSE Finish(w)
  /\ UNCHANGED <<tables, todo, history>>

\* The rest of the restore is deactivate_by_enc_phone_number, and device data.
ActivateUserBroken(w) ==
  /\ pc[w] = "activate"
  /\ deactivated' = deactivated \ {job[w].user}
  /\ Finish(w)
  /\ UNCHANGED <<phone, completed, results, hinted, todo, history>>

ActivateUser(w) ==
  /\ pc[w] = "activate"
  /\ deactivated' = deactivated \ {job[w].user}
  /\ Goto(w, "list")
  /\ UNCHANGED <<phone, completed, results, hinted, job, todo, history>>

-----------------------------------------------------------------------------
(* What else changes these tables. *)

\* POST /user/task/results: the user has a number and is active.
SubmitResults(w, u, t) ==
  /\ phone[u] # None /\ u \notin deactivated
  /\ Start(w, "store", [NoJob EXCEPT !.user = u, !.number = phone[u], !.task = t])

\* store_task_results inserts or updates the answers.
StoreResults(w) ==
  /\ pc[w] = "store"
  /\ results' = results \cup {<<job[w].user, job[w].task>>}
  /\ Goto(w, "load")
  /\ UNCHANGED <<phone, deactivated, completed, hinted, job, todo, history>>

LoadCompleted(w) ==
  /\ pc[w] = "load"
  /\ job' = [job EXCEPT ![w].seen = completed[job[w].user]]
  /\ Goto(w, "mark")
  /\ UNCHANGED <<tables, todo, history>>

\* The whole dict is written back.
MarkCompleted(w) ==
  LET j == job[w] IN
  /\ pc[w] = "mark"
  /\ completed' = [completed EXCEPT ![j.user] = j.seen \cup {j.task}]
  /\ earned' = [earned EXCEPT ![j.number] = @ \cup {j.task}]
  /\ Finish(w)
  /\ UNCHANGED <<phone, deactivated, results, hinted, todo, overlapped, spoiled, blocked>>

\* onboard_user deactivates a user whose client is too old.
BlockOldClient(u) ==
  /\ u \notin deactivated
  /\ deactivated' = deactivated \cup {u}
  /\ blocked' = blocked \cup {u}
  /\ UNCHANGED <<phone, completed, results, hinted, pc, job, todo, earned, overlapped,
                 spoiled>>

\* The process dies, or a statement raises.
Crash(w) ==
  /\ Faulty
  /\ pc[w] # "idle"
  /\ Finish(w)
  /\ todo' = [todo EXCEPT ![w] = {}]
  /\ spoiled' = spoiled \cup {job[w].number}
  /\ UNCHANGED <<tables, earned, overlapped, blocked>>

Next ==
  \/ \E w \in Workers :
       \/ \E u \in Users, n \in Numbers : VerifyNumber(w, u, n)
       \/ \E u, o \in Users : AskRestore(w, u, o)
       \/ \E u \in Users, t \in Tasks : SubmitResults(w, u, t)
       \/ CheckRegistrations(w) \/ ReadNumber(w) \/ WriteNumber(w)
       \/ MatchNumbers(w) \/ ActivateUser(w)
       \/ ListOthers(w) \/ DeactivateOther(w) \/ CopyHistory(w)
       \/ PurgeResults(w) \/ MoveResults(w) \/ MoveResultsFails(w)
       \/ StoreResults(w) \/ LoadCompleted(w) \/ MarkCompleted(w)
       \/ Crash(w)
  \/ \E u \in Users : StoreHints(u) \/ BlockOldClient(u)

Spec == Init /\ [][Next]_vars

-----------------------------------------------------------------------------
(* Properties. *)

\* Unless a request about the number ended halfway, or a user had two requests
\* at once and replaced a number, two active users of it have
\* a request that is about to deactivate one of them: each request writes its
\* own claim before it looks for others, so of two at once one sees the other.
OneActiveToBe ==
  \A n \in Numbers \ spoiled : \A u, v \in ActiveUsers(n) :
    u # v => \E w \in Workers :
      /\ job[w].number = n
      /\ \/ job[w].user = u /\ (pc[w] = "list" \/ v \in todo[w])
         \/ job[w].user = v /\ (pc[w] = "list" \/ u \in todo[w])

\* The registrations are counted before the number is written: requests that
\* overlap can get past the limit, but by less than one user per worker.
RegistrationsBounded ==
  \A n \in Numbers :
    Cardinality(UsersOf(n)) <=
      MaxRegistrations + (IF n \in overlapped THEN Cardinality(Workers) - 1 ELSE 0)

\* Requests about a number that came one after the other leave it one active
\* user, and with that user every task that was solved under the number.
HistoryFollows ==
  \A n \in Numbers \ (overlapped \cup spoiled) :
    ~BusyWith(n) /\ UsersOf(n) # {} /\ UsersOf(n) \cap blocked = {} =>
      \E u \in Users :
        /\ ActiveUsers(n) = {u}
        /\ earned[n] \subseteq completed[u]
        /\ earned[n] \subseteq ResultsOf(u)

\* A number in use always has an active user once its requests are done: what is
\* deactivated is "any active user with the given phone number except the one
\* with user_id".
NumberHasUser ==
  \A n \in Numbers \ spoiled :
    ~BusyWith(n) /\ UsersOf(n) # {} /\ UsersOf(n) \cap blocked = {} => ActiveUsers(n) # {}

-----------------------------------------------------------------------------
(* The inductive invariant behind OneActiveToBe. *)

Moving == {"deactivate", "copy", "purge", "move"}

\* Only a worker that is moving a number has users left to deactivate, and whom a
\* restore is about to activate still has the number it was matched by.
ClaimInv ==
  /\ OneActiveToBe
  /\ \A w \in Workers :
       /\ pc[w] \notin Moving => todo[w] = {}
       /\ pc[w] = "activate" => phone[job[w].user] \in {job[w].number} \cup spoiled
=============================================================================
