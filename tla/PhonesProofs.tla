---------------------------- MODULE PhonesProofs ----------------------------
(***************************************************************************)
(* Theorems about Phones, for every set of workers, users, numbers and     *)
(* tasks, under any interleaving and any failure.                          *)
(***************************************************************************)
EXTENDS Phones, FiniteSetTheorems, TLAPS

-----------------------------------------------------------------------------
(* Type correctness: the tables, then the handlers' variables. *)

DataOK ==
  /\ phone \in [Users -> Numbers \cup {None}]
  /\ deactivated \subseteq Users
  /\ completed \in [Users -> SUBSET Tasks]
  /\ results \subseteq Users \X Tasks
  /\ hinted \subseteq Numbers
  /\ earned \in [Numbers -> SUBSET Tasks]
  /\ overlapped \subseteq Numbers
  /\ spoiled \subseteq Numbers
  /\ blocked \subseteq Users

WorkersOK ==
  /\ pc \in [Workers -> Steps]
  /\ job \in [Workers -> Job]
  /\ todo \in [Workers -> SUBSET Users]
  /\ \A w \in Workers : JobOK(w)

\* JobOK for a worker about to stand at step s with local variables j.
Fits(s, j) ==
  /\ s # "idle" => j.user \in Users /\ j.number \in Numbers
  /\ s \in {"copy", "purge", "move"} => j.victim \in Users
  /\ s \in SubmitSteps => j.task \in Tasks

\* An idle handler's local variables have their types, and any may be set.
LEMMA NoJobType == NoJob \in Job
BY DEF NoJob, Job

\* One worker moves on with local variables that fit the step it moves to.
LEMMA WorkerMoves ==
  ASSUME WorkersOK, NEW w \in Workers, NEW s \in Steps, NEW j \in Job, Fits(s, j),
         pc' = [pc EXCEPT ![w] = s], job' = [job EXCEPT ![w] = j],
         todo' \in [Workers -> SUBSET Users]
  PROVE  WorkersOK'
<1>1. pc' \in [Workers -> Steps] /\ job' \in [Workers -> Job]
  BY DEF WorkersOK
<1>2. ASSUME NEW v \in Workers PROVE JobOK(v)'
  <2>1. CASE v = w
    <3>1. pc'[v] = s /\ job'[v] = j
      BY <2>1 DEF WorkersOK
    <3>2. QED
      BY <3>1 DEF JobOK, Fits
  <2>2. CASE v # w
    <3>1. pc'[v] = pc[v] /\ job'[v] = job[v]
      BY <2>2 DEF WorkersOK
    <3>2. QED
      BY <3>1 DEF JobOK, WorkersOK
  <2>3. QED
    BY <2>1, <2>2
<1>3. QED
  BY <1>1, <1>2 DEF WorkersOK

\* A worker that goes on with the local variables it has.
LEMMA WorkerGoes ==
  ASSUME WorkersOK, NEW w \in Workers, NEW s \in Steps, Fits(s, job[w]), Goto(w, s),
         UNCHANGED job, todo' \in [Workers -> SUBSET Users]
  PROVE  WorkersOK'
<1>1. job[w] \in Job /\ job' = [job EXCEPT ![w] = job[w]]
  BY DEF WorkersOK
<1>2. QED
  BY <1>1, WorkerMoves DEF Goto

\* A handler that ends forgets its local variables.
LEMMA WorkerEnds ==
  ASSUME WorkersOK, NEW w \in Workers, Finish(w), todo' \in [Workers -> SUBSET Users]
  PROVE  WorkersOK'
<1>1. "idle" \in Steps /\ Fits("idle", NoJob)
  BY DEF Steps, Fits, SubmitSteps
<1>2. QED
  BY <1>1, NoJobType, WorkerMoves DEF Finish, Goto

\* A request that starts knows its user and its number.
LEMMA WorkerStarts ==
  ASSUME WorkersOK, NEW w \in Workers, NEW s \in Steps, NEW j \in Job, Fits(s, j),
         Start(w, s, j)
  PROVE  WorkersOK'
<1>1. todo' \in [Workers -> SUBSET Users]
  BY DEF Start, WorkersOK
<1>2. QED
  BY <1>1, WorkerMoves DEF Start, Goto

\* Every step leaves the handlers' variables typed.
LEMMA WorkersStep ==
  ASSUME DataOK, WorkersOK, [Next]_vars
  PROVE  WorkersOK'
<1> USE PhonesAssumption
<1>1. ASSUME NEW w \in Workers PROVE job[w] \in Job /\ JobOK(w) /\ pc[w] \in Steps
  BY DEF WorkersOK
<1>2. todo \in [Workers -> SUBSET Users]
  BY DEF WorkersOK
<1>3. ASSUME NEW w \in Workers, NEW u \in Users, NEW n \in Numbers, VerifyNumber(w, u, n)
      PROVE  WorkersOK'
  <2> DEFINE j == [NoJob EXCEPT !.user = u, !.number = n]
  <2>1. j \in Job /\ "count" \in Steps /\ Fits("count", j)
    BY NoJobType DEF Job, Steps, VerifySteps, Fits, SubmitSteps
  <2>2. QED
    BY <1>3, <2>1, WorkerStarts DEF VerifyNumber
<1>4. ASSUME NEW w \in Workers, NEW u \in Users, NEW o \in Users, AskRestore(w, u, o)
      PROVE  WorkersOK'
  <2> DEFINE j == [NoJob EXCEPT !.user = o, !.number = phone[u]]
  <2>1. phone[u] \in Numbers
    BY <1>4 DEF AskRestore, DataOK
  <2>2. j \in Job /\ "match" \in Steps /\ Fits("match", j)
    BY <2>1, NoJobType DEF Job, Steps, RestoreSteps, Fits, SubmitSteps
  <2>3. QED
    BY <1>4, <2>2, WorkerStarts DEF AskRestore
<1>5. ASSUME NEW w \in Workers, NEW u \in Users, NEW t \in Tasks, SubmitResults(w, u, t)
      PROVE  WorkersOK'
  <2> DEFINE j == [NoJob EXCEPT !.user = u, !.number = phone[u], !.task = t]
  <2>1. phone[u] \in Numbers
    BY <1>5 DEF SubmitResults, DataOK
  <2>2. j \in Job /\ "store" \in Steps /\ Fits("store", j)
    BY <2>1, NoJobType DEF Job, Steps, SubmitSteps, Fits
  <2>3. QED
    BY <1>5, <2>2, WorkerStarts DEF SubmitResults
<1>6. ASSUME NEW w \in Workers, NEW s \in {"read", "write", "list", "activate", "purge", "move"},
             pc[w] # "idle", s \in {"purge", "move"} => pc[w] \in {"copy", "purge"},
             Goto(w, s), UNCHANGED <<job, todo>>
      PROVE  WorkersOK'
  <2>1. s \in Steps /\ Fits(s, job[w])
    BY <1>1, <1>6 DEF Steps, VerifySteps, RestoreSteps, MoveSteps, SubmitSteps, JobOK, Fits
  <2>2. QED
    BY <1>2, <1>6, <2>1, WorkerGoes
<1>7. ASSUME NEW w \in Workers, CheckRegistrations(w) \/ ReadNumber(w) \/ MatchNumbers(w)
      PROVE  WorkersOK'
  BY <1>2, <1>6, <1>7, WorkerEnds DEF CheckRegistrations, ReadNumber, MatchNumbers
<1>8. ASSUME NEW w \in Workers,
             WriteNumber(w) \/ ActivateUser(w) \/ CopyHistory(w) \/ PurgeResults(w)
      PROVE  WorkersOK'
  BY <1>6, <1>8 DEF WriteNumber, ActivateUser, CopyHistory, PurgeResults
<1>9. ASSUME NEW w \in Workers, ListOthers(w) PROVE WorkersOK'
  <2>1. OthersOf(job[w].user, job[w].number) \subseteq Users
    BY DEF OthersOf, ActiveUsers, UsersOf
  <2>2. todo' \in [Workers -> SUBSET Users]
    BY <1>2, <1>9, <2>1 DEF ListOthers
  <2>3. "deactivate" \in Steps /\ Fits("deactivate", job[w])
    BY <1>1, <1>9 DEF ListOthers, Steps, MoveSteps, SubmitSteps, JobOK, Fits
  <2>4. QED
    BY <1>9, <2>2, <2>3, WorkerGoes, WorkerEnds DEF ListOthers
<1>10. ASSUME NEW w \in Workers, DeactivateOther(w) PROVE WorkersOK'
  <2>1. PICK v \in todo[w] : /\ job' = [job EXCEPT ![w].victim = v]
                             /\ todo' = [todo EXCEPT ![w] = @ \ {v}]
    BY <1>10 DEF DeactivateOther
  <2> DEFINE j == [job[w] EXCEPT !.victim = v]
  <2>2. v \in Users /\ todo' \in [Workers -> SUBSET Users]
    BY <1>2, <2>1
  <2>3. j \in Job
    BY <1>1, <2>2 DEF Job
  <2>4. "copy" \in Steps /\ Fits("copy", j)
    BY <1>1, <1>10, <2>2 DEF DeactivateOther, Steps, MoveSteps, SubmitSteps, JobOK, Fits, Job
  <2>5. job' = [job EXCEPT ![w] = j]
    BY <2>1 DEF WorkersOK
  <2>6. QED
    BY <1>10, <2>2, <2>3, <2>4, <2>5, WorkerMoves DEF DeactivateOther, Goto
<1>11. ASSUME NEW w \in Workers, MoveResults(w) PROVE WorkersOK'
  <2>1. "deactivate" \in Steps /\ Fits("deactivate", job[w])
    BY <1>1, <1>11 DEF MoveResults, Steps, MoveSteps, SubmitSteps, JobOK, Fits
  <2>2. QED
    BY <1>2, <1>11, <2>1, WorkerGoes, WorkerEnds DEF MoveResults
<1>12. ASSUME NEW w \in Workers, MoveResultsFails(w) \/ Crash(w) PROVE WorkersOK'
  <2>1. Finish(w) /\ todo' \in [Workers -> SUBSET Users]
    BY <1>2, <1>12 DEF MoveResultsFails, Crash
  <2>2. QED
    BY <2>1, WorkerEnds
<1>13. ASSUME NEW w \in Workers, StoreResults(w) PROVE WorkersOK'
  <2>1. "load" \in Steps /\ Fits("load", job[w])
    BY <1>1, <1>13 DEF StoreResults, Steps, SubmitSteps, JobOK, Fits
  <2>2. QED
    BY <1>2, <1>13, <2>1, WorkerGoes DEF StoreResults
<1>14. ASSUME NEW w \in Workers, LoadCompleted(w) PROVE WorkersOK'
  <2> DEFINE j == [job[w] EXCEPT !.seen = completed[job[w].user]]
  <2>1. job[w].user \in Users /\ job[w].task \in Tasks /\ job[w].number \in Numbers
    BY <1>1, <1>14 DEF LoadCompleted, JobOK, SubmitSteps
  <2>2. j \in Job
    BY <1>1, <2>1 DEF Job, DataOK
  <2>3. "mark" \in Steps /\ Fits("mark", j)
    BY <1>1, <2>1 DEF Steps, SubmitSteps, Fits, Job
  <2>4. job' = [job EXCEPT ![w] = j]
    BY <1>14 DEF LoadCompleted, WorkersOK
  <2>5. QED
    BY <1>2, <1>14, <2>2, <2>3, <2>4, WorkerMoves DEF LoadCompleted, Goto
<1>15. ASSUME NEW w \in Workers, MarkCompleted(w) PROVE WorkersOK'
  BY <1>2, <1>15, WorkerEnds DEF MarkCompleted
<1>16. ASSUME UNCHANGED <<pc, job, todo>> PROVE WorkersOK'
  BY <1>16 DEF WorkersOK, JobOK
<1>17. QED
  BY <1>3, <1>4, <1>5, <1>7, <1>8, <1>9, <1>10, <1>11, <1>12, <1>13, <1>14, <1>15, <1>16
  DEF Next, vars, StoreHints, BlockOldClient

\* Every step leaves the tables typed.
LEMMA DataStep ==
  ASSUME DataOK, WorkersOK, [Next]_vars
  PROVE  DataOK'
<1> USE DEF tables, history
<1>1. ASSUME NEW w \in Workers
      PROVE  /\ job[w] \in Job
             /\ pc[w] # "idle" => job[w].user \in Users /\ job[w].number \in Numbers
             /\ pc[w] \in {"copy", "purge", "move"} => job[w].victim \in Users
             /\ pc[w] \in SubmitSteps => job[w].task \in Tasks
  BY DEF WorkersOK, JobOK
<1>2. ASSUME NEW w \in Workers, NEW s, NEW j, Start(w, s, j), j.number \in Numbers
      PROVE  DataOK'
  BY <1>2 DEF Start, DataOK
<1>3. ASSUME NEW w \in Workers,
             \/ \E u \in Users, n \in Numbers : VerifyNumber(w, u, n)
             \/ \E u, o \in Users : AskRestore(w, u, o)
             \/ \E u \in Users, t \in Tasks : SubmitResults(w, u, t)
      PROVE  DataOK'
  <2>1. ASSUME NEW u \in Users, NEW n \in Numbers, VerifyNumber(w, u, n) PROVE DataOK'
    <3>1. [NoJob EXCEPT !.user = u, !.number = n].number = n
      BY DEF NoJob
    <3>2. QED
      BY <1>2, <2>1, <3>1 DEF VerifyNumber
  <2>2. ASSUME NEW u \in Users, NEW o \in Users, AskRestore(w, u, o) PROVE DataOK'
    <3>1. [NoJob EXCEPT !.user = o, !.number = phone[u]].number = phone[u]
      BY DEF NoJob
    <3>2. phone[u] \in Numbers
      BY <2>2 DEF AskRestore, DataOK
    <3>3. QED
      BY <1>2, <2>2, <3>1, <3>2 DEF AskRestore
  <2>3. ASSUME NEW u \in Users, NEW t \in Tasks, SubmitResults(w, u, t) PROVE DataOK'
    <3>1. [NoJob EXCEPT !.user = u, !.number = phone[u], !.task = t].number = phone[u]
      BY DEF NoJob
    <3>2. phone[u] \in Numbers
      BY <2>3 DEF SubmitResults, DataOK
    <3>3. QED
      BY <1>2, <2>3, <3>1, <3>2 DEF SubmitResults
  <2>4. QED
    BY <1>3, <2>1, <2>2, <2>3
<1>4. ASSUME NEW w \in Workers,
             \/ CheckRegistrations(w) \/ ReadNumber(w) \/ MatchNumbers(w)
             \/ ListOthers(w) \/ LoadCompleted(w)
      PROVE  DataOK'
  BY <1>4 DEF CheckRegistrations, ReadNumber, MatchNumbers, ListOthers, LoadCompleted, DataOK
<1>5. ASSUME NEW w \in Workers, WriteNumber(w) PROVE DataOK'
  <2>1. job[w].user \in Users /\ job[w].number \in Numbers
    BY <1>1, <1>5 DEF WriteNumber
  <2>2. phone[job[w].user] \in Numbers \cup {None}
    BY <2>1 DEF DataOK
  <2>3. spoiled' \subseteq Numbers
    BY <1>5, <2>1, <2>2 DEF WriteNumber, DataOK
  <2>4. phone' \in [Users -> Numbers \cup {None}]
    BY <1>5, <2>1 DEF WriteNumber, DataOK
  <2>5. QED
    BY <1>5, <2>3, <2>4 DEF WriteNumber, DataOK
<1>6. ASSUME NEW w \in Workers, ActivateUser(w) \/ DeactivateOther(w) PROVE DataOK'
  <2>1. todo[w] \subseteq Users
    BY DEF WorkersOK
  <2>2. QED
    BY <1>6, <2>1 DEF ActivateUser, DeactivateOther, DataOK
<1>7. ASSUME NEW w \in Workers, CopyHistory(w) PROVE DataOK'
  <2>1. job[w].user \in Users /\ job[w].victim \in Users
    BY <1>1, <1>7 DEF CopyHistory
  <2>2. QED
    BY <1>7, <2>1 DEF CopyHistory, DataOK
<1>8. ASSUME NEW w \in Workers, PurgeResults(w) \/ MoveResults(w) PROVE DataOK'
  <2>1. job[w].user \in Users
    BY <1>1, <1>8 DEF PurgeResults, MoveResults
  <2>2. CASE PurgeResults(w)
    BY <2>2 DEF PurgeResults, DataOK
  <2>3. CASE MoveResults(w)
    <3> DEFINE moved == {<<job[w].user, t>> : t \in ResultsOf(job[w].victim)}
    <3>1. moved \subseteq Users \X Tasks
      <4>1. ASSUME NEW t \in ResultsOf(job[w].victim)
            PROVE  <<job[w].user, t>> \in Users \X Tasks
        BY <2>1 DEF ResultsOf
      <4>2. QED
        BY <4>1
    <3>2. results' = {r \in results : r[1] # job[w].victim} \cup moved
      BY <2>3 DEF MoveResults
    <3> HIDE DEF moved
    <3>3. results' \subseteq Users \X Tasks
      BY <3>1, <3>2 DEF DataOK
    <3>4. QED
      BY <2>3, <3>3 DEF MoveResults, DataOK
  <2>4. QED
    BY <1>8, <2>2, <2>3
<1>9. ASSUME NEW w \in Workers, MoveResultsFails(w) \/ Crash(w) PROVE DataOK'
  <2>1. job[w].number \in Numbers
    BY <1>1, <1>9 DEF MoveResultsFails, Crash
  <2>2. QED
    BY <1>9, <2>1 DEF MoveResultsFails, Crash, DataOK
<1>10. ASSUME NEW w \in Workers, StoreResults(w) PROVE DataOK'
  <2>1. job[w].user \in Users /\ job[w].task \in Tasks
    BY <1>1, <1>10 DEF StoreResults, SubmitSteps
  <2>2. QED
    BY <1>10, <2>1 DEF StoreResults, DataOK
<1>11. ASSUME NEW w \in Workers, MarkCompleted(w) PROVE DataOK'
  <2>1. /\ job[w].user \in Users /\ job[w].number \in Numbers /\ job[w].task \in Tasks
        /\ job[w].seen \subseteq Tasks
    BY <1>1, <1>11 DEF MarkCompleted, SubmitSteps, Job
  <2>2. QED
    BY <1>11, <2>1 DEF MarkCompleted, DataOK
<1>12. ASSUME NEW u \in Users, StoreHints(u) \/ BlockOldClient(u) PROVE DataOK'
  BY <1>12 DEF StoreHints, BlockOldClient, DataOK
<1>13. ASSUME UNCHANGED vars PROVE DataOK'
  BY <1>13 DEF vars, DataOK
<1>14. QED
  BY <1>3, <1>4, <1>5, <1>6, <1>7, <1>8, <1>9, <1>10, <1>11, <1>12, <1>13 DEF Next

\* The tables and the handlers' variables keep their types.
THEOREM TypeCorrect == Spec => []TypeOK
<1>1. TypeOK <=> DataOK /\ WorkersOK
  BY DEF TypeOK, DataOK, WorkersOK
<1>2. Init => DataOK /\ WorkersOK
  BY NoJobType DEF Init, DataOK, WorkersOK, JobOK, Steps, SubmitSteps
<1>3. DataOK /\ WorkersOK /\ [Next]_vars => (DataOK /\ WorkersOK)'
  BY DataStep, WorkersStep
<1>4. QED
  BY <1>1, <1>2, <1>3, PTL DEF Spec

-----------------------------------------------------------------------------
(* One active user to be. *)

\* The request of worker w is about to deactivate one of the users u and v of n.
Decides(w, n, u, v) ==
  /\ job[w].number = n
  /\ \/ job[w].user = u /\ (pc[w] = "list" \/ v \in todo[w])
     \/ job[w].user = v /\ (pc[w] = "list" \/ u \in todo[w])

\* What ClaimInv says of two active users, with a name for the worker.
LEMMA ClaimPair ==
  ASSUME ClaimInv, NEW n \in Numbers \ spoiled, NEW u \in ActiveUsers(n),
         NEW v \in ActiveUsers(n), u # v
  PROVE  \E w \in Workers : Decides(w, n, u, v)
BY DEF ClaimInv, OneActiveToBe, Decides

\* A step that gives a number no new active user, and of one worker that goes on
\* with its claim, has none, or ends halfway.
LEMMA ClaimFrame ==
  ASSUME ClaimInv, NEW w \in Workers,
         UNCHANGED phone, deactivated \subseteq deactivated', spoiled \subseteq spoiled',
         \A v \in Workers \ {w} :
           pc'[v] = pc[v] /\ job'[v] = job[v] /\ todo'[v] = todo[v],
         pc[w] = "list" => job[w].number \in spoiled',
         \/ job[w].number \in spoiled'
         \/ todo[w] = {}
         \/ /\ todo'[w] = todo[w] /\ job'[w].user = job[w].user
            /\ job'[w].number = job[w].number,
         pc'[w] \notin Moving => todo'[w] = {},
         pc'[w] = "activate" => phone[job'[w].user] \in {job'[w].number} \cup spoiled'
  PROVE  ClaimInv'
<1>1. ASSUME NEW n \in Numbers \ spoiled', NEW u \in ActiveUsers(n)',
             NEW v \in ActiveUsers(n)', u # v
      PROVE  \E x \in Workers : Decides(x, n, u, v)'
  <2>1. u \in ActiveUsers(n) /\ v \in ActiveUsers(n) /\ n \in Numbers \ spoiled
    BY DEF ActiveUsers, UsersOf
  <2>2. PICK x \in Workers : Decides(x, n, u, v)
    BY <1>1, <2>1, ClaimPair
  <2>3. Decides(x, n, u, v)'
    <3>1. CASE x # w
      BY <2>2, <3>1 DEF Decides
    <3>2. CASE x = w
      BY <2>2, <3>2 DEF Decides
    <3>3. QED
      BY <3>1, <3>2
  <2>4. QED
    BY <2>3
<1>2. OneActiveToBe'
  BY <1>1 DEF OneActiveToBe, Decides
<1>3. ASSUME NEW v \in Workers
      PROVE  /\ pc'[v] \notin Moving => todo'[v] = {}
             /\ pc'[v] = "activate" => phone'[job'[v].user] \in {job'[v].number} \cup spoiled'
  <2>1. CASE v = w
    BY <2>1
  <2>2. CASE v # w
    BY <2>2 DEF ClaimInv
  <2>3. QED
    BY <2>1, <2>2
<1>4. QED
  BY <1>2, <1>3 DEF ClaimInv

\* A request that claims its number for user u does so before it looks for other
\* users: with it each of them is decided against.
LEMMA ClaimMade ==
  ASSUME ClaimInv, WorkersOK, NEW w \in Workers, NEW u \in Users, NEW m \in Numbers,
         job[w].user = u, job[w].number = m,
         pc[w] \notin Moving \cup {"list"}, pc' = [pc EXCEPT ![w] = "list"],
         UNCHANGED <<job, todo>>, spoiled \subseteq spoiled',
         phone'[u] \in {m} \cup spoiled',
         \A v \in Users \ {u} : phone'[v] = phone[v],
         \A v \in Users \ {u} : v \in deactivated <=> v \in deactivated',
         phone'[u] = phone[u] \/ phone[u] = None \/ phone'[u] \in spoiled',
         None \notin Numbers, spoiled \subseteq Numbers
  PROVE  ClaimInv'
<1>1. pc'[w] = "list" /\ \A v \in Workers \ {w} : pc'[v] = pc[v]
  BY DEF WorkersOK
<1>2. ASSUME NEW n \in Numbers \ spoiled', NEW x \in ActiveUsers(n)',
             NEW y \in ActiveUsers(n)', x # y
      PROVE  \E v \in Workers : Decides(v, n, x, y)'
  <2>1. x \in Users /\ y \in Users /\ phone'[x] = n /\ phone'[y] = n
        /\ x \notin deactivated' /\ y \notin deactivated'
    BY DEF ActiveUsers, UsersOf
  <2>2. CASE x = u \/ y = u
    <3>1. n = m
      BY <2>1, <2>2
    <3>2. Decides(w, n, x, y)'
      BY <1>1, <2>2, <3>1 DEF Decides
    <3>3. QED
      BY <3>2
  <2>3. CASE x # u /\ y # u
    <3>1. x \in ActiveUsers(n) /\ y \in ActiveUsers(n) /\ n \in Numbers \ spoiled
      BY <2>1, <2>3 DEF ActiveUsers, UsersOf
    <3>2. PICK v \in Workers : Decides(v, n, x, y)
      BY <1>2, <3>1, ClaimPair
    <3>3. Decides(v, n, x, y)'
      <4>1. CASE v # w
        BY <1>1, <3>2, <4>1 DEF Decides
      <4>2. CASE v = w
        BY <2>3, <3>2, <4>2 DEF Decides
      <4>3. QED
        BY <4>1, <4>2
    <3>4. QED
      BY <3>3
  <2>4. QED
    BY <2>2, <2>3
<1>3. OneActiveToBe'
  BY <1>2 DEF OneActiveToBe, Decides
<1>4. ASSUME NEW v \in Workers
      PROVE  /\ pc'[v] \notin Moving => todo'[v] = {}
             /\ pc'[v] = "activate" => phone'[job'[v].user] \in {job'[v].number} \cup spoiled'
  <2>1. CASE v = w
    BY <1>1, <2>1 DEF ClaimInv
  <2>2. CASE v # w
    <3>1. pc'[v] \notin Moving => todo'[v] = {}
      BY <1>1, <2>2 DEF ClaimInv
    <3>2. ASSUME pc'[v] = "activate"
          PROVE  phone'[job[v].user] \in {job[v].number} \cup spoiled'
      <4>1. /\ job[v].user \in Users /\ job[v].number \in Numbers
            /\ phone[job[v].user] \in {job[v].number} \cup spoiled
        BY <1>1, <2>2, <3>2 DEF ClaimInv, WorkersOK, JobOK
      <4>2. CASE job[v].user # u
        BY <4>1, <4>2
      <4>3. CASE job[v].user = u /\ phone'[u] = phone[u]
        BY <4>1, <4>3
      <4>4. CASE job[v].user = u /\ phone'[u] # phone[u]
        BY <4>1, <4>4
      <4>5. QED
        BY <4>2, <4>3, <4>4
    <3>3. QED
      BY <3>1, <3>2
  <2>3. QED
    BY <2>1, <2>2
<1>5. QED
  BY <1>3, <1>4 DEF ClaimInv

\* A step that leaves the requests and the numbers alone, and activates no user.
LEMMA ClaimKept ==
  ASSUME ClaimInv, UNCHANGED <<phone, pc, job, todo, spoiled>>,
         deactivated \subseteq deactivated'
  PROVE  ClaimInv'
<1>1. ASSUME NEW n \in Numbers \ spoiled', NEW u \in ActiveUsers(n)',
             NEW v \in ActiveUsers(n)', u # v
      PROVE  \E x \in Workers : Decides(x, n, u, v)'
  <2>1. u \in ActiveUsers(n) /\ v \in ActiveUsers(n) /\ n \in Numbers \ spoiled
    BY DEF ActiveUsers, UsersOf
  <2>2. QED
    BY <1>1, <2>1, ClaimPair DEF Decides
<1>2. OneActiveToBe'
  BY <1>1 DEF OneActiveToBe, Decides
<1>3. QED
  BY <1>2 DEF ClaimInv

\* The request lists every other active user of its number, or there is none.
LEMMA ClaimListed ==
  ASSUME ClaimInv, WorkersOK, NEW w \in Workers, ListOthers(w)
  PROVE  ClaimInv'
<1> DEFINE others == OthersOf(job[w].user, job[w].number)
<1>1. /\ pc[w] = "list"
      /\ UNCHANGED <<phone, deactivated, spoiled>>
      /\ \A v \in Workers \ {w} : pc'[v] = pc[v] /\ job'[v] = job[v] /\ todo'[v] = todo[v]
  BY DEF ListOthers, tables, history, Goto, Finish, WorkersOK
<1>2. \/ (others = {} /\ pc'[w] = "idle" /\ todo'[w] = todo[w])
      \/ (pc'[w] = "deactivate" /\ todo'[w] = others /\ job'[w] = job[w])
  BY DEF ListOthers, Goto, Finish, WorkersOK
<1>3. ASSUME NEW n \in Numbers \ spoiled', NEW x \in ActiveUsers(n)',
             NEW y \in ActiveUsers(n)', x # y
      PROVE  \E v \in Workers : Decides(v, n, x, y)'
  <2>1. x \in ActiveUsers(n) /\ y \in ActiveUsers(n) /\ n \in Numbers \ spoiled
    BY <1>1 DEF ActiveUsers, UsersOf
  <2>2. PICK v \in Workers : Decides(v, n, x, y)
    BY <1>3, <2>1, ClaimPair
  <2>3. CASE v # w
    BY <1>1, <2>2, <2>3 DEF Decides
  <2>4. CASE v = w
    <3>1. job[w].number = n /\ (job[w].user = x \/ job[w].user = y)
      BY <2>2, <2>4 DEF Decides
    <3>2. (job[w].user = x /\ y \in others) \/ (job[w].user = y /\ x \in others)
      BY <1>3, <2>1, <3>1 DEF OthersOf
    <3>3. Decides(w, n, x, y)'
      BY <1>2, <3>1, <3>2 DEF Decides
    <3>4. QED
      BY <3>3
  <2>5. QED
    BY <2>3, <2>4
<1>4. OneActiveToBe'
  BY <1>3 DEF OneActiveToBe, Decides
<1>5. ASSUME NEW v \in Workers
      PROVE  /\ pc'[v] \notin Moving => todo'[v] = {}
             /\ pc'[v] = "activate" => phone'[job'[v].user] \in {job'[v].number} \cup spoiled'
  <2>1. CASE v = w
    BY <1>1, <1>2, <2>1 DEF ClaimInv, Moving
  <2>2. CASE v # w
    BY <1>1, <2>2 DEF ClaimInv
  <2>3. QED
    BY <2>1, <2>2
<1>6. QED
  BY <1>4, <1>5 DEF ClaimInv

\* Whoever is crossed off the list of a request is no active user of its number.
LEMMA ClaimCrossed ==
  ASSUME ClaimInv, WorkersOK, NEW w \in Workers, DeactivateOther(w)
  PROVE  ClaimInv'
<1>1. PICK z \in todo[w] :
        /\ deactivated' = IF phone[z] = job[w].number THEN deactivated \cup {z} ELSE deactivated
        /\ job' = [job EXCEPT ![w].victim = z]
        /\ todo' = [todo EXCEPT ![w] = @ \ {z}]
  BY DEF DeactivateOther
<1>2. /\ pc[w] = "deactivate" /\ pc'[w] = "copy"
      /\ UNCHANGED <<phone, spoiled>>
      /\ \A v \in Workers \ {w} : pc'[v] = pc[v] /\ job'[v] = job[v] /\ todo'[v] = todo[v]
      /\ job'[w].user = job[w].user /\ job'[w].number = job[w].number
      /\ todo'[w] = todo[w] \ {z}
  BY <1>1 DEF DeactivateOther, history, Goto, WorkersOK, Job
<1>3. ASSUME NEW n \in Numbers \ spoiled', NEW x \in ActiveUsers(n)',
             NEW y \in ActiveUsers(n)', x # y
      PROVE  \E v \in Workers : Decides(v, n, x, y)'
  <2>1. x \in ActiveUsers(n) /\ y \in ActiveUsers(n) /\ n \in Numbers \ spoiled
    BY <1>1, <1>2 DEF ActiveUsers, UsersOf
  <2>2. PICK v \in Workers : Decides(v, n, x, y)
    BY <1>3, <2>1, ClaimPair
  <2>3. CASE v # w
    BY <1>2, <2>2, <2>3 DEF Decides
  <2>4. CASE v = w
    <3>1. /\ job[w].number = n
          /\ (job[w].user = x /\ y \in todo[w]) \/ (job[w].user = y /\ x \in todo[w])
      BY <1>2, <2>2, <2>4 DEF Decides
    <3>2. x # z /\ y # z
      BY <1>1, <3>1, <1>2 DEF ActiveUsers, UsersOf
    <3>3. Decides(w, n, x, y)'
      BY <1>2, <3>1, <3>2 DEF Decides
    <3>4. QED
      BY <3>3
  <2>5. QED
    BY <2>3, <2>4
<1>4. OneActiveToBe'
  BY <1>3 DEF OneActiveToBe, Decides
<1>5. ASSUME NEW v \in Workers
      PROVE  /\ pc'[v] \notin Moving => todo'[v] = {}
             /\ pc'[v] = "activate" => phone'[job'[v].user] \in {job'[v].number} \cup spoiled'
  <2>1. CASE v = w
    BY <1>2, <2>1 DEF Moving
  <2>2. CASE v # w
    BY <1>2, <2>2 DEF ClaimInv
  <2>3. QED
    BY <2>1, <2>2
<1>6. QED
  BY <1>4, <1>5 DEF ClaimInv

\* Every step preserves ClaimInv.
LEMMA ClaimStep ==
  ASSUME ClaimInv, DataOK, WorkersOK, [Next]_vars
  PROVE  ClaimInv'
<1>1. \A w \in Workers : pc[w] # "idle" => job[w].user \in Users /\ job[w].number \in Numbers
  BY DEF WorkersOK, JobOK
<1>2. ASSUME NEW w \in Workers, NEW s \in {"count", "match", "store"}, NEW j, Start(w, s, j)
      PROVE  ClaimInv'
  <2>1. /\ pc[w] = "idle" /\ pc'[w] = s /\ todo[w] = {}
        /\ UNCHANGED <<phone, deactivated, spoiled, todo>>
        /\ \A v \in Workers \ {w} : pc'[v] = pc[v] /\ job'[v] = job[v]
    BY <1>2 DEF Start, Goto, tables, WorkersOK, ClaimInv, Moving
  <2>2. QED
    BY <2>1, ClaimFrame
<1>3. ASSUME NEW w \in Workers,
             \/ CheckRegistrations(w) \/ ReadNumber(w) \/ MatchNumbers(w)
             \/ StoreResults(w) \/ LoadCompleted(w) \/ MarkCompleted(w)
      PROVE  ClaimInv'
  <2>1. /\ pc[w] \notin Moving \cup {"list"} /\ todo[w] = {} /\ pc'[w] \notin Moving
        /\ UNCHANGED <<phone, deactivated, spoiled, todo>>
        /\ \A v \in Workers \ {w} : pc'[v] = pc[v] /\ job'[v] = job[v]
    BY <1>3 DEF CheckRegistrations, ReadNumber, MatchNumbers, StoreResults, LoadCompleted,
                MarkCompleted, Goto, Finish, tables, history, WorkersOK, ClaimInv, Moving
  <2>2. pc'[w] = "activate" => phone[job'[w].user] = job'[w].number
    BY <1>3 DEF CheckRegistrations, ReadNumber, MatchNumbers, StoreResults, LoadCompleted,
                MarkCompleted, Goto, Finish, WorkersOK
  <2>3. QED
    BY <2>1, <2>2, ClaimFrame
<1>4. ASSUME NEW w \in Workers, WriteNumber(w) PROVE ClaimInv'
  <2>1. job[w].user \in Users /\ job[w].number \in Numbers
    BY <1>1, <1>4 DEF WriteNumber
  <2>2. /\ phone'[job[w].user] = job[w].number
        /\ \A v \in Users \ {job[w].user} : phone'[v] = phone[v]
    BY <1>4, <2>1 DEF WriteNumber, DataOK
  <2>3. /\ pc[w] \notin Moving \cup {"list"} /\ pc' = [pc EXCEPT ![w] = "list"]
        /\ UNCHANGED <<job, todo, deactivated>> /\ spoiled \subseteq spoiled'
        /\ \/ phone[job[w].user] \in {None, job[w].number}
           \/ job[w].number \in spoiled'
    BY <1>4 DEF WriteNumber, Goto, Moving
  <2>4. spoiled \subseteq Numbers /\ None \notin Numbers
    BY PhonesAssumption DEF DataOK
  <2>5. QED
    BY <2>1, <2>2, <2>3, <2>4, ClaimMade
<1>5. ASSUME NEW w \in Workers, ActivateUser(w) PROVE ClaimInv'
  <2>1. job[w].user \in Users /\ job[w].number \in Numbers
    BY <1>1, <1>5 DEF ActivateUser
  <2>2. phone[job[w].user] \in {job[w].number} \cup spoiled
    BY <1>5 DEF ActivateUser, ClaimInv
  <2>3. /\ pc[w] \notin Moving \cup {"list"} /\ pc' = [pc EXCEPT ![w] = "list"]
        /\ UNCHANGED <<job, todo, phone, spoiled>>
        /\ deactivated' = deactivated \ {job[w].user}
    BY <1>5 DEF ActivateUser, Goto, Moving, history
  <2>4. spoiled \subseteq Numbers /\ None \notin Numbers
    BY PhonesAssumption DEF DataOK
  <2>5. \A v \in Users \ {job[w].user} : v \in deactivated <=> v \in deactivated'
    BY <2>3
  <2>6. phone'[job[w].user] = phone[job[w].user] /\ spoiled' = spoiled
        /\ \A v \in Users : phone'[v] = phone[v]
    BY <2>3
  <2>7. QED
    BY <2>1, <2>2, <2>3, <2>4, <2>5, <2>6, ClaimMade
<1>6. ASSUME NEW w \in Workers, ListOthers(w) \/ DeactivateOther(w) PROVE ClaimInv'
  BY <1>6, ClaimListed, ClaimCrossed
<1>7. ASSUME NEW w \in Workers, CopyHistory(w) \/ PurgeResults(w) PROVE ClaimInv'
  <2>1. /\ pc[w] # "list" /\ pc'[w] \in Moving
        /\ UNCHANGED <<phone, deactivated, spoiled, todo, job>>
        /\ \A v \in Workers \ {w} : pc'[v] = pc[v]
    BY <1>7 DEF CopyHistory, PurgeResults, Goto, history, WorkersOK, Moving
  <2>2. pc'[w] # "activate"
    BY <2>1 DEF Moving
  <2>3. QED
    BY <2>1, <2>2, ClaimFrame
<1>8. ASSUME NEW w \in Workers, MoveResults(w) PROVE ClaimInv'
  <2>1. /\ pc[w] # "list" /\ UNCHANGED <<phone, deactivated, spoiled, todo>>
        /\ \A v \in Workers \ {w} : pc'[v] = pc[v] /\ job'[v] = job[v]
        /\ pc'[w] # "activate"
    BY <1>8 DEF MoveResults, Goto, Finish, history, WorkersOK
  <2>2. todo[w] = {} \/ (job'[w] = job[w] /\ pc'[w] \in Moving)
    BY <1>8 DEF MoveResults, Goto, WorkersOK, Moving
  <2>3. QED
    BY <2>1, <2>2, ClaimFrame
<1>9. ASSUME NEW w \in Workers, MoveResultsFails(w) \/ Crash(w) PROVE ClaimInv'
  <2>1. /\ spoiled' = spoiled \cup {job[w].number} /\ pc'[w] = "idle" /\ todo'[w] = {}
        /\ UNCHANGED <<phone, deactivated>>
        /\ \A v \in Workers \ {w} : pc'[v] = pc[v] /\ job'[v] = job[v] /\ todo'[v] = todo[v]
    BY <1>9 DEF MoveResultsFails, Crash, Goto, Finish, tables, WorkersOK
  <2>2. QED
    BY <2>1, ClaimFrame
<1>10. ASSUME NEW u \in Users, StoreHints(u) \/ BlockOldClient(u) PROVE ClaimInv'
  BY <1>10, ClaimKept DEF StoreHints, BlockOldClient, history
<1>11. ASSUME UNCHANGED vars PROVE ClaimInv'
  BY <1>11, ClaimKept DEF vars
<1>12. ASSUME NEW w \in Workers, NEW u \in Users,
              \/ \E n \in Numbers : VerifyNumber(w, u, n)
              \/ \E o \in Users : AskRestore(w, u, o)
              \/ \E t \in Tasks : SubmitResults(w, u, t)
       PROVE  ClaimInv'
  BY <1>2, <1>12 DEF VerifyNumber, AskRestore, SubmitResults
<1>13. QED
  BY <1>3, <1>4, <1>5, <1>6, <1>7, <1>8, <1>9, <1>10, <1>11, <1>12 DEF Next

\* Unless a request ended halfway, or a user replaced a number, two active users
\* of a number have a request that is about to deactivate one of them.
THEOREM OneActive == Spec => []OneActiveToBe
<1>1. Init => DataOK /\ WorkersOK
  BY NoJobType DEF Init, DataOK, WorkersOK, JobOK, Steps, SubmitSteps
<1>2. Init => ClaimInv
  BY PhonesAssumption DEF Init, ClaimInv, OneActiveToBe, ActiveUsers, UsersOf
<1>3. DataOK /\ WorkersOK /\ [Next]_vars => (DataOK /\ WorkersOK)'
  BY DataStep, WorkersStep
<1>4. DataOK /\ WorkersOK /\ ClaimInv /\ [Next]_vars => ClaimInv'
  BY ClaimStep
<1>5. ClaimInv => OneActiveToBe
  BY DEF ClaimInv
<1>6. QED
  BY <1>1, <1>2, <1>3, <1>4, <1>5, PTL DEF Spec

-----------------------------------------------------------------------------
(* The registrations of a number are bounded. *)

Busy(w, n) == pc[w] # "idle" /\ job[w].number = n

\* A number is known to have had two requests at once as soon as it has.
OneBusy ==
  \A n \in Numbers \ overlapped : \A v, w \in Workers : Busy(v, n) /\ Busy(w, n) => v = w

\* The requests that were let past the count, and have not written the number.
Counted(n) == {w \in Workers : pc[w] \in {"read", "write"} /\ job[w].number = n}

Allowed(n) == MaxRegistrations + (IF n \in overlapped THEN Cardinality(Workers) - 1 ELSE 0)

CountInv ==
  /\ OneBusy
  /\ \A n \in Numbers :
       /\ IsFiniteSet(UsersOf(n))
       /\ Cardinality(UsersOf(n)) + Cardinality(Counted(n)) <= Allowed(n)

-----------------------------------------------------------------------------
(* The history follows the number. *)

\* The user has had the number since a handler found it had, unless both the
\* number and the one the user has now are spoiled.
Held(u, n) == phone[u] = n \/ (n \in spoiled /\ phone[u] \in spoiled)

HeldBy(w) ==
  /\ pc[w] \in {"activate"} \cup MoveSteps \cup SubmitSteps => Held(job[w].user, job[w].number)
  /\ pc[w] \in {"copy", "purge", "move"} => Held(job[w].victim, job[w].number)
  /\ \A v \in todo[w] : Held(v, job[w].number)

HeldInv == \A w \in Workers : HeldBy(w)

\* A user without a number is active, or was blocked; a number about to be written
\* is news to its user.
NewUserInv ==
  /\ \A u \in deactivated : phone[u] = None => u \in blocked
  /\ \A w \in Workers : pc[w] = "write" /\ job[w].number \notin overlapped \cup spoiled =>
       phone[job[w].user] # job[w].number

\* What HistoryFollows says of a number: whose it is, with what was solved under it.
HasHistory(n, u) == earned[n] \subseteq completed[u] /\ earned[n] \subseteq ResultsOf(u)
Kept(n, u) == ActiveUsers(n) = {u} /\ HasHistory(n, u)
Quiet(n) == (UsersOf(n) = {} /\ earned[n] = {}) \/ \E u \in Users : Kept(n, u)

\* How far the only request about a number has taken the number's users, and the
\* history, towards that.
Stage(w) ==
  LET n == job[w].number
      u == job[w].user
      v == job[w].victim IN
  /\ pc[w] \in {"count", "read", "write", "match", "activate"} => Quiet(n)
  /\ pc[w] = "list" => \E x \in Users : ActiveUsers(n) = {u, x} /\ HasHistory(n, x)
  /\ pc[w] = "deactivate" =>
       \E x \in Users \ {u} :
         ActiveUsers(n) = {u, x} /\ HasHistory(n, x) /\ todo[w] = {x}
  /\ pc[w] \in {"copy", "purge", "move"} =>
       ActiveUsers(n) = {u} /\ v # u /\ todo[w] = {} /\ earned[n] \subseteq ResultsOf(v)
  /\ pc[w] = "copy" => earned[n] \subseteq completed[v]
  /\ pc[w] \in {"purge", "move"} => earned[n] \subseteq completed[u]
  /\ pc[w] \in SubmitSteps => Kept(n, u)
  /\ pc[w] \in {"load", "mark"} => job[w].task \in ResultsOf(u)
  /\ pc[w] = "mark" => earned[n] \subseteq job[w].seen

\* The numbers HistoryFollows speaks of, busy or not.
Orderly(n) == n \notin overlapped \cup spoiled /\ UsersOf(n) \cap blocked = {}

Follows(n) ==
  /\ ~BusyWith(n) => Quiet(n)
  /\ \A w \in Workers : Busy(w, n) => Stage(w)

FollowInv ==
  /\ OneBusy /\ HeldInv /\ NewUserInv
  /\ \A n \in Numbers : Orderly(n) => Follows(n)

-----------------------------------------------------------------------------
(* What the steps of a handler do to its own request. *)

\* Only w takes a step.
Alone(w) ==
  \A v \in Workers \ {w} : pc'[v] = pc[v] /\ job'[v] = job[v] /\ todo'[v] = todo[v]

\* A request starts.
LEMMA StartEffect ==
  ASSUME TypeOK, NEW w \in Workers, NEW s, NEW j, Start(w, s, j)
  PROVE  /\ Alone(w) /\ pc[w] = "idle" /\ pc'[w] = s /\ job'[w] = j
         /\ UNCHANGED <<tables, todo, earned, spoiled, blocked>>
         /\ overlapped \subseteq overlapped'
         /\ BusyWith(j.number) => j.number \in overlapped'
BY DEF TypeOK, Start, Goto, Alone, tables

\* The three kinds of request.
LEMMA StartKinds ==
  ASSUME TypeOK, NEW w \in Workers,
         \/ \E u \in Users, n \in Numbers : VerifyNumber(w, u, n)
         \/ \E u, o \in Users : AskRestore(w, u, o)
         \/ \E u \in Users, t \in Tasks : SubmitResults(w, u, t)
  PROVE  \E s \in {"count", "match", "store"}, j \in Job :
           /\ Start(w, s, j) /\ j.number \in Numbers /\ j.user \in Users
           /\ s = "store" => phone[j.user] = j.number /\ j.user \notin deactivated
<1>1. ASSUME NEW u \in Users, NEW n \in Numbers, VerifyNumber(w, u, n)
      PROVE  \E j \in Job : Start(w, "count", j) /\ j.number \in Numbers /\ j.user \in Users
  <2> DEFINE j == [NoJob EXCEPT !.user = u, !.number = n]
  <2>1. j \in Job /\ j.number = n /\ j.user = u
    BY NoJobType DEF Job
  <2>2. Start(w, "count", j)
    BY <1>1 DEF VerifyNumber
  <2>3. QED
    BY <2>1, <2>2
<1>2. ASSUME NEW u \in Users, NEW o \in Users, AskRestore(w, u, o)
      PROVE  \E j \in Job : Start(w, "match", j) /\ j.number \in Numbers /\ j.user \in Users
  <2> DEFINE j == [NoJob EXCEPT !.user = o, !.number = phone[u]]
  <2>1. phone[u] \in Numbers
    BY <1>2 DEF AskRestore, TypeOK
  <2>2. j \in Job /\ j.number = phone[u] /\ j.user = o
    BY <2>1, NoJobType DEF Job
  <2>3. Start(w, "match", j)
    BY <1>2 DEF AskRestore
  <2>4. QED
    BY <2>1, <2>2, <2>3
<1>3. ASSUME NEW u \in Users, NEW t \in Tasks, SubmitResults(w, u, t)
      PROVE  \E j \in Job : /\ Start(w, "store", j) /\ j.number \in Numbers /\ j.user \in Users
                            /\ phone[j.user] = j.number /\ j.user \notin deactivated
  <2> DEFINE j == [NoJob EXCEPT !.user = u, !.number = phone[u], !.task = t]
  <2>1. phone[u] \in Numbers
    BY <1>3 DEF SubmitResults, TypeOK
  <2>2. j \in Job /\ j.number = phone[u] /\ j.user = u
    BY <2>1, NoJobType DEF Job
  <2>3. Start(w, "store", j) /\ u \notin deactivated
    BY <1>3 DEF SubmitResults
  <2>4. QED
    BY <2>1, <2>2, <2>3
<1>4. QED
  BY <1>1, <1>2, <1>3

\* A handler that ends is idle.
LEMMA FinishEffect ==
  ASSUME TypeOK, NEW w \in Workers, Finish(w)
  PROVE  pc'[w] = "idle" /\ \A v \in Workers \ {w} : pc'[v] = pc[v] /\ job'[v] = job[v]
BY DEF TypeOK, Finish, Goto

\* The steps of the handlers keep the user and the number of the request, or end it.
LEMMA StepEffect ==
  ASSUME TypeOK, NEW w \in Workers,
         \/ CheckRegistrations(w) \/ ReadNumber(w) \/ WriteNumber(w) \/ MatchNumbers(w)
         \/ ActivateUser(w) \/ ListOthers(w) \/ DeactivateOther(w) \/ CopyHistory(w)
         \/ PurgeResults(w) \/ MoveResults(w) \/ MoveResultsFails(w) \/ StoreResults(w)
         \/ LoadCompleted(w) \/ MarkCompleted(w) \/ Crash(w)
  PROVE  /\ Alone(w) /\ pc[w] # "idle"
         /\ \/ pc'[w] = "idle"
            \/ /\ job'[w].user = job[w].user /\ job'[w].number = job[w].number
               /\ job'[w].task = job[w].task
               /\ pc[w] # "deactivate" => job'[w].victim = job[w].victim
<1>1. job[w] \in Job
  BY DEF TypeOK
<1>2. CASE \/ CheckRegistrations(w) \/ ReadNumber(w) \/ WriteNumber(w) \/ MatchNumbers(w)
           \/ ActivateUser(w) \/ ListOthers(w) \/ CopyHistory(w)
           \/ PurgeResults(w) \/ MoveResults(w) \/ StoreResults(w)
  <2>1. pc[w] # "idle" /\ (UNCHANGED job \/ Finish(w))
        /\ \A v \in Workers \ {w} : pc'[v] = pc[v] /\ todo'[v] = todo[v]
    BY <1>2 DEF TypeOK, Goto, Finish, CheckRegistrations, ReadNumber, WriteNumber,
                MatchNumbers, ActivateUser, ListOthers, CopyHistory, PurgeResults, MoveResults,
                StoreResults
  <2>2. CASE UNCHANGED job
    BY <2>1, <2>2 DEF Alone
  <2>3. CASE Finish(w)
    BY <2>1, <2>3, FinishEffect DEF Alone
  <2>4. QED
    BY <2>1, <2>2, <2>3
<1>3. CASE DeactivateOther(w)
  <2>1. PICK v \in todo[w] : job' = [job EXCEPT ![w].victim = v]
    BY <1>3 DEF DeactivateOther
  <2>2. job'[w] = [job[w] EXCEPT !.victim = v]
    BY <2>1 DEF TypeOK
  <2>3. /\ job'[w].user = job[w].user /\ job'[w].number = job[w].number
        /\ job'[w].task = job[w].task
    BY <1>1, <2>2 DEF Job
  <2>4. Alone(w) /\ pc[w] = "deactivate"
    BY <1>3, <2>1 DEF Alone, DeactivateOther, Goto, TypeOK
  <2>5. QED
    BY <2>3, <2>4
<1>4. CASE LoadCompleted(w)
  <2> DEFINE seen == completed[job[w].user]
  <2>1. job'[w] = [job[w] EXCEPT !.seen = seen]
    BY <1>4 DEF LoadCompleted, TypeOK
  <2>2. Alone(w) /\ pc[w] = "load"
    BY <1>4 DEF Alone, LoadCompleted, Goto, TypeOK
  <2> HIDE DEF seen
  <2>3. /\ job'[w].user = job[w].user /\ job'[w].number = job[w].number
        /\ job'[w].task = job[w].task /\ job'[w].victim = job[w].victim
    BY <1>1, <2>1 DEF Job
  <2>4. QED
    BY <2>2, <2>3
<1>5. CASE MoveResultsFails(w) \/ MarkCompleted(w) \/ Crash(w)
  <2>1. /\ Finish(w) /\ pc[w] # "idle" /\ \A v \in Workers \ {w} : todo'[v] = todo[v]
    BY <1>5 DEF MoveResultsFails, MarkCompleted, Crash, TypeOK
  <2>2. QED
    BY <2>1, FinishEffect DEF Alone
<1>6. QED
  BY <1>2, <1>3, <1>4, <1>5

\* Starting a request is seen by the other request about its number.
LEMMA BusyStart ==
  ASSUME TypeOK, OneBusy, NEW w \in Workers, NEW s, NEW j, Start(w, s, j)
  PROVE  OneBusy'
<1>1. /\ Alone(w) /\ job'[w] = j /\ overlapped \subseteq overlapped'
      /\ BusyWith(j.number) => j.number \in overlapped'
  BY StartEffect
<1>2. ASSUME NEW n \in Numbers \ overlapped', NEW v \in Workers, NEW x \in Workers,
             Busy(v, n)', Busy(x, n)'
      PROVE  v = x
  <2>1. ASSUME NEW y \in Workers \ {w}, Busy(y, n)' PROVE Busy(y, n)
    BY <1>1, <2>1 DEF Busy, Alone
  <2>2. ASSUME NEW y \in Workers \ {w}, Busy(y, n) PROVE n # j.number
    BY <1>1, <1>2, <2>2 DEF Busy, BusyWith
  <2>3. Busy(w, n)' => n = j.number
    BY <1>1 DEF Busy
  <2>4. CASE v # w /\ x # w
    BY <1>1, <1>2, <2>1, <2>4 DEF OneBusy
  <2>5. QED
    BY <1>2, <2>1, <2>2, <2>3, <2>4
<1>3. QED
  BY <1>2 DEF OneBusy

\* Whatever else happens, no request becomes one about another number.
LEMMA BusyFrame ==
  ASSUME OneBusy, overlapped \subseteq overlapped',
         \A v \in Workers : pc'[v] # "idle" => pc[v] # "idle" /\ job'[v].number = job[v].number
  PROVE  OneBusy'
BY DEF OneBusy, Busy

\* The steps of the handlers, and of the world around them, for OneBusy.
LEMMA BusyStep ==
  ASSUME TypeOK, OneBusy, [Next]_vars
  PROVE  OneBusy'
<1>1. ASSUME NEW w \in Workers,
             \/ \E u \in Users, n \in Numbers : VerifyNumber(w, u, n)
             \/ \E u, o \in Users : AskRestore(w, u, o)
             \/ \E u \in Users, t \in Tasks : SubmitResults(w, u, t)
      PROVE  OneBusy'
  BY <1>1, BusyStart DEF VerifyNumber, AskRestore, SubmitResults
<1>2. ASSUME NEW w \in Workers,
             \/ CheckRegistrations(w) \/ ReadNumber(w) \/ WriteNumber(w) \/ MatchNumbers(w)
             \/ ActivateUser(w) \/ ListOthers(w) \/ DeactivateOther(w) \/ CopyHistory(w)
             \/ PurgeResults(w) \/ MoveResults(w) \/ MoveResultsFails(w) \/ StoreResults(w)
             \/ LoadCompleted(w) \/ MarkCompleted(w) \/ Crash(w)
      PROVE  OneBusy'
  <2>1. UNCHANGED overlapped
    BY <1>2 DEF history, CheckRegistrations, ReadNumber, WriteNumber, MatchNumbers,
                ActivateUser, ListOthers, DeactivateOther, CopyHistory, PurgeResults,
                MoveResults, MoveResultsFails, StoreResults, LoadCompleted, MarkCompleted, Crash
  <2>2. Alone(w) /\ (pc'[w] = "idle" \/ (pc[w] # "idle" /\ job'[w].number = job[w].number))
    BY <1>2, StepEffect
  <2>3. QED
    BY <2>1, <2>2, BusyFrame DEF Alone
<1>3. ASSUME UNCHANGED <<pc, job, overlapped>> PROVE OneBusy'
  BY <1>3, BusyFrame
<1>4. QED
  BY <1>1, <1>2, <1>3 DEF Next, vars, StoreHints, BlockOldClient, history

\* Some workers are finitely many.
LEMMA CountedFinite ==
  ASSUME NEW n
  PROVE  /\ Counted(n) \subseteq Workers
         /\ IsFiniteSet(Counted(n)) /\ Cardinality(Counted(n)) \in Nat
         /\ Cardinality(Workers) \in Nat /\ Cardinality(Counted(n)) <= Cardinality(Workers)
<1>1. Counted(n) \in SUBSET Workers
  BY DEF Counted
<1>2. QED
  BY <1>1, PhonesAssumption, FS_Subset, FS_CardinalityType

\* The same after a step.
LEMMA CountedFiniteNext ==
  ASSUME NEW n
  PROVE  /\ Counted(n)' \subseteq Workers
         /\ IsFiniteSet(Counted(n)') /\ Cardinality(Counted(n)') \in Nat
         /\ Cardinality(Counted(n)') <= Cardinality(Workers)
<1>1. Counted(n)' \in SUBSET Workers
  BY DEF Counted
<1>2. QED
  BY <1>1, PhonesAssumption, FS_Subset, FS_CardinalityType

\* The limit is a number, and overlapping requests only raise it.
LEMMA AllowedGrows ==
  ASSUME overlapped \subseteq overlapped', overlapped' # overlapped => Workers # {}, NEW n
  PROVE  Allowed(n) \in Int /\ Allowed(n)' \in Int /\ Allowed(n) <= Allowed(n)'
<1>1. Cardinality(Workers) \in Nat /\ (Workers # {} => Cardinality(Workers) # 0)
  BY PhonesAssumption, FS_CardinalityType, FS_EmptySet
<1>2. QED
  BY <1>1, PhonesAssumption DEF Allowed

\* Fewer users, fewer requests past the count.
LEMMA CountFrame ==
  ASSUME CountInv, OneBusy', overlapped \subseteq overlapped',
         overlapped' # overlapped => Workers # {},
         \A n \in Numbers : UsersOf(n)' \subseteq UsersOf(n) /\ Counted(n)' \subseteq Counted(n)
  PROVE  CountInv'
<1>1. ASSUME NEW n \in Numbers
      PROVE  /\ IsFiniteSet(UsersOf(n)')
             /\ Cardinality(UsersOf(n)') + Cardinality(Counted(n)') <= Allowed(n)'
  <2>1. IsFiniteSet(UsersOf(n)) /\ UsersOf(n)' \in SUBSET UsersOf(n)
    BY DEF CountInv
  <2>2. /\ IsFiniteSet(UsersOf(n)') /\ Cardinality(UsersOf(n)') <= Cardinality(UsersOf(n))
        /\ Cardinality(UsersOf(n)) \in Nat /\ Cardinality(UsersOf(n)') \in Nat
    BY <2>1, FS_Subset, FS_CardinalityType
  <2>3. IsFiniteSet(Counted(n)) /\ Counted(n)' \in SUBSET Counted(n)
        /\ Cardinality(Counted(n)) \in Nat
    BY CountedFinite
  <2>4. Cardinality(Counted(n)') <= Cardinality(Counted(n)) /\ Cardinality(Counted(n)') \in Nat
    BY <2>3, FS_Subset, FS_CardinalityType
  <2>5. Allowed(n) \in Int /\ Allowed(n)' \in Int /\ Allowed(n) <= Allowed(n)'
    BY AllowedGrows
  <2>6. Cardinality(UsersOf(n)) + Cardinality(Counted(n)) <= Allowed(n)
    BY DEF CountInv
  <2>7. QED
    BY <2>2, <2>3, <2>4, <2>5, <2>6
<1>2. QED
  BY <1>1 DEF CountInv

\* The count lets a request past when one more user is allowed; the other requests
\* it may not have seen are those of the other workers.
LEMMA CheckCountStep ==
  ASSUME TypeOK, CountInv, OneBusy', NEW w \in Workers, CheckRegistrations(w),
         ~TooManyRegistrations(job[w].number)
  PROVE  CountInv'
<1>1. /\ Alone(w) /\ pc[w] = "count" /\ pc'[w] = "read" /\ job' = job
      /\ UNCHANGED <<phone, overlapped>>
  BY StepEffect DEF CheckRegistrations, tables, history, Goto, TypeOK
<1>2. PICK m \in Numbers : m = job[w].number
  BY <1>1 DEF TypeOK, JobOK
<1>3. ASSUME NEW n \in Numbers
      PROVE  /\ UsersOf(n)' = UsersOf(n) /\ Allowed(n)' = Allowed(n)
             /\ n # m => Counted(n)' = Counted(n)
  <2>1. UsersOf(n)' = UsersOf(n) /\ Allowed(n)' = Allowed(n)
    BY <1>1 DEF UsersOf, Allowed
  <2>2. ASSUME n # m PROVE Counted(n)' = Counted(n)
    BY <1>1, <1>2, <2>2 DEF Counted, Alone
  <2>3. QED
    BY <2>1, <2>2
<1>4. Cardinality(UsersOf(m)) \in Nat /\ IsFiniteSet(UsersOf(m))
  BY <1>2, FS_CardinalityType DEF CountInv
<1>5. Cardinality(UsersOf(m)) <= MaxRegistrations - 1
  BY <1>2, <1>4, PhonesAssumption DEF TooManyRegistrations
<1>6. Cardinality(UsersOf(m)) + Cardinality(Counted(m)') <= Allowed(m)
  <2>1. Cardinality(Counted(m)') \in Nat /\ Cardinality(Counted(m)') <= Cardinality(Workers)
        /\ Cardinality(Workers) \in Nat
    BY CountedFinite, CountedFiniteNext
  <2>2. CASE m \in overlapped
    <3>1. Allowed(m) = MaxRegistrations + (Cardinality(Workers) - 1)
      BY <2>2 DEF Allowed
    <3>2. QED
      BY <1>4, <1>5, <2>1, <3>1, PhonesAssumption
  <2>3. CASE m \notin overlapped
    <3>1. pc'[w] # "idle" /\ job'[w].number = m /\ m \in Numbers \ overlapped'
      BY <1>1, <1>2, <2>3
    <3>2. Counted(m)' \in SUBSET {w}
      <4>1. ASSUME NEW v \in Workers, pc'[v] \in {"read", "write"}, job'[v].number = m
            PROVE  v = w
        BY <3>1, <4>1 DEF OneBusy, Busy
      <4>2. QED
        BY <4>1 DEF Counted
    <3>3. Cardinality(Counted(m)') <= 1
      <4>1. IsFiniteSet({w}) /\ Cardinality({w}) = 1
        BY FS_Singleton
      <4>2. QED
        BY <3>2, <4>1, FS_Subset
    <3>4. Allowed(m) = MaxRegistrations
      BY <2>3, PhonesAssumption DEF Allowed
    <3>5. QED
      BY <1>4, <1>5, <2>1, <3>3, <3>4, PhonesAssumption
  <2>4. QED
    BY <2>2, <2>3
<1>7. ASSUME NEW n \in Numbers
      PROVE  /\ IsFiniteSet(UsersOf(n)')
             /\ Cardinality(UsersOf(n)') + Cardinality(Counted(n)') <= Allowed(n)'
  <2>1. UsersOf(n)' = UsersOf(n) /\ Allowed(n)' = Allowed(n)
    BY <1>3
  <2>2. CASE n = m
    BY <1>4, <1>6, <2>1, <2>2
  <2>3. CASE n # m
    BY <1>3, <2>1, <2>3 DEF CountInv
  <2>4. QED
    BY <2>2, <2>3
<1>8. QED
  BY <1>7 DEF CountInv

\* A request that writes the number is one user more, and one request fewer.
LEMMA WriteCountStep ==
  ASSUME TypeOK, CountInv, OneBusy', NEW w \in Workers, WriteNumber(w)
  PROVE  CountInv'
<1>0. PICK m \in Numbers, u \in Users : m = job[w].number /\ u = job[w].user
  BY DEF WriteNumber, TypeOK, JobOK
<1>1. /\ Alone(w) /\ pc[w] = "write" /\ pc'[w] = "list" /\ UNCHANGED overlapped
      /\ phone' = [phone EXCEPT ![u] = m] /\ job[w].number = m
  BY <1>0, StepEffect DEF WriteNumber, Goto, TypeOK
<1>2. ASSUME NEW n \in Numbers
      PROVE  /\ Counted(n)' = Counted(n) \ {w}
             /\ Allowed(n)' = Allowed(n)
             /\ n # m => UsersOf(n)' \subseteq UsersOf(n)
             /\ n = m => UsersOf(n)' = UsersOf(n) \cup {u} /\ w \in Counted(n)
  <2>1. Counted(n)' = Counted(n) \ {w} /\ (n = m => w \in Counted(n))
    BY <1>1 DEF Counted, Alone
  <2>2. Allowed(n)' = Allowed(n)
    BY <1>1 DEF Allowed
  <2>3. ASSUME NEW x \in Users PROVE phone'[x] = IF x = u THEN m ELSE phone[x]
    BY <1>1 DEF TypeOK
  <2>4. n # m => UsersOf(n)' \subseteq UsersOf(n)
    BY <1>1, <2>3 DEF UsersOf
  <2>5. n = m => UsersOf(n)' = UsersOf(n) \cup {u}
    BY <1>1, <2>3 DEF UsersOf
  <2>6. QED
    BY <2>1, <2>2, <2>4, <2>5
<1>3. ASSUME NEW n \in Numbers
      PROVE  /\ IsFiniteSet(UsersOf(n)')
             /\ Cardinality(UsersOf(n)') + Cardinality(Counted(n)') <= Allowed(n)'
  <2>1. /\ IsFiniteSet(UsersOf(n)) /\ Cardinality(UsersOf(n)) \in Nat
        /\ Cardinality(UsersOf(n)) + Cardinality(Counted(n)) <= Allowed(n)
    BY FS_CardinalityType DEF CountInv
  <2>2. IsFiniteSet(Counted(n)) /\ Cardinality(Counted(n)) \in Nat
    BY CountedFinite
  <2>3. Cardinality(Counted(n) \ {w}) = IF w \in Counted(n) THEN Cardinality(Counted(n)) - 1
                                       ELSE Cardinality(Counted(n))
    BY <2>2, FS_RemoveElement
  <2>4. Allowed(n) \in Int
    BY AllowedGrows, <1>1
  <2>5. CASE n = m
    <3>1. /\ IsFiniteSet(UsersOf(n) \cup {u})
          /\ Cardinality(UsersOf(n) \cup {u}) = IF u \in UsersOf(n) THEN Cardinality(UsersOf(n))
                                               ELSE Cardinality(UsersOf(n)) + 1
      BY <2>1, FS_AddElement
    <3>2. Cardinality(UsersOf(n) \cup {u}) <= Cardinality(UsersOf(n)) + 1
          /\ Cardinality(UsersOf(n) \cup {u}) \in Nat
      BY <2>1, <3>1
    <3>3. Cardinality(Counted(n) \ {w}) = Cardinality(Counted(n)) - 1
      BY <1>2, <2>3, <2>5
    <3>4. /\ UsersOf(n)' = UsersOf(n) \cup {u} /\ Counted(n)' = Counted(n) \ {w}
          /\ Allowed(n)' = Allowed(n)
      BY <1>2, <2>5
    <3>5. Cardinality(UsersOf(n) \cup {u}) + Cardinality(Counted(n) \ {w}) <= Allowed(n)
      BY <2>1, <2>2, <2>4, <3>2, <3>3
    <3>6. QED
      BY <3>1, <3>4, <3>5
  <2>6. CASE n # m
    <3>1. UsersOf(n)' \in SUBSET UsersOf(n)
      BY <1>2, <2>6
    <3>2. IsFiniteSet(UsersOf(n)') /\ Cardinality(UsersOf(n)') <= Cardinality(UsersOf(n))
          /\ Cardinality(UsersOf(n)') \in Nat
      BY <2>1, <3>1, FS_Subset, FS_CardinalityType
    <3>3. Cardinality(Counted(n) \ {w}) \in Int
          /\ Cardinality(Counted(n) \ {w}) <= Cardinality(Counted(n))
      BY <2>2, <2>3
    <3>4. Counted(n)' = Counted(n) \ {w} /\ Allowed(n)' = Allowed(n)
      BY <1>2
    <3>5. Cardinality(UsersOf(n)') + Cardinality(Counted(n) \ {w}) <= Allowed(n)
      BY <2>1, <2>2, <2>4, <3>2, <3>3
    <3>6. QED
      BY <3>2, <3>4, <3>5
  <2>7. QED
    BY <2>5, <2>6
<1>4. QED
  BY <1>3 DEF CountInv

\* Every step preserves the invariant.
LEMMA CountStep ==
  ASSUME TypeOK, CountInv, [Next]_vars
  PROVE  CountInv'
<1> USE DEF tables, history
<1>1. OneBusy'
  BY BusyStep DEF CountInv
<1>2. ASSUME NEW w \in Workers,
             \/ \E u \in Users, n \in Numbers : VerifyNumber(w, u, n)
             \/ \E u, o \in Users : AskRestore(w, u, o)
             \/ \E u \in Users, t \in Tasks : SubmitResults(w, u, t)
      PROVE  CountInv'
  <2>1. PICK s \in {"count", "match", "store"}, j \in Job : Start(w, s, j)
    BY <1>2, StartKinds
  <2>2. /\ Alone(w) /\ pc'[w] = s /\ UNCHANGED phone /\ overlapped \subseteq overlapped'
    BY <2>1, StartEffect
  <2>3. \A n \in Numbers : UsersOf(n)' \subseteq UsersOf(n) /\ Counted(n)' \subseteq Counted(n)
    BY <2>2 DEF UsersOf, Counted, Alone
  <2>4. QED
    BY <1>1, <2>2, <2>3, CountFrame
<1>3. ASSUME NEW w \in Workers, Alone(w), UNCHANGED <<phone, overlapped>>,
             pc'[w] \in {"read", "write"} =>
               pc[w] \in {"read", "write"} /\ job'[w].number = job[w].number
      PROVE  CountInv'
  <2>1. \A n \in Numbers : UsersOf(n)' \subseteq UsersOf(n) /\ Counted(n)' \subseteq Counted(n)
    BY <1>3 DEF UsersOf, Counted, Alone
  <2>2. QED
    BY <1>1, <1>3, <2>1, CountFrame
<1>4. ASSUME NEW w \in Workers, CheckRegistrations(w) PROVE CountInv'
  <2>1. CASE TooManyRegistrations(job[w].number)
    <3>1. UNCHANGED <<phone, overlapped>> /\ Finish(w)
      BY <1>4, <2>1 DEF CheckRegistrations
    <3>2. Alone(w) /\ pc'[w] = "idle"
      BY <1>4, <3>1, StepEffect, FinishEffect
    <3>3. QED
      BY <1>3, <3>1, <3>2
  <2>2. CASE ~TooManyRegistrations(job[w].number)
    BY <1>1, <1>4, <2>2, CheckCountStep
  <2>3. QED
    BY <2>1, <2>2
<1>5. ASSUME NEW w \in Workers, ReadNumber(w) PROVE CountInv'
  <2>1. /\ UNCHANGED <<phone, overlapped>> /\ pc[w] = "read"
    BY <1>5 DEF ReadNumber
  <2>2. Alone(w) /\ (pc'[w] = "idle" \/ job'[w].number = job[w].number)
    BY <1>5, StepEffect
  <2>3. QED
    BY <1>3, <2>1, <2>2
<1>6. ASSUME NEW w \in Workers,
             \/ MatchNumbers(w) \/ ActivateUser(w) \/ ListOthers(w) \/ DeactivateOther(w)
             \/ CopyHistory(w) \/ PurgeResults(w) \/ MoveResults(w) \/ MoveResultsFails(w)
             \/ StoreResults(w) \/ LoadCompleted(w) \/ MarkCompleted(w) \/ Crash(w)
      PROVE  CountInv'
  <2>1. UNCHANGED <<phone, overlapped>>
    BY <1>6 DEF MatchNumbers, ActivateUser, ListOthers, DeactivateOther, CopyHistory,
                PurgeResults, MoveResults, MoveResultsFails, StoreResults, LoadCompleted,
                MarkCompleted, Crash
  <2>2. pc'[w] \notin {"read", "write"}
    BY <1>6 DEF MatchNumbers, ActivateUser, ListOthers, DeactivateOther, CopyHistory,
                PurgeResults, MoveResults, MoveResultsFails, StoreResults, LoadCompleted,
                MarkCompleted, Crash, Goto, Finish, TypeOK
  <2>3. QED
    BY <1>3, <1>6, <2>1, <2>2, StepEffect
<1>7. ASSUME UNCHANGED <<phone, overlapped, pc, job>> PROVE CountInv'
  <2>1. \A n \in Numbers : UsersOf(n)' \subseteq UsersOf(n) /\ Counted(n)' \subseteq Counted(n)
    BY <1>7 DEF UsersOf, Counted
  <2>2. QED
    BY <1>1, <1>7, <2>1, CountFrame
<1>8. QED
  BY <1>1, <1>2, <1>4, <1>5, <1>6, <1>7, WriteCountStep
  DEF Next, vars, StoreHints, BlockOldClient

\* However requests overlap and wherever they fail, a number has at most as many
\* registrations as are allowed, and, once two requests about it were in progress
\* at the same time, less than one for each worker beyond that.
THEOREM RegistrationsLimit == Spec => []RegistrationsBounded
<1>1. Init => CountInv
  <2> SUFFICES ASSUME Init PROVE CountInv
    OBVIOUS
  <2>1. OneBusy
    BY DEF Init, OneBusy, Busy
  <2>2. ASSUME NEW n \in Numbers
        PROVE  /\ IsFiniteSet(UsersOf(n))
               /\ Cardinality(UsersOf(n)) + Cardinality(Counted(n)) <= Allowed(n)
    <3>1. UsersOf(n) = {} /\ Counted(n) = {} /\ n \notin overlapped
      BY PhonesAssumption DEF Init, UsersOf, Counted
    <3>2. QED
      BY <3>1, FS_EmptySet, PhonesAssumption DEF Allowed
  <2>3. QED
    BY <2>1, <2>2 DEF CountInv
<1>2. TypeOK /\ CountInv /\ [Next]_vars => CountInv'
  BY CountStep
<1>3. CountInv => RegistrationsBounded
  <2> SUFFICES ASSUME CountInv, NEW n \in Numbers
               PROVE  Cardinality(UsersOf(n)) <= Allowed(n)
    BY DEF RegistrationsBounded, Allowed
  <2>1. /\ Cardinality(UsersOf(n)) \in Nat /\ Cardinality(Counted(n)) \in Nat
        /\ Cardinality(UsersOf(n)) + Cardinality(Counted(n)) <= Allowed(n)
    BY CountedFinite, FS_CardinalityType DEF CountInv
  <2>2. Allowed(n) \in Int
    BY PhonesAssumption, CountedFinite DEF Allowed
  <2>3. QED
    BY <2>1, <2>2
<1>4. QED
  BY <1>1, <1>2, <1>3, TypeCorrect, PTL DEF Spec

\* Only WriteNumber gives a user a number.
LEMMA PhoneEffect ==
  ASSUME TypeOK, [Next]_vars
  PROVE  /\ spoiled \subseteq spoiled' /\ overlapped \subseteq overlapped'
         /\ \/ UNCHANGED phone
            \/ \E w \in Workers : WriteNumber(w)
<1>1. ASSUME NEW w \in Workers, WriteNumber(w)
      PROVE  spoiled \subseteq spoiled' /\ overlapped \subseteq overlapped'
  BY <1>1 DEF WriteNumber
<1>2. ASSUME NEW w \in Workers, NEW s, NEW j, Start(w, s, j)
      PROVE  UNCHANGED phone /\ spoiled \subseteq spoiled' /\ overlapped \subseteq overlapped'
  BY <1>2, StartEffect DEF Start, tables
<1>3. ASSUME NEW w \in Workers,
             \/ \E u \in Users, n \in Numbers : VerifyNumber(w, u, n)
             \/ \E u, o \in Users : AskRestore(w, u, o)
             \/ \E u \in Users, t \in Tasks : SubmitResults(w, u, t)
      PROVE  UNCHANGED phone /\ spoiled \subseteq spoiled' /\ overlapped \subseteq overlapped'
  BY <1>2, <1>3, StartKinds
<1>4. ASSUME NEW w \in Workers,
             \/ CheckRegistrations(w) \/ ReadNumber(w) \/ MatchNumbers(w)
             \/ ActivateUser(w) \/ ListOthers(w) \/ DeactivateOther(w) \/ CopyHistory(w)
             \/ PurgeResults(w) \/ MoveResults(w) \/ MoveResultsFails(w) \/ StoreResults(w)
             \/ LoadCompleted(w) \/ MarkCompleted(w) \/ Crash(w)
      PROVE  UNCHANGED phone /\ spoiled \subseteq spoiled' /\ overlapped \subseteq overlapped'
  BY <1>4 DEF tables, history, CheckRegistrations, ReadNumber, MatchNumbers, ActivateUser,
              ListOthers, DeactivateOther, CopyHistory, PurgeResults, MoveResults,
              MoveResultsFails, StoreResults, LoadCompleted, MarkCompleted, Crash
<1>5. CASE (\E u \in Users : StoreHints(u) \/ BlockOldClient(u)) \/ UNCHANGED vars
  BY <1>5 DEF StoreHints, BlockOldClient, vars, history
<1>6. QED
  BY <1>1, <1>3, <1>4, <1>5 DEF Next

\* What WriteNumber does to the users' numbers.
LEMMA WriteEffect ==
  ASSUME TypeOK, NEW w \in Workers, WriteNumber(w)
  PROVE  \E m \in Numbers, u \in Users :
           /\ job[w].number = m /\ job[w].user = u /\ pc[w] = "write" /\ pc'[w] = "list"
           /\ UNCHANGED <<deactivated, completed, results, hinted, job, todo, earned,
                          overlapped, blocked>>
           /\ \A x \in Users : phone'[x] = IF x = u THEN m ELSE phone[x]
           /\ spoiled' = IF phone[u] \in {None, m} THEN spoiled
                         ELSE spoiled \cup {m, phone[u]}
<1> DEFINE m == job[w].number
           u == job[w].user
<1>1. m \in Numbers /\ u \in Users
  BY DEF WriteNumber, TypeOK, JobOK
<1>2. \A x \in Users : phone'[x] = IF x = u THEN m ELSE phone[x]
  BY <1>1 DEF WriteNumber, TypeOK
<1>3. QED
  BY <1>1, <1>2 DEF WriteNumber, Goto, TypeOK

\* Whom a handler found to have the number keeps it, or it is spoiled.
LEMMA HeldGrows ==
  ASSUME TypeOK, [Next]_vars, NEW u \in Users, NEW n \in Numbers, Held(u, n)
  PROVE  Held(u, n)'
<1>1. CASE UNCHANGED phone
  BY <1>1, PhoneEffect DEF Held
<1>2. ASSUME NEW w \in Workers, WriteNumber(w) PROVE Held(u, n)'
  <2>1. PICK m \in Numbers, x \in Users :
          /\ phone'[u] = IF u = x THEN m ELSE phone[u]
          /\ spoiled' = IF phone[x] \in {None, m} THEN spoiled ELSE spoiled \cup {m, phone[x]}
    BY <1>2, WriteEffect
  <2>2. CASE u # x
    BY <2>1, <2>2 DEF Held
  <2>3. CASE u = x /\ phone[x] \in {None, m}
    <3>1. None \notin Numbers /\ spoiled \subseteq Numbers
      BY PhonesAssumption DEF TypeOK
    <3>2. phone[u] = m
      BY <2>3, <3>1 DEF Held
    <3>3. QED
      BY <2>1, <2>3, <3>2 DEF Held
  <2>4. CASE u = x /\ phone[x] \notin {None, m}
    BY <2>1, <2>4 DEF Held
  <2>5. QED
    BY <2>2, <2>3, <2>4
<1>3. QED
  BY <1>1, <1>2, PhoneEffect

\* The users a request names are users, and its number is a number.
LEMMA HeldTypes ==
  ASSUME TypeOK, NEW w \in Workers, pc[w] # "idle"
  PROVE  /\ job[w].user \in Users /\ job[w].number \in Numbers /\ todo[w] \subseteq Users
         /\ pc[w] \in {"copy", "purge", "move"} => job[w].victim \in Users
BY DEF TypeOK, JobOK

\* A worker that takes no step.
LEMMA HeldFrame ==
  ASSUME TypeOK, ClaimInv, [Next]_vars, NEW w \in Workers, HeldBy(w),
         pc'[w] = pc[w], job'[w] = job[w], todo'[w] = todo[w]
  PROVE  HeldBy(w)'
<1>1. CASE pc[w] = "idle"
  BY <1>1 DEF HeldBy, ClaimInv, Moving, MoveSteps, SubmitSteps
<1>2. CASE pc[w] # "idle"
  <2> DEFINE n == job[w].number
             u == job[w].user
             v == job[w].victim
  <2>1. /\ u \in Users /\ n \in Numbers /\ todo[w] \subseteq Users
        /\ pc[w] \in {"copy", "purge", "move"} => v \in Users
    BY <1>2, HeldTypes
  <2>2. \A x \in Users : Held(x, n) => Held(x, job[w].number)'
    <3>1. PICK k \in Numbers : k = n
      BY <2>1
    <3>2. \A x \in Users : Held(x, k) => Held(x, k)'
      BY HeldGrows
    <3>3. job'[w].number = k
      BY <3>1
    <3>4. QED
      BY <3>1, <3>2, <3>3 DEF Held
  <2>3. QED
    BY <2>1, <2>2 DEF HeldBy, Held
<1>3. QED
  BY <1>1, <1>2

\* A worker that goes on with a request it has a user for.
LEMMA HeldOn ==
  ASSUME TypeOK, [Next]_vars, NEW w \in Workers, NEW u \in Users, NEW n \in Numbers,
         job'[w].user = u, job'[w].number = n, Held(u, n) \/ Held(u, n)',
         \A v \in todo'[w] : v \in Users /\ Held(v, n),
         pc'[w] \in {"copy", "purge", "move"} =>
           \E v \in Users : job'[w].victim = v /\ Held(v, n)
  PROVE  HeldBy(w)'
<1>1. \A x \in Users : Held(x, n) => Held(x, n)'
  BY HeldGrows
<1>2. QED
  BY <1>1 DEF HeldBy, Held

\* The users of HeldBy, step by step.
LEMMA HeldStep ==
  ASSUME TypeOK, ClaimInv, HeldInv, [Next]_vars
  PROVE  HeldInv'
<1>1. ASSUME NEW w \in Workers, Alone(w), HeldBy(w)' PROVE HeldInv'
  <2>1. ASSUME NEW v \in Workers \ {w} PROVE HeldBy(v)'
    BY <1>1, <2>1, HeldFrame DEF HeldInv, Alone
  <2>2. QED
    BY <1>1, <2>1 DEF HeldInv
<1>2. ASSUME NEW w \in Workers, pc[w] \notin Moving \/ todo'[w] = {}, pc'[w] = "idle",
             todo'[w] = todo[w] \/ todo'[w] = {}
      PROVE  HeldBy(w)'
  BY <1>2 DEF HeldBy, ClaimInv, MoveSteps, SubmitSteps
<1>3. ASSUME NEW w \in Workers,
             \/ \E u \in Users, n \in Numbers : VerifyNumber(w, u, n)
             \/ \E u, o \in Users : AskRestore(w, u, o)
             \/ \E u \in Users, t \in Tasks : SubmitResults(w, u, t)
      PROVE  HeldInv'
  <2>1. PICK s \in {"count", "match", "store"}, j \in Job :
          /\ Start(w, s, j) /\ j.number \in Numbers /\ j.user \in Users
          /\ s = "store" => phone[j.user] = j.number
    BY <1>3, StartKinds
  <2>2. Alone(w) /\ pc[w] = "idle" /\ pc'[w] = s /\ job'[w] = j /\ UNCHANGED <<phone, todo>>
    BY <2>1, StartEffect DEF tables
  <2>3. todo'[w] = {}
    BY <2>2 DEF ClaimInv, Moving
  <2>4. HeldBy(w)'
    BY <2>1, <2>2, <2>3 DEF HeldBy, Held, MoveSteps, SubmitSteps
  <2>5. QED
    BY <1>1, <2>2, <2>4
<1>4. ASSUME NEW w \in Workers,
             \/ CheckRegistrations(w) \/ ReadNumber(w)
             \/ StoreResults(w) \/ LoadCompleted(w) \/ MarkCompleted(w)
             \/ WriteNumber(w) \/ MatchNumbers(w) \/ ActivateUser(w) \/ MoveResultsFails(w)
             \/ CopyHistory(w) \/ PurgeResults(w) \/ MoveResults(w) \/ Crash(w)
             \/ ListOthers(w) \/ DeactivateOther(w)
      PROVE  HeldInv'
  <2>1. /\ Alone(w) /\ pc[w] # "idle"
        /\ \/ pc'[w] = "idle"
           \/ /\ job'[w].user = job[w].user /\ job'[w].number = job[w].number
              /\ pc[w] # "deactivate" => job'[w].victim = job[w].victim
    BY <1>4, StepEffect
  <2>2. PICK u \in Users, n \in Numbers : u = job[w].user /\ n = job[w].number
    BY <2>1, HeldTypes
  <2>3. /\ pc[w] \in {"activate"} \cup MoveSteps \cup SubmitSteps => Held(u, n)
        /\ \A x \in todo[w] : x \in Users /\ Held(x, n)
        /\ pc[w] \notin Moving => todo[w] = {}
    BY <2>1, <2>2, HeldTypes DEF HeldInv, HeldBy, ClaimInv
  <2>4. CASE pc'[w] = "idle"
    <3>1. todo'[w] = {}
      BY <1>4, <2>3, <2>4 DEF CheckRegistrations, ReadNumber, StoreResults, LoadCompleted,
            MarkCompleted, WriteNumber, MatchNumbers, ActivateUser, MoveResultsFails,
            CopyHistory, PurgeResults, MoveResults, Crash, ListOthers, DeactivateOther, Goto,
            Finish, TypeOK, Moving
    <3>2. QED
      BY <1>1, <1>2, <2>1, <2>4, <3>1
  <2>5. CASE pc'[w] # "idle" /\ (CheckRegistrations(w) \/ ReadNumber(w))
    <3>1. pc'[w] \in {"read", "write"} /\ todo'[w] = {}
      BY <2>3, <2>5 DEF CheckRegistrations, ReadNumber, Goto, Finish, TypeOK, Moving
    <3>2. HeldBy(w)'
      BY <3>1 DEF HeldBy, MoveSteps, SubmitSteps
    <3>3. QED
      BY <1>1, <2>1, <3>2
  <2>6. CASE WriteNumber(w) \/ (MatchNumbers(w) /\ pc'[w] # "idle")
    <3>1. todo'[w] = {} /\ pc'[w] \in {"list", "activate"}
      BY <2>3, <2>6 DEF WriteNumber, MatchNumbers, Goto, Finish, TypeOK, Moving
    <3>2. Held(u, n)'
      <4>1. CASE WriteNumber(w)
        BY <2>2, <4>1, WriteEffect DEF Held
      <4>2. CASE MatchNumbers(w) /\ pc'[w] # "idle"
        BY <2>2, <4>2 DEF Held, MatchNumbers, Goto, Finish, TypeOK, tables
      <4>3. QED
        BY <2>6, <4>1, <4>2
    <3>3. job'[w].user = u /\ job'[w].number = n
      BY <2>1, <2>2, <3>1
    <3>4. HeldBy(w)'
      BY <3>1, <3>2, <3>3, HeldOn
    <3>5. QED
      BY <1>1, <2>1, <3>4
  <2>7. CASE /\ pc'[w] # "idle"
             /\ \/ StoreResults(w) \/ LoadCompleted(w) \/ MarkCompleted(w) \/ ActivateUser(w)
                \/ MoveResultsFails(w) \/ CopyHistory(w) \/ PurgeResults(w) \/ MoveResults(w)
                \/ Crash(w)
    <3>1. /\ pc[w] \in {"activate"} \cup MoveSteps \cup SubmitSteps
          /\ todo'[w] \subseteq todo[w]
          /\ pc'[w] \in {"copy", "purge", "move"} => pc[w] \in {"copy", "purge", "move"}
      BY <2>7 DEF StoreResults, LoadCompleted, MarkCompleted, ActivateUser, MoveResultsFails,
                  CopyHistory, PurgeResults, MoveResults, Crash, Goto, Finish, TypeOK,
                  MoveSteps, SubmitSteps
    <3>2. job'[w].user = u /\ job'[w].number = n
      BY <2>1, <2>2, <2>7
    <3>3. pc'[w] \in {"copy", "purge", "move"} =>
            \E v \in Users : job'[w].victim = v /\ Held(v, n)
      BY <2>1, <2>2, <2>7, <3>1, HeldTypes DEF HeldInv, HeldBy
    <3>4. HeldBy(w)'
      BY <2>3, <3>1, <3>2, <3>3, HeldOn
    <3>5. QED
      BY <1>1, <2>1, <3>4
  <2>8. CASE ListOthers(w) /\ pc'[w] # "idle"
    <3>1. pc[w] = "list" /\ pc'[w] = "deactivate" /\ todo'[w] \subseteq UsersOf(n)
      BY <2>2, <2>8 DEF ListOthers, OthersOf, ActiveUsers, Goto, Finish, TypeOK
    <3>2. job'[w].user = u /\ job'[w].number = n
      BY <2>1, <2>2, <2>8
    <3>3. HeldBy(w)'
      BY <2>3, <3>1, <3>2, HeldOn DEF UsersOf, Held, MoveSteps
    <3>4. QED
      BY <1>1, <2>1, <3>3
  <2>9. CASE DeactivateOther(w)
    <3>1. PICK v \in todo[w] : /\ job' = [job EXCEPT ![w].victim = v]
                               /\ todo' = [todo EXCEPT ![w] = @ \ {v}]
                               /\ pc[w] = "deactivate" /\ pc'[w] = "copy"
      BY <2>9 DEF DeactivateOther, Goto, TypeOK
    <3>2. job[w] \in Job /\ job'[w] = [job[w] EXCEPT !.victim = v]
      BY <3>1 DEF TypeOK
    <3>3. job'[w].victim = v
      BY <3>2 DEF Job
    <3>4. job'[w].user = u /\ job'[w].number = n /\ todo'[w] \subseteq todo[w]
      BY <2>1, <2>2, <3>1 DEF TypeOK
    <3>5. HeldBy(w)'
      BY <2>3, <3>1, <3>3, <3>4, HeldOn DEF MoveSteps
    <3>6. QED
      BY <1>1, <2>1, <3>5
  <2>10. QED
    BY <1>4, <2>4, <2>5, <2>6, <2>7, <2>8, <2>9
<1>5. ASSUME UNCHANGED <<pc, job, todo>> PROVE HeldInv'
  BY <1>5, HeldFrame DEF HeldInv
<1>6. QED
  BY <1>3, <1>4, <1>5 DEF Next, vars, StoreHints, BlockOldClient

\* A user that becomes deactivated without a number is blocked; a number that is
\* about to be written is news to its user.
LEMMA NewUserStep ==
  ASSUME TypeOK, OneBusy, HeldInv, NewUserInv, [Next]_vars
  PROVE  NewUserInv'
<1> DEFINE News(w) == pc[w] = "write" /\ job[w].number \notin overlapped \cup spoiled =>
                        phone[job[w].user] # job[w].number
<1>1. spoiled \subseteq spoiled' /\ overlapped \subseteq overlapped'
  BY PhoneEffect
<1>2. ASSUME NEW w \in Workers, WriteNumber(w) PROVE NewUserInv'
  <2>1. PICK m \in Numbers, u \in Users :
          /\ job[w].number = m /\ pc[w] = "write" /\ pc'[w] = "list"
          /\ UNCHANGED <<deactivated, job, overlapped, blocked>>
          /\ \A x \in Users : phone'[x] = IF x = u THEN m ELSE phone[x]
    BY <1>2, WriteEffect
  <2>2. Alone(w)
    BY <1>2, StepEffect
  <2>3. ASSUME NEW x \in deactivated', phone'[x] = None PROVE x \in blocked'
    <3>1. x \in Users /\ None \notin Numbers
      BY <2>1, <2>3, PhonesAssumption DEF TypeOK
    <3>2. phone[x] = None
      BY <2>1, <2>3, <3>1
    <3>3. QED
      BY <2>1, <2>3, <3>2 DEF NewUserInv
  <2>4. ASSUME NEW v \in Workers, pc'[v] = "write", job'[v].number \notin overlapped' \cup spoiled'
        PROVE  phone'[job'[v].user] # job'[v].number
    <3>1. v # w /\ pc[v] = "write" /\ job'[v] = job[v]
      BY <2>1, <2>2, <2>4 DEF Alone
    <3>2. job[v].number # m
      BY <2>1, <2>4, <3>1, <1>1 DEF OneBusy, Busy
    <3>3. job[v].user \in Users /\ phone[job[v].user] # job[v].number
      BY <1>1, <2>4, <3>1, HeldTypes DEF NewUserInv
    <3>4. QED
      BY <2>1, <3>1, <3>2, <3>3
  <2>5. QED
    BY <2>3, <2>4 DEF NewUserInv
<1>3. ASSUME UNCHANGED phone,
             \A u \in deactivated' : phone[u] = None => u \in deactivated \/ u \in blocked',
             blocked \subseteq blocked',
             \A w \in Workers : pc'[w] = "write" =>
               \/ pc[w] = "write" /\ job'[w].number = job[w].number /\ job'[w].user = job[w].user
               \/ phone[job'[w].user] = None /\ job'[w].number # None
      PROVE  NewUserInv'
  BY <1>1, <1>3 DEF NewUserInv
<1>4. ASSUME NEW w \in Workers,
             \/ \E u \in Users, n \in Numbers : VerifyNumber(w, u, n)
             \/ \E u, o \in Users : AskRestore(w, u, o)
             \/ \E u \in Users, t \in Tasks : SubmitResults(w, u, t)
      PROVE  NewUserInv'
  <2>1. PICK s \in {"count", "match", "store"}, j \in Job : Start(w, s, j)
    BY <1>4, StartKinds
  <2>2. Alone(w) /\ pc'[w] = s /\ UNCHANGED <<phone, deactivated, blocked>>
    BY <2>1, StartEffect DEF tables
  <2>3. QED
    BY <1>3, <2>2 DEF Alone
<1>5. ASSUME NEW w \in Workers,
             \/ CheckRegistrations(w) \/ ReadNumber(w) \/ MatchNumbers(w)
             \/ ActivateUser(w) \/ ListOthers(w) \/ DeactivateOther(w) \/ CopyHistory(w)
             \/ PurgeResults(w) \/ MoveResults(w) \/ MoveResultsFails(w) \/ StoreResults(w)
             \/ LoadCompleted(w) \/ MarkCompleted(w) \/ Crash(w)
      PROVE  NewUserInv'
  <2>1. UNCHANGED <<phone, blocked>>
    BY <1>5 DEF tables, history, CheckRegistrations, ReadNumber, MatchNumbers, ActivateUser,
                ListOthers, DeactivateOther, CopyHistory, PurgeResults, MoveResults,
                MoveResultsFails, StoreResults, LoadCompleted, MarkCompleted, Crash
  <2>2. /\ Alone(w) /\ pc[w] # "idle"
        /\ \/ pc'[w] = "idle"
           \/ job'[w].user = job[w].user /\ job'[w].number = job[w].number
    BY <1>5, StepEffect
  <2>3. job[w].user \in Users /\ job[w].number \in Numbers /\ None \notin Numbers
    BY <2>2, HeldTypes, PhonesAssumption
  <2>4. \A u \in deactivated' : phone[u] = None => u \in deactivated
    BY <1>5, <2>3
    DEF tables, CheckRegistrations, ReadNumber, MatchNumbers, ActivateUser, ListOthers,
        DeactivateOther, CopyHistory, PurgeResults, MoveResults, MoveResultsFails, StoreResults,
        LoadCompleted, MarkCompleted, Crash
  <2>5. pc'[w] = "write" => phone[job[w].user] = None
    BY <1>5 DEF CheckRegistrations, ReadNumber, MatchNumbers,
        ActivateUser, ListOthers, DeactivateOther, CopyHistory, PurgeResults, MoveResults,
        MoveResultsFails, StoreResults, LoadCompleted, MarkCompleted, Crash, Goto, Finish, TypeOK
  <2>6. \A v \in Workers : pc'[v] = "write" =>
          \/ pc[v] = "write" /\ job'[v].number = job[v].number /\ job'[v].user = job[v].user
          \/ phone[job'[v].user] = None /\ job'[v].number # None
    BY <2>2, <2>3, <2>5 DEF Alone
  <2>7. QED
    BY <1>3, <2>1, <2>4, <2>6
<1>6. CASE (\E u \in Users : StoreHints(u) \/ BlockOldClient(u)) \/ UNCHANGED vars
  <2>1. /\ UNCHANGED <<phone, pc, job>> /\ blocked \subseteq blocked'
        /\ \A u \in deactivated' : u \in deactivated \/ u \in blocked'
    BY <1>6 DEF StoreHints, BlockOldClient, vars, history
  <2>2. QED
    BY <1>3, <2>1
<1>7. QED
  BY <1>2, <1>4, <1>5, <1>6 DEF Next

\* Nothing changed for the users of a number.
Same(n) ==
  /\ UsersOf(n)' = UsersOf(n) /\ ActiveUsers(n)' = ActiveUsers(n) /\ earned'[n] = earned[n]
  /\ \A u \in UsersOf(n) : completed'[u] = completed[u] /\ ResultsOf(u)' = ResultsOf(u)

\* What Same says, user by user.
LEMMA SameUsers ==
  ASSUME NEW n, earned'[n] = earned[n],
         \A u \in Users :
           /\ phone'[u] = n <=> phone[u] = n
           /\ phone[u] = n =>
                /\ u \in deactivated' <=> u \in deactivated
                /\ completed'[u] = completed[u]
                /\ \A t \in Tasks : <<u, t>> \in results' <=> <<u, t>> \in results
  PROVE  Same(n)
<1>1. UsersOf(n)' = UsersOf(n) /\ ActiveUsers(n)' = ActiveUsers(n)
  BY DEF UsersOf, ActiveUsers
<1>2. \A u \in UsersOf(n) : completed'[u] = completed[u] /\ ResultsOf(u)' = ResultsOf(u)
  BY DEF UsersOf, ResultsOf
<1>3. QED
  BY <1>1, <1>2 DEF Same

\* The same users, the same history.
LEMMA SameQuiet ==
  ASSUME NEW n, Same(n), Quiet(n)
  PROVE  Quiet(n)'
<1>1. \A u \in Users : Kept(n, u) => Kept(n, u)'
  BY DEF Same, Kept, HasHistory, ActiveUsers
<1>2. QED
  BY <1>1 DEF Same, Quiet

\* Steps that are not about a number leave what is said of it.
LEMMA FollowsFrame ==
  ASSUME TypeOK, HeldInv, NEW n \in Numbers, n \notin spoiled, Same(n), Follows(n),
         \A v \in Workers : Busy(v, n) \/ Busy(v, n)' =>
           pc'[v] = pc[v] /\ job'[v] = job[v] /\ todo'[v] = todo[v]
  PROVE  Follows(n)'
<1>1. \A v \in Workers : Busy(v, n)' <=> Busy(v, n)
  BY DEF Busy
<1>2. ASSUME ~BusyWith(n)' PROVE Quiet(n)'
  <2>1. ~BusyWith(n)
    BY <1>1, <1>2 DEF BusyWith, Busy
  <2>2. QED
    BY <2>1, SameQuiet DEF Follows
<1>3. ASSUME NEW w \in Workers, Busy(w, n)' PROVE Stage(w)'
  <2>1. Busy(w, n) /\ pc'[w] = pc[w] /\ job'[w] = job[w] /\ todo'[w] = todo[w]
    BY <1>1, <1>3
  <2>2. Stage(w)
    BY <2>1 DEF Follows
  <2>3. PICK u \in Users : u = job[w].user
    BY <2>1, HeldTypes DEF Busy
  <2>4. /\ job[w].number = n /\ job'[w].number = n /\ job'[w].user = u
    BY <2>1, <2>3 DEF Busy
  <2>5. /\ pc[w] \in {"activate"} \cup MoveSteps \cup SubmitSteps => u \in UsersOf(n)
        /\ pc[w] \in {"copy", "purge", "move"} => job[w].victim \in UsersOf(n)
    BY <2>1, <2>3, <2>4, HeldTypes DEF HeldInv, HeldBy, Held, UsersOf, Busy
  <2>6. Quiet(n) => Quiet(n)'
    BY SameQuiet
  <2>7. /\ UsersOf(n)' = UsersOf(n) /\ ActiveUsers(n)' = ActiveUsers(n) /\ earned'[n] = earned[n]
        /\ \A x \in UsersOf(n) : completed'[x] = completed[x] /\ ResultsOf(x)' = ResultsOf(x)
        /\ ActiveUsers(n) \subseteq UsersOf(n)
    BY DEF Same, ActiveUsers
  <2>8. \A x \in UsersOf(n) : (HasHistory(n, x) => HasHistory(n, x)') /\ (Kept(n, x) => Kept(n, x)')
    BY <2>7 DEF HasHistory, Kept
  <2>9. pc[w] \in {"count", "read", "write", "match", "activate"} => Quiet(n)'
    BY <2>2, <2>4, <2>6 DEF Stage
  <2>10. pc[w] = "list" => \E x \in Users : ActiveUsers(n)' = {u, x} /\ HasHistory(n, x)'
    BY <2>2, <2>3, <2>4, <2>7, <2>8 DEF Stage
  <2>11. pc[w] = "deactivate" =>
           \E x \in Users \ {u} : ActiveUsers(n)' = {u, x} /\ HasHistory(n, x)' /\ todo[w] = {x}
    BY <2>2, <2>3, <2>4, <2>7, <2>8 DEF Stage
  <2>12. ASSUME pc[w] \in {"copy", "purge", "move"}
         PROVE  \E v \in UsersOf(n) :
                  /\ job[w].victim = v /\ job'[w].victim = v
                  /\ ActiveUsers(n)' = {u} /\ v # u /\ todo[w] = {}
                  /\ earned'[n] \subseteq ResultsOf(v)'
                  /\ pc[w] = "copy" => earned'[n] \subseteq completed'[v]
                  /\ pc[w] \in {"purge", "move"} => earned'[n] \subseteq completed'[u]
    <3>1. PICK v \in UsersOf(n) : v = job[w].victim
      BY <2>5, <2>12
    <3>2. /\ ActiveUsers(n) = {u} /\ v # u /\ todo[w] = {} /\ earned[n] \subseteq ResultsOf(v)
          /\ pc[w] = "copy" => earned[n] \subseteq completed[v]
          /\ pc[w] \in {"purge", "move"} => earned[n] \subseteq completed[u]
      BY <2>2, <2>3, <2>4, <2>12, <3>1 DEF Stage
    <3>3. ResultsOf(v)' = ResultsOf(v) /\ completed'[v] = completed[v]
          /\ completed'[u] = completed[u]
      BY <2>5, <2>7, <2>12 DEF MoveSteps
    <3>4. QED
      BY <2>1, <2>7, <3>1, <3>2, <3>3
  <2>13. /\ pc[w] \in SubmitSteps => Kept(n, u)'
         /\ pc[w] \in {"load", "mark"} => job[w].task \in ResultsOf(u)'
         /\ pc[w] = "mark" => earned'[n] \subseteq job[w].seen
    BY <2>2, <2>3, <2>4, <2>5, <2>7, <2>8 DEF Stage, SubmitSteps
  <2>14. CASE pc[w] \in {"copy", "purge", "move"}
    <3>1. PICK v \in UsersOf(n) :
            /\ job'[w].victim = v
            /\ ActiveUsers(n)' = {u} /\ v # u /\ todo[w] = {}
            /\ earned'[n] \subseteq ResultsOf(v)'
            /\ pc[w] = "copy" => earned'[n] \subseteq completed'[v]
            /\ pc[w] \in {"purge", "move"} => earned'[n] \subseteq completed'[u]
      BY <2>12, <2>14
    <3>2. ResultsOf(job[w].victim)' = ResultsOf(v)'
      BY <3>1 DEF ResultsOf
    <3>3. QED
      BY <2>1, <2>4, <2>14, <3>1, <3>2 DEF Stage, SubmitSteps
  <2>15. CASE pc[w] \in SubmitSteps
    <3>1. Kept(n, u)' /\ (pc[w] \in {"load", "mark"} => job'[w].task \in ResultsOf(u)')
          /\ (pc[w] = "mark" => earned'[n] \subseteq job'[w].seen)
      BY <2>1, <2>13, <2>15
    <3>2. Kept(n, u)' <=> ActiveUsers(n)' = {u} /\ HasHistory(n, u)'
      BY DEF Kept
    <3>3. Kept(job[w].number, job[w].user)' /\ ResultsOf(job[w].user)' = ResultsOf(u)'
      BY <2>4, <3>1 DEF Kept, HasHistory, ResultsOf, ActiveUsers, UsersOf
    <3>4. QED
      BY <2>1, <2>4, <2>15, <3>1, <3>3 DEF Stage, SubmitSteps
  <2>16. CASE pc[w] \notin {"copy", "purge", "move"} \cup SubmitSteps
    <3>1. Quiet(n)' => Quiet(job[w].number)'
      BY <2>4 DEF Quiet, Kept, HasHistory, ResultsOf, ActiveUsers, UsersOf
    <3>2. \A x \in Users : HasHistory(n, x)' => HasHistory(job[w].number, x)'
      BY <2>4 DEF HasHistory
    <3>3. ActiveUsers(job[w].number)' = ActiveUsers(n)'
      BY <2>4 DEF ActiveUsers, UsersOf
    <3>4. QED
      BY <2>1, <2>4, <2>9, <2>10, <2>11, <2>16, <3>1, <3>2, <3>3 DEF Stage, SubmitSteps
  <2>17. QED
    BY <2>14, <2>15, <2>16
<1>4. QED
  BY <1>2, <1>3 DEF Follows

\* The request that is about a number, when it is the only one.
Own(w, n, u) ==
  /\ pc[w] # "idle" /\ job[w].number = n /\ job[w].user = u
  /\ n \notin overlapped \cup spoiled
  /\ Stage(w)

\* What is to be shown of a step of that request.
LEMMA FollowsOwn ==
  ASSUME TypeOK, OneBusy', NEW w \in Workers, NEW n \in Numbers, n \notin overlapped',
         \A v \in Workers \ {w} : ~Busy(v, n)',
         pc'[w] = "idle" => Quiet(n)',
         pc'[w] # "idle" => job'[w].number = n /\ Stage(w)'
  PROVE  Follows(n)'
<1>1. ASSUME NEW v \in Workers, Busy(v, n)' PROVE Stage(v)'
  BY <1>1 DEF Busy
<1>2. ASSUME ~BusyWith(n)' PROVE Quiet(n)'
  BY <1>2 DEF BusyWith
<1>3. QED
  BY <1>1, <1>2 DEF Follows

\* Stage, for the user and the number it is about.
LEMMA StageNext ==
  ASSUME NEW w \in Workers, NEW n \in Numbers, NEW u \in Users,
         job'[w].number = n, job'[w].user = u,
         pc'[w] \in {"count", "read", "write", "match", "activate"} => Quiet(n)',
         pc'[w] = "list" => \E x \in Users : ActiveUsers(n)' = {u, x} /\ HasHistory(n, x)',
         pc'[w] = "deactivate" =>
           \E x \in Users \ {u} :
             ActiveUsers(n)' = {u, x} /\ HasHistory(n, x)' /\ todo'[w] = {x},
         pc'[w] \in {"copy", "purge", "move"} =>
           \E v \in Users :
             /\ job'[w].victim = v
             /\ ActiveUsers(n)' = {u} /\ v # u /\ todo'[w] = {}
             /\ earned'[n] \subseteq ResultsOf(v)'
             /\ pc'[w] = "copy" => earned'[n] \subseteq completed'[v]
             /\ pc'[w] \in {"purge", "move"} => earned'[n] \subseteq completed'[u],
         pc'[w] \in SubmitSteps => Kept(n, u)',
         pc'[w] \in {"load", "mark"} => job'[w].task \in ResultsOf(u)',
         pc'[w] = "mark" => earned'[n] \subseteq job'[w].seen
  PROVE  Stage(w)'
<1>1. CASE pc'[w] \in {"copy", "purge", "move"}
  <2>1. PICK v \in Users :
          /\ job'[w].victim = v
          /\ ActiveUsers(n)' = {u} /\ v # u /\ todo'[w] = {}
          /\ earned'[n] \subseteq ResultsOf(v)'
          /\ pc'[w] = "copy" => earned'[n] \subseteq completed'[v]
          /\ pc'[w] \in {"purge", "move"} => earned'[n] \subseteq completed'[u]
    BY <1>1
  <2>2. ResultsOf(job[w].victim)' = ResultsOf(v)'
    BY <2>1 DEF ResultsOf
  <2>3. QED
    BY <1>1, <2>1, <2>2 DEF Stage, SubmitSteps
<1>2. CASE pc'[w] \in SubmitSteps
  <2>1. Kept(job[w].number, job[w].user)' /\ ResultsOf(job[w].user)' = ResultsOf(u)'
    BY <1>2 DEF Kept, HasHistory, ResultsOf, ActiveUsers, UsersOf
  <2>2. QED
    BY <1>2, <2>1 DEF Stage, SubmitSteps
<1>3. CASE pc'[w] \notin {"copy", "purge", "move"} \cup SubmitSteps
  <2>1. Quiet(n)' => Quiet(job[w].number)'
    BY DEF Quiet, Kept, HasHistory, ResultsOf, ActiveUsers, UsersOf
  <2>2. \A x \in Users : HasHistory(n, x)' => HasHistory(job[w].number, x)'
    BY DEF HasHistory
  <2>3. ActiveUsers(job[w].number)' = ActiveUsers(n)'
    BY DEF ActiveUsers, UsersOf
  <2>4. QED
    BY <1>3, <2>1, <2>2, <2>3 DEF Stage, SubmitSteps
<1>4. QED
  BY <1>1, <1>2, <1>3

\* The handlers of a verification and of a restore, until they claim the number.
LEMMA OwnVerify ==
  ASSUME TypeOK, HeldInv, NewUserInv, NEW w \in Workers, NEW n \in Numbers, NEW u \in Users,
         Own(w, n, u), n \notin overlapped' \cup spoiled',
         UsersOf(n)' \cap blocked' = {},
         \/ CheckRegistrations(w) \/ ReadNumber(w) \/ WriteNumber(w) \/ MatchNumbers(w)
         \/ ActivateUser(w)
  PROVE  /\ pc'[w] = "idle" => Quiet(n)'
         /\ pc'[w] # "idle" => Stage(w)'
<1>1. CASE CheckRegistrations(w) \/ ReadNumber(w) \/ MatchNumbers(w)
  <2>1. /\ UNCHANGED <<phone, deactivated, completed, results, earned>>
        /\ pc[w] \in {"count", "read", "match"}
        /\ pc'[w] \in {"idle", "read", "write", "activate"}
        /\ pc'[w] # "idle" => job'[w] = job[w]
    BY <1>1 DEF CheckRegistrations, ReadNumber, MatchNumbers, tables, history, Goto, Finish,
                TypeOK
  <2>2. Quiet(n)
    BY <2>1 DEF Own, Stage
  <2>3. Same(n)
    BY <2>1 DEF Same, UsersOf, ActiveUsers, ResultsOf
  <2>4. Quiet(n)'
    BY <2>2, <2>3, SameQuiet
  <2>5. QED
    BY <2>1, <2>4, StageNext DEF Own, SubmitSteps
<1>2. CASE WriteNumber(w)
  <2>1. /\ pc[w] = "write" /\ pc'[w] = "list" /\ job' = job
        /\ UNCHANGED <<deactivated, completed, results, earned, blocked>>
        /\ \A x \in Users : phone'[x] = IF x = u THEN n ELSE phone[x]
        /\ spoiled' = IF phone[u] \in {None, n} THEN spoiled ELSE spoiled \cup {n, phone[u]}
    BY <1>2, WriteEffect DEF Own
  <2>2. phone[u] \in {None, n} /\ phone[u] # n
    BY <2>1 DEF NewUserInv, Own
  <2>3. u \in UsersOf(n)' /\ u \notin blocked
    BY <2>1 DEF UsersOf
  <2>4. u \notin deactivated
    BY <2>2, <2>3 DEF NewUserInv
  <2>5. ActiveUsers(n)' = ActiveUsers(n) \cup {u}
    BY <2>1, <2>4 DEF ActiveUsers, UsersOf
  <2>6. Quiet(n)
    BY <2>1 DEF Own, Stage
  <2>7. \A x \in Users : HasHistory(n, x) => HasHistory(n, x)'
    BY <2>1 DEF HasHistory, ResultsOf
  <2>8. \E x \in Users : ActiveUsers(n)' = {u, x} /\ HasHistory(n, x)'
    <3>1. CASE UsersOf(n) = {} /\ earned[n] = {}
      BY <2>5, <2>7, <3>1 DEF ActiveUsers, HasHistory
    <3>2. CASE \E x \in Users : Kept(n, x)
      BY <2>5, <2>7, <3>2 DEF Kept
    <3>3. QED
      BY <2>6, <3>1, <3>2 DEF Quiet
  <2>9. QED
    BY <2>1, <2>8, StageNext DEF Own, SubmitSteps
<1>3. CASE ActivateUser(w)
  <2>1. /\ pc[w] = "activate" /\ pc'[w] = "list" /\ job' = job
        /\ UNCHANGED <<phone, completed, results, earned>>
        /\ deactivated' = deactivated \ {u}
    BY <1>3 DEF ActivateUser, history, Own, Goto, TypeOK
  <2>2. phone[u] = n
    BY <2>1 DEF HeldInv, HeldBy, Held, Own
  <2>3. PICK x \in Users : Kept(n, x)
    BY <2>1, <2>2 DEF Own, Stage, Quiet, UsersOf
  <2>4. ActiveUsers(n)' = {u, x}
    BY <2>1, <2>2, <2>3 DEF Kept, ActiveUsers, UsersOf
  <2>5. HasHistory(n, x)'
    BY <2>1, <2>3 DEF Kept, HasHistory, ResultsOf
  <2>6. QED
    BY <2>1, <2>4, <2>5, StageNext DEF Own, SubmitSteps
<1>4. QED
  BY <1>1, <1>2, <1>3

\* The number's other user, if it has one, is found and deactivated.
LEMMA OwnMove ==
  ASSUME TypeOK, HeldInv, NEW w \in Workers, NEW n \in Numbers, NEW u \in Users,
         Own(w, n, u), n \notin spoiled',
         \/ ListOthers(w) \/ DeactivateOther(w)
  PROVE  /\ pc'[w] = "idle" => Quiet(n)'
         /\ pc'[w] # "idle" => Stage(w)'
<1>1. CASE ListOthers(w)
  <2>1. /\ pc[w] = "list" /\ UNCHANGED <<phone, deactivated, completed, results, earned>>
        /\ \/ /\ OthersOf(u, n) = {} /\ pc'[w] = "idle"
           \/ /\ OthersOf(u, n) # {} /\ pc'[w] = "deactivate" /\ job' = job
              /\ todo'[w] = OthersOf(u, n)
    BY <1>1 DEF ListOthers, tables, history, Own, Goto, Finish, TypeOK
  <2>2. PICK x \in Users : ActiveUsers(n) = {u, x} /\ HasHistory(n, x)
    BY <2>1 DEF Own, Stage
  <2>3. ActiveUsers(n)' = ActiveUsers(n) /\ HasHistory(n, x)'
    BY <2>1, <2>2 DEF ActiveUsers, UsersOf, HasHistory, ResultsOf
  <2>4. CASE x = u
    <3>1. OthersOf(u, n) = {}
      BY <2>2, <2>4 DEF OthersOf
    <3>2. Kept(n, u)'
      BY <2>2, <2>3, <2>4 DEF Kept
    <3>3. QED
      BY <2>1, <3>1, <3>2 DEF Quiet
  <2>5. CASE x # u
    <3>1. OthersOf(u, n) = {x}
      BY <2>2, <2>5 DEF OthersOf
    <3>2. pc'[w] = "deactivate" /\ job' = job /\ todo'[w] = {x}
      BY <2>1, <3>1
    <3>3. ActiveUsers(n)' = {u, x}
      BY <2>2, <2>3
    <3>4. QED
      BY <2>3, <2>5, <3>2, <3>3, StageNext DEF Own, SubmitSteps
  <2>6. QED
    BY <2>4, <2>5
<1>2. CASE DeactivateOther(w)
  <2>1. PICK v \in todo[w] :
          /\ pc[w] = "deactivate" /\ pc'[w] = "copy"
          /\ UNCHANGED <<phone, completed, results, earned>>
          /\ deactivated' = IF phone[v] = n THEN deactivated \cup {v} ELSE deactivated
          /\ job' = [job EXCEPT ![w].victim = v]
          /\ todo'[w] = todo[w] \ {v}
    BY <1>2 DEF DeactivateOther, Goto, history, Own, TypeOK
  <2>2. job[w] \in Job /\ job'[w] = [job[w] EXCEPT !.victim = v]
    BY <2>1 DEF TypeOK
  <2>3. job'[w].victim = v /\ job'[w].user = u /\ job'[w].number = n
    BY <2>2 DEF Job, Own
  <2>4. PICK x \in Users \ {u} : ActiveUsers(n) = {u, x} /\ HasHistory(n, x) /\ todo[w] = {x}
    BY <2>1 DEF Own, Stage
  <2>5. v = x /\ phone[v] = n /\ todo'[w] = {}
    BY <2>1, <2>4 DEF ActiveUsers, UsersOf
  <2>6. ActiveUsers(n)' = {u}
    BY <2>1, <2>4, <2>5 DEF ActiveUsers, UsersOf
  <2>7. earned'[n] \subseteq completed'[x] /\ earned'[n] \subseteq ResultsOf(x)'
    BY <2>1, <2>4 DEF HasHistory, ResultsOf
  <2>8. QED
    BY <2>1, <2>3, <2>4, <2>5, <2>6, <2>7, StageNext DEF SubmitSteps
<1>3. QED
  BY <1>1, <1>2

\* The history of that user goes to the new one.
LEMMA OwnHistory ==
  ASSUME TypeOK, NEW w \in Workers, NEW n \in Numbers, NEW u \in Users,
         Own(w, n, u), n \notin spoiled',
         \/ CopyHistory(w) \/ PurgeResults(w) \/ MoveResults(w)
  PROVE  /\ pc'[w] = "idle" => Quiet(n)'
         /\ pc'[w] # "idle" => Stage(w)'
<1>1. PICK v \in Users : v = job[w].victim
  BY DEF CopyHistory, PurgeResults, MoveResults, TypeOK, JobOK
<1>2. /\ ActiveUsers(n) = {u} /\ v # u /\ todo[w] = {} /\ earned[n] \subseteq ResultsOf(v)
      /\ pc[w] = "copy" => earned[n] \subseteq completed[v]
      /\ pc[w] \in {"purge", "move"} => earned[n] \subseteq completed[u]
  BY <1>1 DEF Own, Stage, CopyHistory, PurgeResults, MoveResults
<1>3. ActiveUsers(n)' = {u} /\ earned'[n] = earned[n] /\ todo'[w] = {}
  BY <1>2 DEF CopyHistory, PurgeResults, MoveResults, ActiveUsers, UsersOf, history
<1>4. CASE CopyHistory(w)
  <2>1. /\ pc[w] = "copy" /\ pc'[w] = "purge" /\ job' = job /\ UNCHANGED results
        /\ completed'[u] = completed[v]
    BY <1>1, <1>4 DEF CopyHistory, Goto, TypeOK, Own
  <2>2. earned'[n] \subseteq ResultsOf(v)'
    BY <1>2, <1>3, <2>1 DEF ResultsOf
  <2>3. QED
    BY <1>1, <1>2, <1>3, <2>1, <2>2, StageNext DEF Own, SubmitSteps
<1>5. CASE PurgeResults(w)
  <2>1. /\ pc[w] = "purge" /\ pc'[w] = "move" /\ job' = job /\ UNCHANGED completed
        /\ results' = {r \in results : r[1] # u}
    BY <1>5 DEF PurgeResults, Goto, TypeOK, Own
  <2>2. earned'[n] \subseteq ResultsOf(v)'
    BY <1>2, <1>3, <2>1 DEF ResultsOf
  <2>3. QED
    BY <1>1, <1>2, <1>3, <2>1, <2>2, StageNext DEF Own, SubmitSteps
<1>6. CASE MoveResults(w)
  <2>1. /\ pc[w] = "move" /\ pc'[w] = "idle" /\ UNCHANGED completed
        /\ results' = {r \in results : r[1] # v} \cup {<<u, t>> : t \in ResultsOf(v)}
    BY <1>1, <1>2, <1>6 DEF MoveResults, Goto, Finish, TypeOK, Own
  <2>2. earned'[n] \subseteq ResultsOf(u)'
    BY <1>2, <1>3, <2>1 DEF ResultsOf
  <2>3. Kept(n, u)'
    BY <1>2, <1>3, <2>1, <2>2 DEF Kept, HasHistory
  <2>4. QED
    BY <2>1, <2>3 DEF Quiet
<1>7. QED
  BY <1>4, <1>5, <1>6

\* A task is solved by the number's user.
LEMMA OwnSubmit ==
  ASSUME TypeOK, NEW w \in Workers, NEW n \in Numbers, NEW u \in Users,
         Own(w, n, u), n \notin spoiled',
         \/ StoreResults(w) \/ LoadCompleted(w) \/ MarkCompleted(w)
  PROVE  /\ pc'[w] = "idle" => Quiet(n)'
         /\ pc'[w] # "idle" => Stage(w)'
<1>1. PICK t \in Tasks : t = job[w].task
  BY DEF StoreResults, LoadCompleted, MarkCompleted, TypeOK, JobOK, SubmitSteps
<1>2. /\ ActiveUsers(n) = {u} /\ earned[n] \subseteq completed[u]
      /\ earned[n] \subseteq ResultsOf(u)
      /\ pc[w] \in {"load", "mark"} => t \in ResultsOf(u)
      /\ pc[w] = "mark" => earned[n] \subseteq job[w].seen
  BY <1>1 DEF Own, Stage, Kept, HasHistory, StoreResults, LoadCompleted, MarkCompleted,
              SubmitSteps
<1>3. ActiveUsers(n)' = {u}
  BY <1>2 DEF StoreResults, LoadCompleted, MarkCompleted, ActiveUsers, UsersOf, tables
<1>4. CASE StoreResults(w)
  <2>1. /\ pc'[w] = "load" /\ job' = job /\ UNCHANGED <<completed, earned>>
        /\ results' = results \cup {<<u, t>>}
    BY <1>1, <1>4 DEF StoreResults, Goto, TypeOK, Own, history
  <2>2. earned'[n] \subseteq ResultsOf(u)' /\ t \in ResultsOf(u)'
    BY <1>2, <2>1 DEF ResultsOf
  <2>3. Kept(n, u)'
    BY <1>2, <1>3, <2>1, <2>2 DEF Kept, HasHistory
  <2>4. QED
    BY <1>1, <2>1, <2>2, <2>3, StageNext DEF Own, SubmitSteps
<1>5. CASE LoadCompleted(w)
  <2> DEFINE s == completed[u]
  <2>1. /\ pc[w] = "load" /\ pc'[w] = "mark" /\ UNCHANGED <<completed, results, earned>>
        /\ job'[w] = [job[w] EXCEPT !.seen = s] /\ job[w] \in Job
    BY <1>5 DEF LoadCompleted, Goto, TypeOK, Own, history, tables
  <2>2. earned'[n] \subseteq s
    BY <1>2, <2>1
  <2>3. Kept(n, u)' /\ t \in ResultsOf(u)'
    BY <1>2, <1>3, <2>1 DEF Kept, HasHistory, ResultsOf
  <2> HIDE DEF s
  <2>4. job'[w].seen = s /\ job'[w].user = u /\ job'[w].number = n /\ job'[w].task = t
    BY <1>1, <2>1 DEF Job, Own
  <2>5. QED
    BY <2>1, <2>2, <2>3, <2>4, StageNext DEF SubmitSteps
<1>6. CASE MarkCompleted(w)
  <2>1. /\ pc[w] = "mark" /\ pc'[w] = "idle" /\ UNCHANGED results
        /\ completed'[u] = job[w].seen \cup {t} /\ earned'[n] = earned[n] \cup {t}
    BY <1>1, <1>6 DEF MarkCompleted, Finish, Goto, TypeOK, Own
  <2>2. earned'[n] \subseteq ResultsOf(u)'
    BY <1>2, <2>1 DEF ResultsOf
  <2>3. Kept(n, u)'
    BY <1>2, <1>3, <2>1, <2>2 DEF Kept, HasHistory
  <2>4. QED
    BY <2>1, <2>3 DEF Quiet
<1>7. QED
  BY <1>4, <1>5, <1>6

\* A step of a request about another number changes nothing for the users of this
\* one, or spoils it.
LEMMA OtherSame ==
  ASSUME TypeOK, HeldInv, NEW w \in Workers, NEW n \in Numbers, n \notin spoiled',
         spoiled \subseteq spoiled', job[w].number # n,
         \/ CheckRegistrations(w) \/ ReadNumber(w) \/ WriteNumber(w) \/ MatchNumbers(w)
         \/ ActivateUser(w) \/ ListOthers(w) \/ DeactivateOther(w) \/ CopyHistory(w)
         \/ PurgeResults(w) \/ MoveResults(w) \/ MoveResultsFails(w) \/ StoreResults(w)
         \/ LoadCompleted(w) \/ MarkCompleted(w) \/ Crash(w)
  PROVE  Same(n)
<1>1. pc[w] # "idle"
  BY StepEffect
<1>2. PICK u \in Users, m \in Numbers : u = job[w].user /\ m = job[w].number /\ m # n
  BY <1>1, HeldTypes
<1>3. \A x \in Users : Held(x, m) => phone[x] # n
  BY <1>2 DEF Held
<1>4. /\ pc[w] \in {"activate"} \cup MoveSteps \cup SubmitSteps => phone[u] # n
      /\ pc[w] \in {"copy", "purge", "move"} =>
           job[w].victim \in Users /\ phone[job[w].victim] # n
  BY <1>1, <1>2, <1>3, HeldTypes DEF HeldInv, HeldBy
<1>5. CASE \/ CheckRegistrations(w) \/ ReadNumber(w) \/ MatchNumbers(w) \/ ListOthers(w)
           \/ MoveResultsFails(w) \/ LoadCompleted(w) \/ Crash(w)
  <2>1. UNCHANGED <<phone, deactivated, completed, results, earned>>
    BY <1>5 DEF CheckRegistrations, ReadNumber, MatchNumbers, ListOthers, MoveResultsFails,
                LoadCompleted, Crash, tables, history
  <2>2. QED
    BY <2>1, SameUsers
<1>6. CASE WriteNumber(w)
  <2>1. /\ UNCHANGED <<deactivated, completed, results, earned>>
        /\ \A x \in Users : phone'[x] = IF x = u THEN m ELSE phone[x]
        /\ spoiled' = IF phone[u] \in {None, m} THEN spoiled ELSE spoiled \cup {m, phone[u]}
    BY <1>2, <1>6, WriteEffect
  <2>2. phone[u] # n
    BY <1>2, <2>1, PhonesAssumption
  <2>3. QED
    BY <1>2, <2>1, <2>2, SameUsers
<1>7. CASE ActivateUser(w)
  <2>1. /\ UNCHANGED <<phone, completed, results, earned>> /\ deactivated' = deactivated \ {u}
        /\ phone[u] # n
    BY <1>2, <1>4, <1>7 DEF ActivateUser, history
  <2>2. QED
    BY <2>1, SameUsers
<1>8. CASE DeactivateOther(w)
  <2>1. PICK v \in todo[w] :
          /\ UNCHANGED <<phone, completed, results, earned>>
          /\ deactivated' = IF phone[v] = m THEN deactivated \cup {v} ELSE deactivated
    BY <1>2, <1>8 DEF DeactivateOther, history
  <2>2. QED
    BY <1>2, <2>1, SameUsers
<1>9. CASE CopyHistory(w)
  <2>1. /\ UNCHANGED <<phone, deactivated, results, earned>> /\ phone[u] # n
        /\ \A x \in Users \ {u} : completed'[x] = completed[x]
    BY <1>2, <1>4, <1>9 DEF CopyHistory, history, MoveSteps, TypeOK
  <2>2. QED
    BY <2>1, SameUsers
<1>10. CASE PurgeResults(w)
  <2>1. /\ UNCHANGED <<phone, deactivated, completed, earned>> /\ phone[u] # n
        /\ results' = {r \in results : r[1] # u}
    BY <1>2, <1>4, <1>10 DEF PurgeResults, history, MoveSteps
  <2>2. \A x \in Users : x # u =>
          \A t \in Tasks : <<x, t>> \in results' <=> <<x, t>> \in results
    BY <2>1
  <2>3. QED
    BY <2>1, <2>2, SameUsers
<1>11. CASE MoveResults(w)
  <2>1. PICK v \in Users : v = job[w].victim /\ phone[v] # n
    BY <1>4, <1>11 DEF MoveResults
  <2>2. /\ UNCHANGED <<phone, deactivated, completed, earned>> /\ phone[u] # n
        /\ results' = {r \in results : r[1] # v} \cup {<<u, t>> : t \in ResultsOf(v)}
    BY <1>2, <1>4, <1>11, <2>1 DEF MoveResults, history, MoveSteps
  <2>3. \A x \in Users : x # u /\ x # v =>
          \A t \in Tasks : <<x, t>> \in results' <=> <<x, t>> \in results
    BY <2>2
  <2>4. QED
    BY <2>1, <2>2, <2>3, SameUsers
<1>12. CASE StoreResults(w)
  <2>1. /\ UNCHANGED <<phone, deactivated, completed, earned>> /\ phone[u] # n
        /\ results' = results \cup {<<u, job[w].task>>}
    BY <1>2, <1>4, <1>12 DEF StoreResults, history, SubmitSteps
  <2>2. \A x \in Users : x # u =>
          \A t \in Tasks : <<x, t>> \in results' <=> <<x, t>> \in results
    BY <2>1
  <2>3. QED
    BY <2>1, <2>2, SameUsers
<1>13. CASE MarkCompleted(w)
  <2>1. /\ UNCHANGED <<phone, deactivated, results>> /\ phone[u] # n
        /\ \A x \in Users \ {u} : completed'[x] = completed[x]
        /\ earned'[n] = earned[n]
    BY <1>2, <1>4, <1>13 DEF MarkCompleted, SubmitSteps, TypeOK
  <2>2. QED
    BY <2>1, SameUsers
<1>14. QED
  BY <1>5, <1>6, <1>7, <1>8, <1>9, <1>10, <1>11, <1>12, <1>13

\* A number that is orderly was so before, and had the same users.
LEMMA OrderlyBefore ==
  ASSUME TypeOK, [Next]_vars, NEW n \in Numbers, Orderly(n)', blocked \subseteq blocked'
  PROVE  Orderly(n) /\ n \notin overlapped' /\ n \notin spoiled'
<1>1. n \notin overlapped' \cup spoiled' /\ n \notin overlapped \cup spoiled
  BY PhoneEffect DEF Orderly
<1>2. UsersOf(n) \subseteq UsersOf(n)'
  <2>1. CASE UNCHANGED phone
    BY <2>1 DEF UsersOf
  <2>2. ASSUME NEW w \in Workers, WriteNumber(w) PROVE UsersOf(n) \subseteq UsersOf(n)'
    <3>1. PICK m \in Numbers, u \in Users :
            /\ \A x \in Users : phone'[x] = IF x = u THEN m ELSE phone[x]
            /\ spoiled' = IF phone[u] \in {None, m} THEN spoiled
                          ELSE spoiled \cup {m, phone[u]}
      BY <2>2, WriteEffect
    <3>2. phone[u] = n => m = n
      BY <1>1, <3>1, PhonesAssumption
    <3>3. QED
      BY <3>1, <3>2 DEF UsersOf
  <2>3. QED
    BY <2>1, <2>2, PhoneEffect
<1>3. QED
  BY <1>1, <1>2 DEF Orderly

\* Every step preserves the invariant.
LEMMA FollowStep ==
  ASSUME TypeOK, ClaimInv, FollowInv, [Next]_vars
  PROVE  FollowInv'
<1>1. OneBusy /\ HeldInv /\ NewUserInv
  BY DEF FollowInv
<1>2. OneBusy' /\ HeldInv' /\ NewUserInv'
  BY <1>1, BusyStep, HeldStep, NewUserStep
<1>3. ASSUME NEW n \in Numbers, Orderly(n), n \notin overlapped', n \notin spoiled',
             NEW w \in Workers,
             \/ \E u \in Users, m \in Numbers : VerifyNumber(w, u, m)
             \/ \E u, o \in Users : AskRestore(w, u, o)
             \/ \E u \in Users, t \in Tasks : SubmitResults(w, u, t)
      PROVE  Follows(n)'
  <2>1. PICK s \in {"count", "match", "store"}, j \in Job :
          /\ Start(w, s, j) /\ j.number \in Numbers /\ j.user \in Users
          /\ s = "store" => phone[j.user] = j.number /\ j.user \notin deactivated
    BY <1>3, StartKinds
  <2>2. /\ Alone(w) /\ pc[w] = "idle" /\ pc'[w] = s /\ job'[w] = j
        /\ UNCHANGED <<phone, deactivated, completed, results, todo, earned>>
        /\ BusyWith(j.number) => j.number \in overlapped'
    BY <2>1, StartEffect DEF tables
  <2>3. Same(n)
    BY <2>2, SameUsers
  <2>4. Follows(n)
    BY <1>3 DEF FollowInv
  <2>5. CASE j.number # n
    <3>1. \A v \in Workers : Busy(v, n) \/ Busy(v, n)' =>
            pc'[v] = pc[v] /\ job'[v] = job[v] /\ todo'[v] = todo[v]
      BY <2>2, <2>5 DEF Busy, Alone
    <3>2. QED
      BY <1>1, <1>3, <2>3, <2>4, <3>1, FollowsFrame DEF Orderly
  <2>6. CASE j.number = n
    <3>1. ~BusyWith(n)
      BY <1>3, <2>2, <2>6
    <3>2. Quiet(n) /\ Quiet(n)'
      BY <2>3, <2>4, <3>1, SameQuiet DEF Follows
    <3>3. \A v \in Workers \ {w} : ~Busy(v, n)'
      BY <2>2, <3>1 DEF Busy, BusyWith, Alone
    <3>4. PICK u \in Users : u = j.user
      BY <2>1
    <3>5. s = "store" => Kept(n, u)'
      <4>1. ASSUME s = "store" PROVE ActiveUsers(n) = {u} /\ HasHistory(n, u)
        <5>1. u \in ActiveUsers(n)
          BY <2>1, <2>6, <3>4, <4>1 DEF ActiveUsers, UsersOf
        <5>2. PICK x \in Users : Kept(n, x)
          BY <3>2, <5>1 DEF Quiet, ActiveUsers
        <5>3. QED
          BY <5>1, <5>2 DEF Kept
      <4>2. QED
        BY <2>2, <4>1 DEF Kept, HasHistory, ActiveUsers, UsersOf, ResultsOf
    <3>6. job'[w].number = n /\ job'[w].user = u
      BY <2>2, <2>6, <3>4
    <3>7. Stage(w)'
      <4>1. /\ pc'[w] \in {"count", "match", "store"}
            /\ pc'[w] \in SubmitSteps => pc'[w] = "store"
        BY <2>1, <2>2 DEF SubmitSteps
      <4>2. QED
        BY <2>1, <2>2, <3>2, <3>5, <3>6, <4>1, StageNext
    <3>8. QED
      BY <1>2, <1>3, <2>1, <2>2, <3>3, <3>6, <3>7, FollowsOwn
  <2>7. QED
    BY <2>5, <2>6
<1>4. ASSUME NEW n \in Numbers, Orderly(n), n \notin overlapped', n \notin spoiled',
             UsersOf(n)' \cap blocked' = {}, NEW w \in Workers,
             \/ CheckRegistrations(w) \/ ReadNumber(w) \/ WriteNumber(w) \/ MatchNumbers(w)
             \/ ActivateUser(w) \/ ListOthers(w) \/ DeactivateOther(w) \/ CopyHistory(w)
             \/ PurgeResults(w) \/ MoveResults(w) \/ MoveResultsFails(w) \/ StoreResults(w)
             \/ LoadCompleted(w) \/ MarkCompleted(w) \/ Crash(w)
      PROVE  Follows(n)'
  <2>1. /\ Alone(w) /\ pc[w] # "idle"
        /\ pc'[w] = "idle" \/ job'[w].number = job[w].number
    BY <1>4, StepEffect
  <2>2. Follows(n) /\ n \notin overlapped /\ n \notin spoiled
    BY <1>4 DEF FollowInv, Orderly
  <2>3. CASE job[w].number # n
    <3>1. Same(n)
      BY <1>1, <1>4, <2>3, OtherSame, PhoneEffect
    <3>2. \A v \in Workers : Busy(v, n) \/ Busy(v, n)' =>
            pc'[v] = pc[v] /\ job'[v] = job[v] /\ todo'[v] = todo[v]
      BY <2>1, <2>3 DEF Busy, Alone
    <3>3. QED
      BY <1>1, <2>2, <3>1, <3>2, FollowsFrame
  <2>4. CASE job[w].number = n
    <3>1. PICK u \in Users : u = job[w].user
      BY <2>1, HeldTypes
    <3>2. Own(w, n, u)
      BY <2>1, <2>2, <2>4, <3>1 DEF Own, Follows, Busy
    <3>3. \A v \in Workers \ {w} : ~Busy(v, n)'
      BY <1>1, <2>1, <2>2, <2>4 DEF OneBusy, Busy, Alone
    <3>4. ~MoveResultsFails(w) /\ ~Crash(w)
      BY <1>4, <2>4 DEF MoveResultsFails, Crash
    <3>5. /\ pc'[w] = "idle" => Quiet(n)'
          /\ pc'[w] # "idle" => Stage(w)'
      BY <1>1, <1>4, <3>2, <3>4, OwnVerify, OwnMove, OwnHistory, OwnSubmit
    <3>6. QED
      BY <1>2, <1>4, <2>1, <2>4, <3>3, <3>5, FollowsOwn
  <2>5. QED
    BY <2>3, <2>4
<1>5. ASSUME NEW n \in Numbers, Orderly(n), UsersOf(n)' \cap blocked' = {},
             (\E u \in Users : StoreHints(u) \/ BlockOldClient(u)) \/ UNCHANGED vars
      PROVE  Follows(n)'
  <2>1. /\ UNCHANGED <<phone, completed, results, pc, job, todo, earned, spoiled>>
        /\ \A x \in Users : phone[x] = n => (x \in deactivated' <=> x \in deactivated)
    BY <1>5 DEF StoreHints, BlockOldClient, vars, history, UsersOf
  <2>2. Same(n)
    BY <2>1, SameUsers
  <2>3. QED
    BY <1>1, <1>5, <2>1, <2>2, FollowsFrame DEF FollowInv, Orderly
<1>6. blocked \subseteq blocked'
  <2>1. ASSUME NEW w \in Workers,
               \/ \E u \in Users, n \in Numbers : VerifyNumber(w, u, n)
               \/ \E u, o \in Users : AskRestore(w, u, o)
               \/ \E u \in Users, t \in Tasks : SubmitResults(w, u, t)
        PROVE  blocked \subseteq blocked'
    BY <2>1, StartEffect, StartKinds
  <2>2. QED
    BY <2>1 DEF Next, vars, history, CheckRegistrations, ReadNumber, WriteNumber, MatchNumbers,
       ActivateUser, ListOthers, DeactivateOther, CopyHistory, PurgeResults, MoveResults,
       MoveResultsFails, StoreResults, LoadCompleted, MarkCompleted, Crash, StoreHints,
       BlockOldClient
<1>7. ASSUME NEW n \in Numbers, Orderly(n)' PROVE Follows(n)'
  <2>1. /\ Orderly(n) /\ n \notin overlapped' /\ n \notin spoiled'
        /\ UsersOf(n)' \cap blocked' = {}
    BY <1>6, <1>7, OrderlyBefore DEF Orderly
  <2>2. QED
    BY <1>3, <1>4, <1>5, <2>1 DEF Next
<1>8. QED
  BY <1>2, <1>7 DEF FollowInv

\* Requests about a number that came one after the other leave it one active user,
\* and with that user every task that was solved under the number, however requests
\* about other numbers, of the same users too, are interleaved with them.
THEOREM HistoryFollowsNumber == Spec => []HistoryFollows
<1>1. Init => DataOK /\ WorkersOK
  BY NoJobType DEF Init, DataOK, WorkersOK, JobOK, Steps, SubmitSteps
<1>2. Init => ClaimInv
  BY PhonesAssumption DEF Init, ClaimInv, OneActiveToBe, ActiveUsers, UsersOf
<1>3. DataOK /\ WorkersOK /\ [Next]_vars => (DataOK /\ WorkersOK)'
  BY DataStep, WorkersStep
<1>4. DataOK /\ WorkersOK /\ ClaimInv /\ [Next]_vars => ClaimInv'
  BY ClaimStep
<1>5. Init => FollowInv
  <2> SUFFICES ASSUME Init PROVE FollowInv
    OBVIOUS
  <2>1. OneBusy /\ HeldInv /\ NewUserInv
    BY DEF Init, OneBusy, Busy, HeldInv, HeldBy, NewUserInv, MoveSteps, SubmitSteps
  <2>2. \A n \in Numbers : UsersOf(n) = {} /\ earned[n] = {}
    BY PhonesAssumption DEF Init, UsersOf
  <2>3. \A n \in Numbers : Follows(n)
    BY <2>2 DEF Init, Follows, Quiet, Busy
  <2>4. QED
    BY <2>1, <2>3 DEF FollowInv
<1>6. TypeOK /\ ClaimInv /\ FollowInv /\ [Next]_vars => FollowInv'
  BY FollowStep
<1>7. FollowInv => HistoryFollows
  BY DEF FollowInv, Orderly, Follows, Quiet, Kept, HasHistory, HistoryFollows
<1>8. QED
  BY <1>1, <1>2, <1>3, <1>4, <1>5, <1>6, <1>7, TypeCorrect, PTL DEF Spec
=============================================================================
