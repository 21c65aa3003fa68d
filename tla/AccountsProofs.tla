---------------------------- MODULE AccountsProofs ----------------------------
(***************************************************************************)
(* Theorems about registering, creating a wallet and migrating, for every  *)
(* set of workers, clients, addresses and tasks, and under any failure.    *)
(***************************************************************************)
EXTENDS Accounts, FiniteSetTheorems, TLAPS

\* What the local variables of a request are at the step where it stands: a row
\* it has read or written is there for good, and so is an account.
VisitOK(w) ==
  /\ visitStep[w] = "insertUser" => visit[w].user \in Clients
  /\ visitStep[w] = "insertData" => visit[w].user \in users
  /\ visitStep[w] \in OnboardSteps => /\ visit[w].addr \in Addresses
                                      /\ visit[w].user = OwnerOf[visit[w].addr]
  /\ visitStep[w] = "record" => visit[w].addr \in accounts
  /\ visitStep[w] \in LaunchSteps \cup SolveSteps => visit[w].user \in appData
  /\ visitStep[w] \in SolveSteps => visit[w].task \in Solvable

VisitsOK == \A w \in Workers : VisitOK(w)

\* The local variables of a thread that serves no request.
LEMMA NoVisitType == NoVisit \in Visit
BY DEF NoVisit, Visit

\* A request, before any of its local variables is set but those given.
LEMMA VisitTypes ==
  /\ \A u \in Clients : [NoVisit EXCEPT !.user = u] \in Visit
  /\ \A u \in Clients, a \in Addresses : [NoVisit EXCEPT !.user = u, !.addr = a] \in Visit
  /\ \A u \in Clients, t \in Solvable, s \in SUBSET Solvable, z \in BOOLEAN :
       [NoVisit EXCEPT !.user = u, !.task = t, !.seen = s, !.zero = z] \in Visit
  /\ \A v \in Visit, s \in SUBSET Solvable : [v EXCEPT !.seen = s] \in Visit
BY DEF NoVisit, Visit

\* The steps of each handler are among the steps of a request.
LEMMA StepTypes ==
  /\ "idle" \in VisitSteps /\ RegisterSteps \subseteq VisitSteps
  /\ OnboardSteps \subseteq VisitSteps /\ LaunchSteps \subseteq VisitSteps
  /\ SolveSteps \subseteq VisitSteps
BY DEF VisitSteps

\* One worker moves on; the tables and accounts the others rely on only grow.
LEMMA VisitMoves ==
  ASSUME AccountsTypeOK, VisitsOK, NEW w \in Workers,
         NEW s \in VisitSteps, NEW v \in Visit,
         visitStep' = [visitStep EXCEPT ![w] = s], visit' = [visit EXCEPT ![w] = v],
         users \subseteq users', appData \subseteq appData', accounts \subseteq accounts',
         VisitOK(w)'
  PROVE  /\ visitStep' \in [Workers -> VisitSteps]
         /\ visit' \in [Workers -> Visit]
         /\ VisitsOK'
<1>1. visitStep' \in [Workers -> VisitSteps] /\ visit' \in [Workers -> Visit]
  BY DEF AccountsTypeOK
<1>2. ASSUME NEW x \in Workers, x # w PROVE VisitOK(x)'
  <2>1. visitStep'[x] = visitStep[x] /\ visit'[x] = visit[x] /\ VisitOK(x)
    BY <1>2 DEF AccountsTypeOK, VisitsOK
  <2> QED
    BY <2>1 DEF VisitOK
<1> QED
  BY <1>1, <1>2 DEF VisitsOK

-----------------------------------------------------------------------------
(* Type correctness. *)

AccountsInv == AccountsTypeOK /\ VisitsOK

\* The steps of user/register.
LEMMA RegisterKeepsInv ==
  ASSUME AccountsInv, NEW w \in Workers,
         (\E u \in Clients : RegisterNew(w, u)) \/ InsertUser(w) \/ InsertAppData(w)
  PROVE  AccountsInv'
<1> USE DEF AccountsInv, VisitGoto, VisitFinish, VisitStart, accountTables
<1>1. ASSUME NEW u \in Clients, RegisterNew(w, u) PROVE AccountsInv'
  <2>1. [NoVisit EXCEPT !.user = u] \in Visit /\ "insertUser" \in VisitSteps
    BY VisitTypes, StepTypes DEF RegisterSteps
  <2>2. VisitOK(w)'
    BY <1>1, <2>1 DEF RegisterNew, VisitOK, AccountsTypeOK, OnboardSteps, LaunchSteps,
                      SolveSteps, NoVisit
  <2> QED
    BY <1>1, <2>1, <2>2, VisitMoves DEF RegisterNew, AccountsTypeOK
<1>2. CASE InsertUser(w)
  <2>1. visit[w].user \in Clients
    BY <1>2 DEF InsertUser, VisitsOK, VisitOK
  <2>2. CASE visit[w].user \in users
    <3>1. VisitOK(w)'
      BY <1>2, <2>2 DEF InsertUser, VisitOK, AccountsTypeOK, OnboardSteps, LaunchSteps,
                        SolveSteps
    <3> QED
      BY <1>2, <2>1, <2>2, <3>1, NoVisitType, StepTypes, VisitMoves
         DEF InsertUser, AccountsTypeOK
  <2>3. CASE visit[w].user \notin users
    <3>1. VisitOK(w)'
      BY <1>2, <2>3 DEF InsertUser, VisitOK, AccountsTypeOK, OnboardSteps, LaunchSteps,
                        SolveSteps
    <3>2. visit' = [visit EXCEPT ![w] = visit[w]] /\ visit[w] \in Visit
      BY <1>2, <2>3 DEF InsertUser, AccountsTypeOK
    <3>3. "insertData" \in VisitSteps
      BY StepTypes DEF RegisterSteps
    <3> QED
      BY <1>2, <2>1, <2>3, <3>1, <3>2, <3>3, VisitMoves DEF InsertUser, AccountsTypeOK
  <2> QED
    BY <2>2, <2>3
<1>3. CASE InsertAppData(w)
  <2>1. visit[w].user \in users
    BY <1>3 DEF InsertAppData, VisitsOK, VisitOK
  <2>2. VisitOK(w)'
    BY <1>3 DEF InsertAppData, VisitOK, AccountsTypeOK, OnboardSteps, LaunchSteps, SolveSteps
  <2> QED
    BY <1>3, <2>1, <2>2, NoVisitType, StepTypes, VisitMoves DEF InsertAppData, AccountsTypeOK
<1> QED
  BY <1>1, <1>2, <1>3

\* The steps of user/onboard.
LEMMA OnboardKeepsInv ==
  ASSUME AccountsInv, NEW w \in Workers,
         \/ \E a \in Addresses : AskWallet(w, a)
         \/ LockAddress(w) \/ CreateAccount(w) \/ SetOnboarded(w) \/ ReleaseAddress(w)
  PROVE  AccountsInv'
<1> USE DEF AccountsInv, VisitGoto, VisitFinish, VisitStart, accountTables
<1>0. OnboardSteps \subseteq VisitSteps /\ "idle" \in VisitSteps
  BY StepTypes
<1>1. ASSUME NEW a \in Addresses, AskWallet(w, a) PROVE AccountsInv'
  <2>1. [NoVisit EXCEPT !.user = OwnerOf[a], !.addr = a] \in Visit
    BY VisitTypes, AccountsAssumption
  <2>2. VisitOK(w)'
    BY <1>1, <2>1 DEF AskWallet, VisitOK, AccountsTypeOK, OnboardSteps, LaunchSteps,
                      SolveSteps, NoVisit
  <2> QED
    BY <1>0, <1>1, <2>1, <2>2, VisitMoves DEF AskWallet, AccountsTypeOK, OnboardSteps
<1>2. CASE LockAddress(w)
  <2>1. visit[w].addr \in Addresses /\ visit[w] \in Visit
    BY <1>2 DEF LockAddress, VisitsOK, VisitOK, AccountsTypeOK, OnboardSteps
  <2>2. VisitOK(w)'
    BY <1>2 DEF LockAddress, VisitsOK, VisitOK, AccountsTypeOK, OnboardSteps, LaunchSteps,
                SolveSteps
  <2>3. CASE creating[visit[w].addr] = NoLock
    <3>1. visit' = [visit EXCEPT ![w] = visit[w]]
      BY <1>2, <2>3 DEF LockAddress, AccountsTypeOK
    <3> QED
      BY <1>0, <1>2, <2>1, <2>2, <2>3, <3>1, VisitMoves
         DEF LockAddress, AccountsTypeOK, OnboardSteps
  <2>4. CASE creating[visit[w].addr] # NoLock
    BY <1>0, <1>2, <2>2, <2>4, NoVisitType, VisitMoves DEF LockAddress, AccountsTypeOK
  <2> QED
    BY <2>3, <2>4
<1>3. CASE CreateAccount(w)
  <2>1. visit[w].addr \in Addresses /\ visit[w] \in Visit
    BY <1>3 DEF CreateAccount, VisitsOK, VisitOK, AccountsTypeOK, OnboardSteps
  <2>2. VisitOK(w)'
    BY <1>3 DEF CreateAccount, VisitsOK, VisitOK, AccountsTypeOK, OnboardSteps, LaunchSteps,
                SolveSteps
  <2>3. visit' = [visit EXCEPT ![w] = visit[w]]
    BY <1>3 DEF CreateAccount, AccountsTypeOK
  <2>4. PICK s \in {"record", "release"} : visitStep' = [visitStep EXCEPT ![w] = s]
    BY <1>3 DEF CreateAccount
  <2>5. /\ accounts \subseteq accounts' /\ accounts' \subseteq Addresses
        /\ stranded' \subseteq Addresses
    BY <1>3, <2>1 DEF CreateAccount, AccountsTypeOK
  <2> QED
    BY <1>0, <1>3, <2>1, <2>2, <2>3, <2>4, <2>5, VisitMoves
       DEF CreateAccount, AccountsTypeOK, OnboardSteps
<1>4. CASE SetOnboarded(w)
  <2>1. /\ visit[w].addr \in Addresses /\ visit[w] \in Visit
        /\ visit[w].user \in Clients
    BY <1>4, AccountsAssumption
       DEF SetOnboarded, VisitsOK, VisitOK, AccountsTypeOK, OnboardSteps
  <2>2. VisitOK(w)'
    BY <1>4 DEF SetOnboarded, VisitsOK, VisitOK, AccountsTypeOK, OnboardSteps, LaunchSteps,
                SolveSteps
  <2>3. visit' = [visit EXCEPT ![w] = visit[w]]
    BY <1>4 DEF SetOnboarded, AccountsTypeOK
  <2> QED
    BY <1>0, <1>4, <2>1, <2>2, <2>3, VisitMoves DEF SetOnboarded, AccountsTypeOK, OnboardSteps
<1>5. CASE ReleaseAddress(w)
  <2>1. VisitOK(w)'
    BY <1>5 DEF ReleaseAddress, VisitOK, AccountsTypeOK, OnboardSteps, LaunchSteps, SolveSteps
  <2> QED
    BY <1>0, <1>5, <2>1, NoVisitType, VisitMoves DEF ReleaseAddress, AccountsTypeOK
<1> QED
  BY <1>1, <1>2, <1>3, <1>4, <1>5

\* The steps that read and write app data and the dicts kept of it.
LEMMA DictKeepsInv ==
  ASSUME AccountsInv, NEW w \in Workers,
         \/ \E u \in Clients : LaunchApp(w, u)
         \/ \E u \in Clients, t \in Solvable : ReadDict(w, u, t)
         \/ LookAtDict(w) \/ Migrate(w) \/ WriteDict(w)
  PROVE  AccountsInv'
<1> USE DEF AccountsInv, VisitGoto, VisitFinish, VisitStart, accountTables
<1>0. /\ LaunchSteps \cup SolveSteps \subseteq VisitSteps /\ "idle" \in VisitSteps
      /\ appData \subseteq Clients
  BY StepTypes DEF AccountsTypeOK
<1>1. ASSUME NEW u \in Clients, LaunchApp(w, u) PROVE AccountsInv'
  <2>1. [NoVisit EXCEPT !.user = u] \in Visit
    BY VisitTypes
  <2>2. VisitOK(w)'
    BY <1>1, <2>1 DEF LaunchApp, VisitOK, AccountsTypeOK, OnboardSteps, LaunchSteps,
                      SolveSteps, NoVisit
  <2> QED
    BY <1>0, <1>1, <2>1, <2>2, VisitMoves DEF LaunchApp, AccountsTypeOK, LaunchSteps
<1>2. ASSUME NEW u \in Clients, NEW t \in Solvable, ReadDict(w, u, t) PROVE AccountsInv'
  <2> DEFINE v == [NoVisit EXCEPT !.user = u, !.task = t, !.seen = solved2[u],
                                  !.zero = u \in migrated]
  <2>1. v \in Visit
    <3>1. solved2[u] \in SUBSET Solvable
      BY DEF AccountsTypeOK
    <3> DEFINE z == u \in migrated
    <3>2. z \in BOOLEAN
      OBVIOUS
    <3> HIDE DEF z
    <3>3. [NoVisit EXCEPT !.user = u, !.task = t, !.seen = solved2[u], !.zero = z] \in Visit
      BY <3>1, <3>2, VisitTypes
    <3> QED
      BY <3>3 DEF z
  <2>2. VisitOK(w)'
    BY <1>2, <2>1 DEF ReadDict, VisitOK, AccountsTypeOK, OnboardSteps, LaunchSteps,
                      SolveSteps, NoVisit
  <2> QED
    BY <1>0, <1>2, <2>1, <2>2, VisitMoves DEF ReadDict, AccountsTypeOK, SolveSteps
<1>3. CASE LookAtDict(w)
  <2>1. visit[w].user \in appData /\ visit[w] \in Visit
    BY <1>3 DEF LookAtDict, VisitsOK, VisitOK, AccountsTypeOK, LaunchSteps
  <2>2. VisitOK(w)'
    BY <1>3, <2>1 DEF LookAtDict, VisitOK, AccountsTypeOK, OnboardSteps, LaunchSteps,
                      SolveSteps, Visit
  <2>3. [visit[w] EXCEPT !.seen = solved1[visit[w].user]] \in Visit
    BY <1>0, <2>1, VisitTypes DEF AccountsTypeOK
  <2>4. CASE visit[w].user \in migrated
    BY <1>0, <1>3, <2>2, <2>4, NoVisitType, VisitMoves DEF LookAtDict, AccountsTypeOK
  <2>5. CASE visit[w].user \notin migrated
    <3>1. visit' = [visit EXCEPT ![w] = [visit[w] EXCEPT !.seen = solved1[visit[w].user]]]
      BY <1>3, <2>5 DEF LookAtDict, AccountsTypeOK
    <3> QED
      BY <1>0, <1>3, <2>2, <2>3, <2>5, <3>1, VisitMoves
         DEF LookAtDict, AccountsTypeOK, LaunchSteps
  <2> QED
    BY <2>4, <2>5
<1>4. CASE Migrate(w)
  <2>1. visit[w].user \in appData /\ visit[w].seen \subseteq Solvable
    BY <1>4 DEF Migrate, VisitsOK, VisitOK, AccountsTypeOK, LaunchSteps, Visit
  <2>2. VisitOK(w)'
    BY <1>4 DEF Migrate, VisitOK, AccountsTypeOK, OnboardSteps, LaunchSteps, SolveSteps
  <2> QED
    BY <1>0, <1>4, <2>1, <2>2, NoVisitType, VisitMoves DEF Migrate, AccountsTypeOK
<1>5. CASE WriteDict(w)
  <2>1. /\ visit[w].user \in appData /\ visit[w].seen \subseteq Solvable
        /\ visit[w].task \in Solvable
    BY <1>5 DEF WriteDict, VisitsOK, VisitOK, AccountsTypeOK, SolveSteps, Visit
  <2>2. VisitOK(w)'
    BY <1>5 DEF WriteDict, VisitOK, AccountsTypeOK, OnboardSteps, LaunchSteps, SolveSteps
  <2> QED
    BY <1>0, <1>5, <2>1, <2>2, NoVisitType, VisitMoves DEF WriteDict, AccountsTypeOK
<1> QED
  BY <1>1, <1>2, <1>3, <1>4, <1>5

\* A user is nuked, or a thread dies.
LEMMA NukeOrDeathKeepsInv ==
  ASSUME AccountsInv,
         (\E u \in Clients : NukeUser(u)) \/ (\E w \in Workers : VisitDies(w))
  PROVE  AccountsInv'
<1> USE DEF AccountsInv, VisitGoto, VisitFinish, accountTables
<1>1. ASSUME NEW u \in Clients, NukeUser(u) PROVE AccountsInv'
  BY <1>1 DEF NukeUser, AccountsTypeOK, VisitsOK, VisitOK
<1>2. ASSUME NEW w \in Workers, VisitDies(w) PROVE AccountsInv'
  <2>1. VisitOK(w)'
    BY <1>2 DEF VisitDies, VisitOK, AccountsTypeOK, OnboardSteps, LaunchSteps, SolveSteps
  <2> QED
    BY <1>2, <2>1, NoVisitType, StepTypes, VisitMoves DEF VisitDies, AccountsTypeOK
<1> QED
  BY <1>1, <1>2

\* Every step keeps the invariant.
LEMMA AccountsInvStep == AccountsInv /\ [AccountsNext]_accountVars => AccountsInv'
<1>1. ASSUME AccountsInv, UNCHANGED accountVars PROVE AccountsInv'
  BY <1>1 DEF AccountsInv, AccountsTypeOK, VisitsOK, VisitOK, accountVars
<1> QED
  BY <1>1, RegisterKeepsInv, OnboardKeepsInv, DictKeepsInv, NukeOrDeathKeepsInv
     DEF AccountsNext, VisitWork

\* The invariant holds of every state.
LEMMA AccountsInvHolds == AccountsSpec => []AccountsInv
<1>1. AccountsInit => AccountsInv
  <2> SUFFICES ASSUME AccountsInit PROVE AccountsInv
    OBVIOUS
  <2>1. visitStep \in [Workers -> VisitSteps] /\ visit \in [Workers -> Visit]
    BY NoVisitType, StepTypes DEF AccountsInit
  <2>2. VisitsOK
    BY DEF AccountsInit, VisitsOK, VisitOK, OnboardSteps, LaunchSteps, SolveSteps
  <2> QED
    BY <2>1, <2>2 DEF AccountsInit, AccountsInv, AccountsTypeOK
<1> QED
  BY <1>1, AccountsInvStep, PTL DEF AccountsSpec

\* The tables, the locks and the requests keep their types: every row of app data
\* has its user.
THEOREM AccountsTypeCorrect == AccountsSpec => []AccountsTypeOK
BY AccountsInvHolds, PTL DEF AccountsInv

-----------------------------------------------------------------------------
(* The two commits of a registration. *)

\* Every step keeps registered users together with their app data.
LEMMA RegistrationStep ==
  ASSUME AccountsInv, RegisteredHasData, [AccountsNext]_accountVars
  PROVE  RegisteredHasData'
<1> USE DEF VisitGoto, VisitFinish, VisitStart, accountTables
<1>1. SUFFICES ASSUME NEW u \in users', u \notin appData', u \notin halfway'
               PROVE  \E w \in Workers : visitStep'[w] = "insertData" /\ visit'[w].user = u
  BY DEF RegisteredHasData
\* The request that was about to write the row still is, unless it moves itself.
<1>2. ASSUME u \in users, u \notin appData, u \notin halfway,
             \A w \in Workers : visitStep[w] = "insertData" /\ visit[w].user = u =>
                               visitStep'[w] = "insertData" /\ visit'[w].user = u
      PROVE  \E w \in Workers : visitStep'[w] = "insertData" /\ visit'[w].user = u
  BY <1>2 DEF RegisteredHasData
<1>3. ASSUME NEW w \in Workers, InsertUser(w)
      PROVE  \E v \in Workers : visitStep'[v] = "insertData" /\ visit'[v].user = u
  <2>1. CASE u \in users
    BY <1>1, <1>2, <1>3, <2>1 DEF InsertUser, AccountsInv, AccountsTypeOK
  <2>2. CASE u \notin users
    <3>1. u = visit[w].user
      BY <1>3, <2>2 DEF InsertUser
    <3>2. visitStep'[w] = "insertData" /\ visit'[w].user = u
      BY <1>3, <2>2, <3>1 DEF InsertUser, AccountsInv, AccountsTypeOK
    <3> QED
      BY <3>2
  <2> QED
    BY <2>1, <2>2
<1>4. ASSUME NEW w \in Workers, InsertAppData(w)
      PROVE  \E v \in Workers : visitStep'[v] = "insertData" /\ visit'[v].user = u
  BY <1>1, <1>2, <1>4 DEF InsertAppData, AccountsInv, AccountsTypeOK
<1>5. ASSUME NEW w \in Workers, VisitDies(w)
      PROVE  \E v \in Workers : visitStep'[v] = "insertData" /\ visit'[v].user = u
  <2>1. u \in Clients
    BY <1>1, <1>5 DEF VisitDies, AccountsInv, AccountsTypeOK
  <2>2. \A v \in Workers : visitStep[v] = "insertData" /\ visit[v].user = u => v # w
    BY <1>1, <1>5, <2>1 DEF VisitDies
  <2> QED
    BY <1>1, <1>2, <1>5, <2>2 DEF VisitDies, AccountsInv, AccountsTypeOK
<1>6. ASSUME NEW w \in Workers,
             \/ \E x \in Clients : RegisterNew(w, x) \/ LaunchApp(w, x)
             \/ \E x \in Clients, t \in Solvable : ReadDict(w, x, t)
             \/ \E a \in Addresses : AskWallet(w, a)
      PROVE  \E v \in Workers : visitStep'[v] = "insertData" /\ visit'[v].user = u
  BY <1>1, <1>2, <1>6
     DEF RegisterNew, LaunchApp, ReadDict, AskWallet, AccountsInv, AccountsTypeOK
<1>7. ASSUME NEW w \in Workers,
             \/ LockAddress(w) \/ CreateAccount(w) \/ SetOnboarded(w) \/ ReleaseAddress(w)
      PROVE  \E v \in Workers : visitStep'[v] = "insertData" /\ visit'[v].user = u
  BY <1>1, <1>2, <1>7
     DEF LockAddress, CreateAccount, SetOnboarded, ReleaseAddress, AccountsInv, AccountsTypeOK
<1>8. ASSUME NEW w \in Workers, LookAtDict(w) \/ Migrate(w) \/ WriteDict(w)
      PROVE  \E v \in Workers : visitStep'[v] = "insertData" /\ visit'[v].user = u
  BY <1>1, <1>2, <1>8 DEF LookAtDict, Migrate, WriteDict, AccountsInv, AccountsTypeOK
<1>9. CASE \E x \in Clients : NukeUser(x)
  BY <1>1, <1>2, <1>9 DEF NukeUser
<1>10. CASE UNCHANGED accountVars
  BY <1>1, <1>2, <1>10 DEF accountVars
<1> QED
  BY <1>3, <1>4, <1>5, <1>6, <1>7, <1>8, <1>9, <1>10 DEF AccountsNext, VisitWork

\* However registrations overlap, a user without app data has a request that is about
\* to write it, or one that ended between the two inserts.
THEOREM RegistrationComplete == AccountsSpec => []RegisteredHasData
<1>1. AccountsInit => RegisteredHasData
  BY DEF AccountsInit, RegisteredHasData
<1> QED
  BY <1>1, RegistrationStep, AccountsInvHolds, PTL DEF AccountsSpec

-----------------------------------------------------------------------------
(* The account on the blockchain and the row that says so. *)

Backed(a) ==
  \/ address[OwnerOf[a]] \in accounts
  \/ \E w \in Workers : visitStep[w] = "record" /\ visit[w].addr = a

\* Every step keeps the record of funded accounts.
LEMMA FundingStep ==
  ASSUME AccountsInv, FundedMeansOnboarded, [AccountsNext]_accountVars
  PROVE  FundedMeansOnboarded'
<1> USE DEF VisitGoto, VisitFinish, VisitStart, accountTables
<1>1. SUFFICES ASSUME NEW a \in accounts', a \notin stranded' PROVE Backed(a)'
  BY DEF FundedMeansOnboarded, Backed
<1>2. a \in accounts /\ a \notin stranded => Backed(a)
  BY DEF FundedMeansOnboarded, Backed
<1>3. a \in Addresses /\ OwnerOf[a] \in Clients
  <2>1. a \in Addresses
    BY <1>1, AccountsInvStep DEF AccountsInv, AccountsTypeOK
  <2> QED
    BY <2>1, AccountsAssumption
\* Where no address and no request about to record one is touched.
<1>4. ASSUME a \in accounts, a \notin stranded, accounts \subseteq accounts',
             address' = address,
             \A w \in Workers : visitStep[w] = "record" =>
                               visitStep'[w] = "record" /\ visit'[w].addr = visit[w].addr
      PROVE  Backed(a)'
  BY <1>2, <1>4 DEF Backed
<1>5. ASSUME NEW w \in Workers, CreateAccount(w) PROVE Backed(a)'
  <2>1. CASE a \in accounts
    <3>1. \A v \in Workers : visitStep[v] = "record" =>
                            visitStep'[v] = "record" /\ visit'[v].addr = visit[v].addr
      BY <1>5 DEF CreateAccount, AccountsInv, AccountsTypeOK
    <3> QED
      BY <1>1, <1>4, <1>5, <2>1, <3>1 DEF CreateAccount
  <2>2. CASE a \notin accounts
    <3>1. a = visit[w].addr /\ visitStep'[w] = "record" /\ visit' = visit
      BY <1>1, <1>5, <2>2 DEF CreateAccount, AccountsInv, AccountsTypeOK
    <3> QED
      BY <3>1 DEF Backed
  <2> QED
    BY <2>1, <2>2
<1>6. ASSUME NEW w \in Workers, SetOnboarded(w) PROVE Backed(a)'
  <2>1. /\ visit[w].addr \in accounts /\ visit[w].addr \in Addresses
        /\ visit[w].user = OwnerOf[visit[w].addr]
    BY <1>6 DEF SetOnboarded, AccountsInv, VisitsOK, VisitOK, OnboardSteps
  <2>2. a \in accounts /\ a \notin stranded /\ accounts' = accounts
    BY <1>1, <1>6 DEF SetOnboarded
  <2>3. CASE OwnerOf[a] = visit[w].user
    BY <1>3, <1>6, <2>1, <2>2, <2>3 DEF SetOnboarded, Backed, AccountsInv, AccountsTypeOK
  <2>4. CASE OwnerOf[a] # visit[w].user
    <3>1. address'[OwnerOf[a]] = address[OwnerOf[a]]
      BY <1>3, <1>6, <2>4 DEF SetOnboarded, AccountsInv, AccountsTypeOK
    <3>2. ASSUME NEW v \in Workers, visitStep[v] = "record", visit[v].addr = a
          PROVE  visitStep'[v] = "record" /\ visit'[v].addr = a
      <4>1. v # w
        BY <2>1, <2>4, <3>2
      <4> QED
        BY <1>6, <3>2, <4>1 DEF SetOnboarded, AccountsInv, AccountsTypeOK
    <3> QED
      BY <1>2, <2>2, <3>1, <3>2 DEF Backed
  <2> QED
    BY <2>3, <2>4
<1>7. ASSUME NEW w \in Workers, VisitDies(w) PROVE Backed(a)'
  <2>1. a \in accounts /\ a \notin stranded /\ accounts' = accounts /\ address' = address
    BY <1>1, <1>7 DEF VisitDies
  <2>2. ASSUME NEW v \in Workers, visitStep[v] = "record", visit[v].addr = a
        PROVE  visitStep'[v] = "record" /\ visit'[v].addr = a
    <3>1. v # w
      BY <1>1, <1>3, <1>7, <2>2 DEF VisitDies
    <3> QED
      BY <1>7, <2>2, <3>1 DEF VisitDies, AccountsInv, AccountsTypeOK
  <2> QED
    BY <1>2, <2>1, <2>2 DEF Backed
<1>8. ASSUME NEW w \in Workers,
             \/ \E u \in Clients : RegisterNew(w, u) \/ LaunchApp(w, u)
             \/ \E u \in Clients, t \in Solvable : ReadDict(w, u, t)
             \/ \E b \in Addresses : AskWallet(w, b)
      PROVE  Backed(a)'
  BY <1>1, <1>4, <1>8
     DEF RegisterNew, LaunchApp, ReadDict, AskWallet, AccountsInv, AccountsTypeOK
<1>9. ASSUME NEW w \in Workers, InsertUser(w) \/ InsertAppData(w) PROVE Backed(a)'
  BY <1>1, <1>4, <1>9 DEF InsertUser, InsertAppData, AccountsInv, AccountsTypeOK
<1>10. ASSUME NEW w \in Workers, LockAddress(w) \/ ReleaseAddress(w) PROVE Backed(a)'
  BY <1>1, <1>4, <1>10 DEF LockAddress, ReleaseAddress, AccountsInv, AccountsTypeOK
<1>11. ASSUME NEW w \in Workers, LookAtDict(w) \/ Migrate(w) \/ WriteDict(w)
       PROVE  Backed(a)'
  BY <1>1, <1>4, <1>11 DEF LookAtDict, Migrate, WriteDict, AccountsInv, AccountsTypeOK
<1>12. CASE \E u \in Clients : NukeUser(u)
  BY <1>1, <1>4, <1>12 DEF NukeUser
<1>13. CASE UNCHANGED accountVars
  BY <1>1, <1>4, <1>13 DEF accountVars
<1> QED
  BY <1>5, <1>6, <1>7, <1>8, <1>9, <1>10, <1>11, <1>12, <1>13 DEF AccountsNext, VisitWork

\* An account that was paid for has its user onboarded or about to be, or the request
\* that created it ended before it could record it.
THEOREM FundsRecorded == AccountsSpec => []FundedMeansOnboarded
<1>1. AccountsInit => FundedMeansOnboarded
  BY DEF AccountsInit, FundedMeansOnboarded
<1> QED
  BY <1>1, FundingStep, AccountsInvHolds, PTL DEF AccountsSpec

-----------------------------------------------------------------------------
(* How many accounts a user can get. *)

\* The accounts of a user that were not lost, and the requests that may yet create one.
FundedOf(u) == {a \in accounts \ stranded : OwnerOf[a] = u}
AskingFor(u) ==
  {w \in Workers : visitStep[w] \in {"lock", "create"} /\ visit[w].user = u}

\* The requests that may create an account are counted with those there are.
FundedInv ==
  \A u \in Clients :
    /\ IsFiniteSet(FundedOf(u))
    /\ Cardinality(FundedOf(u)) + Cardinality(AskingFor(u)) <= Cardinality(Workers)

\* Every set of workers is finite.
LEMMA SomeWorkers ==
  ASSUME NEW W \in SUBSET Workers
  PROVE  IsFiniteSet(W) /\ Cardinality(W) \in Nat /\ Cardinality(W) <= Cardinality(Workers)
BY ThreadsAssumption, FS_Subset, FS_CardinalityType

\* A step after which there are no more accounts of a user, and no more requests that
\* may create one, keeps the bound.
LEMMA FundedFrame ==
  ASSUME FundedInv, NEW u \in Clients,
         FundedOf(u)' \subseteq FundedOf(u), AskingFor(u)' \subseteq AskingFor(u)
  PROVE  /\ IsFiniteSet(FundedOf(u)')
         /\ Cardinality(FundedOf(u)') + Cardinality(AskingFor(u)') <= Cardinality(Workers)
<1>1. PICK F : F = FundedOf(u)
  OBVIOUS
<1>2. PICK A : A = AskingFor(u)
  OBVIOUS
<1>3. PICK G : G = FundedOf(u)'
  OBVIOUS
<1>4. PICK B : B = AskingFor(u)'
  OBVIOUS
<1>5. /\ IsFiniteSet(F) /\ Cardinality(F) + Cardinality(A) <= Cardinality(Workers)
      /\ G \in SUBSET F /\ B \in SUBSET A /\ A \in SUBSET Workers
  BY <1>1, <1>2, <1>3, <1>4 DEF FundedInv, AskingFor
<1>6. IsFiniteSet(G) /\ Cardinality(G) <= Cardinality(F)
  BY <1>5, FS_Subset
<1>7. IsFiniteSet(A) /\ Cardinality(B) <= Cardinality(A)
  BY <1>5, SomeWorkers, FS_Subset
<1>8. /\ Cardinality(F) \in Nat /\ Cardinality(G) \in Nat /\ Cardinality(A) \in Nat
      /\ Cardinality(B) \in Nat /\ Cardinality(Workers) \in Nat
  <2>1. IsFiniteSet(B)
    BY <1>5, <1>7, FS_Subset
  <2>2. QED
    BY <1>5, <1>6, <1>7, <2>1, ThreadsAssumption, FS_CardinalityType
<1>9. Cardinality(G) + Cardinality(B) <= Cardinality(Workers)
  BY <1>5, <1>6, <1>7, <1>8
<1>10. QED
  BY <1>3, <1>4, <1>6, <1>9

\* What the other steps of a request do to the requests that may create an account.
LEMMA AskingShrinks ==
  ASSUME AccountsInv, NEW w \in Workers,
         \/ \E c \in Clients : RegisterNew(w, c) \/ LaunchApp(w, c)
         \/ \E c \in Clients, t \in Solvable : ReadDict(w, c, t)
         \/ VisitWork(w) \/ VisitDies(w)
  PROVE  \A x \in Workers : visitStep'[x] \in {"lock", "create"} =>
           visitStep[x] \in {"lock", "create"} /\ visit'[x] = visit[x]
<1> USE DEF VisitGoto, VisitFinish, VisitStart
<1>0. visitStep \in [Workers -> VisitSteps] /\ visit \in [Workers -> Visit]
  BY DEF AccountsInv, AccountsTypeOK
<1>1. CASE \/ \E c \in Clients : RegisterNew(w, c) \/ LaunchApp(w, c)
           \/ \E c \in Clients, t \in Solvable : ReadDict(w, c, t)
  <2>1. /\ \/ visitStep' = [visitStep EXCEPT ![w] = "insertUser"]
           \/ visitStep' = [visitStep EXCEPT ![w] = "migrate"]
           \/ visitStep' = [visitStep EXCEPT ![w] = "solve"]
        /\ \E v : visit' = [visit EXCEPT ![w] = v]
    BY <1>1 DEF RegisterNew, LaunchApp, ReadDict
  <2>2. QED
    BY <1>0, <2>1
<1>2. CASE InsertUser(w) \/ InsertAppData(w)
  BY <1>0, <1>2 DEF InsertUser, InsertAppData
<1>3. CASE LockAddress(w)
  BY <1>0, <1>3 DEF LockAddress
<1>4. CASE CreateAccount(w)
  BY <1>0, <1>4 DEF CreateAccount
<1>5. CASE SetOnboarded(w) \/ ReleaseAddress(w)
  BY <1>0, <1>5 DEF SetOnboarded, ReleaseAddress
<1>6. CASE LookAtDict(w)
  <2>1. /\ \/ visitStep' = [visitStep EXCEPT ![w] = "idle"]
           \/ visitStep' = [visitStep EXCEPT ![w] = "overwrite"]
        /\ \A x \in Workers \ {w} : visit'[x] = visit[x]
    BY <1>0, <1>6 DEF LookAtDict
  <2>2. QED
    BY <1>0, <2>1
<1>7. CASE Migrate(w) \/ WriteDict(w) \/ VisitDies(w)
  BY <1>0, <1>7 DEF Migrate, WriteDict, VisitDies
<1>8. QED
  BY <1>1, <1>2, <1>3, <1>4, <1>5, <1>6, <1>7 DEF VisitWork

\* A user who is not onboarded has at most as many accounts as requests that are
\* about to record one.
LEMMA FundedHaveRecorders ==
  ASSUME AccountsInv, FundedMeansOnboarded, NEW u \in Clients, address[u] = None
  PROVE  LET R == {w \in Workers : visitStep[w] = "record" /\ visit[w].user = u} IN
         Cardinality(FundedOf(u)) <= Cardinality(R)
<1> DEFINE R == {w \in Workers : visitStep[w] = "record" /\ visit[w].user = u}
           T == {visit[w].addr : w \in R}
           f == [w \in R |-> visit[w].addr]
<1>1. IsFiniteSet(R)
  BY SomeWorkers
<1>2. f \in Surjection(R, T)
  BY DEF Surjection
<1>3. ASSUME NEW a \in FundedOf(u)
      PROVE  a \in T
  <2>1. a \in accounts \ stranded /\ OwnerOf[a] = u
    BY DEF FundedOf
  <2>2. None \notin accounts
    BY AccountsAssumption DEF AccountsInv, AccountsTypeOK
  <2>3. PICK w \in Workers : visitStep[w] = "record" /\ visit[w].addr = a
    BY <2>1, <2>2 DEF FundedMeansOnboarded
  <2>4. visit[w].user = u
    BY <2>1, <2>3 DEF AccountsInv, VisitsOK, VisitOK, OnboardSteps
  <2>5. QED
    BY <2>3, <2>4
<1> HIDE DEF f, T, R
<1>4. IsFiniteSet(T) /\ Cardinality(T) <= Cardinality(R)
  BY <1>1, <1>2, FS_Surjection
<1>5. FundedOf(u) \in SUBSET T
  BY <1>3
<1>6. IsFiniteSet(FundedOf(u)) /\ Cardinality(FundedOf(u)) <= Cardinality(T)
  BY <1>4, <1>5, FS_Subset
<1>7. /\ Cardinality(FundedOf(u)) \in Nat /\ Cardinality(T) \in Nat /\ Cardinality(R) \in Nat
  BY <1>1, <1>4, <1>6, FS_CardinalityType
<1>8. Cardinality(FundedOf(u)) <= Cardinality(R)
  BY <1>4, <1>6, <1>7
<1>9. QED
  BY <1>8 DEF R

\* A request that asks for a wallet finds room: it was free until now, and every account
\* the user has already is another request's, that has not recorded it.
LEMMA AskingFindsRoom ==
  ASSUME AccountsInv, FundedMeansOnboarded, FundedInv, NEW u \in Clients,
         NEW w \in Workers, NEW b \in Addresses, AskWallet(w, b)
  PROVE  /\ IsFiniteSet(FundedOf(u)')
         /\ Cardinality(FundedOf(u)') + Cardinality(AskingFor(u)') <= Cardinality(Workers)
<1> DEFINE v == [NoVisit EXCEPT !.user = OwnerOf[b], !.addr = b]
<1>1. v \in Visit /\ v.user = OwnerOf[b] /\ OwnerOf[b] \in Clients
  BY AccountsAssumption DEF NoVisit, Visit
<1>2. /\ visitStep[w] = "idle" /\ address[OwnerOf[b]] = None
      /\ visitStep' = [visitStep EXCEPT ![w] = "lock"] /\ visit' = [visit EXCEPT ![w] = v]
      /\ accounts' = accounts /\ stranded' = stranded
  BY DEF AskWallet, VisitStart, VisitGoto, IsOnboarded
<1> HIDE DEF v
<1>3. visitStep \in [Workers -> VisitSteps] /\ visit \in [Workers -> Visit]
  BY DEF AccountsInv, AccountsTypeOK
<1>4. FundedOf(u)' = FundedOf(u)
  BY <1>2 DEF FundedOf
<1>5. CASE OwnerOf[b] # u
  <2>1. AskingFor(u)' \subseteq AskingFor(u)
    BY <1>1, <1>2, <1>3, <1>5 DEF AskingFor
  <2>2. QED
    BY <1>4, <2>1, FundedFrame
<1>6. CASE OwnerOf[b] = u
  <2> DEFINE R == {x \in Workers : visitStep[x] = "record" /\ visit[x].user = u}
  <2>1. PICK A : A = AskingFor(u)
    OBVIOUS
  <2>2. PICK B : B = AskingFor(u)'
    OBVIOUS
  <2>3. PICK F : F = FundedOf(u)
    OBVIOUS
  <2>4. B = A \cup {w} /\ w \notin A /\ w \notin R /\ R \cap (A \cup {w}) = {}
    BY <1>1, <1>2, <1>3, <1>6, <2>1, <2>2 DEF AskingFor
  <2>5. A \in SUBSET Workers /\ R \in SUBSET Workers /\ B \in SUBSET Workers
    BY <2>1, <2>4 DEF AskingFor
  <2>6. Cardinality(F) <= Cardinality(R)
    BY <1>2, <1>6, <2>3, FundedHaveRecorders
  <2> HIDE DEF R
  <2>7. /\ IsFiniteSet(R) /\ IsFiniteSet(B) /\ IsFiniteSet(R \cap B)
        /\ Cardinality(R) \in Nat /\ Cardinality(B) \in Nat /\ Cardinality(Workers) \in Nat
        /\ Cardinality(R \cap B) = 0
    <3>1. R \cap B = {}
      BY <2>4
    <3>2. QED
      BY <2>5, <3>1, SomeWorkers, FS_EmptySet, ThreadsAssumption, FS_CardinalityType
  <2>8. Cardinality(R \cup B) = Cardinality(R) + Cardinality(B) - Cardinality(R \cap B)
    BY <2>7, FS_Union
  <2>9. Cardinality(R \cup B) <= Cardinality(Workers) /\ Cardinality(R \cup B) \in Nat
    <3>1. R \cup B \in SUBSET Workers
      BY <2>5
    <3>2. QED
      BY <3>1, SomeWorkers
  <2>10. IsFiniteSet(F)
    BY <2>3 DEF FundedInv
  <2>11. Cardinality(F) \in Nat
    BY <2>10, FS_CardinalityType
  <2>12. Cardinality(F) + Cardinality(B) <= Cardinality(Workers)
    BY <2>6, <2>7, <2>8, <2>9, <2>11
  <2>13. FundedOf(u)' = F /\ AskingFor(u)' = B
    BY <1>4, <2>2, <2>3
  <2>14. QED
    BY <2>10, <2>12, <2>13
<1>7. QED
  BY <1>5, <1>6

\* The request that creates an account had been counted for it.
LEMMA CreatingKeepsBound ==
  ASSUME AccountsInv, FundedInv, NEW u \in Clients, NEW w \in Workers, CreateAccount(w)
  PROVE  /\ IsFiniteSet(FundedOf(u)')
         /\ Cardinality(FundedOf(u)') + Cardinality(AskingFor(u)') <= Cardinality(Workers)
<1> DEFINE a == visit[w].addr
<1>1. /\ visitStep \in [Workers -> VisitSteps] /\ visit \in [Workers -> Visit]
      /\ visitStep[w] = "create" /\ visit' = visit
      /\ visitStep'[w] \in {"record", "release"}
      /\ \A x \in Workers \ {w} : visitStep'[x] = visitStep[x]
      /\ a \in Addresses /\ visit[w].user = OwnerOf[a]
  BY DEF CreateAccount, VisitGoto, AccountsInv, AccountsTypeOK, VisitsOK, VisitOK, OnboardSteps
<1>2. AskingFor(u)' = AskingFor(u) \ {w}
  BY <1>1 DEF AskingFor
<1>3. accounts' \ stranded' \subseteq (accounts \ stranded) \cup {a}
  BY DEF CreateAccount
<1> HIDE DEF a
<1>4. CASE OwnerOf[a] # u
  <2>1. FundedOf(u)' \subseteq FundedOf(u)
    BY <1>3, <1>4 DEF FundedOf
  <2>2. QED
    BY <1>2, <2>1, FundedFrame
<1>5. CASE OwnerOf[a] = u
  <2>1. PICK A : A = AskingFor(u)
    OBVIOUS
  <2>2. PICK F : F = FundedOf(u)
    OBVIOUS
  <2>3. PICK G : G = FundedOf(u)'
    OBVIOUS
  <2>4. w \in A /\ A \in SUBSET Workers
    BY <1>1, <1>5, <2>1 DEF AskingFor
  <2>5. G \in SUBSET (F \cup {a})
    BY <1>3, <2>2, <2>3 DEF FundedOf
  <2>6. /\ IsFiniteSet(F) /\ Cardinality(F) + Cardinality(A) <= Cardinality(Workers)
    BY <2>1, <2>2 DEF FundedInv
  <2>7. /\ IsFiniteSet(F \cup {a}) /\ Cardinality(F \cup {a}) \in Nat
        /\ Cardinality(F \cup {a}) <= Cardinality(F) + 1 /\ Cardinality(F) \in Nat
    BY <2>6, FS_AddElement, FS_CardinalityType
  <2>8. IsFiniteSet(G) /\ Cardinality(G) <= Cardinality(F \cup {a}) /\ Cardinality(G) \in Nat
    BY <2>5, <2>7, FS_Subset, FS_CardinalityType
  <2>9. /\ IsFiniteSet(A) /\ Cardinality(A) \in Nat /\ Cardinality(A \ {w}) = Cardinality(A) - 1
        /\ Cardinality(Workers) \in Nat
    BY <2>4, SomeWorkers, FS_RemoveElement, ThreadsAssumption, FS_CardinalityType
  <2>10. Cardinality(A \ {w}) \in Nat
    <3>1. A \ {w} \in SUBSET Workers
      BY <2>4
    <3>2. QED
      BY <3>1, SomeWorkers
  <2>11. Cardinality(G) + Cardinality(A \ {w}) <= Cardinality(Workers)
    BY <2>6, <2>7, <2>8, <2>9, <2>10
  <2>12. QED
    BY <1>2, <2>1, <2>3, <2>8, <2>11
<1>6. QED
  BY <1>4, <1>5

\* Every step keeps the bound.
LEMMA FundedStep ==
  ASSUME AccountsInv, FundedMeansOnboarded, FundedInv, [AccountsNext]_accountVars
  PROVE  FundedInv'
<1> SUFFICES ASSUME NEW u \in Clients
             PROVE  /\ IsFiniteSet(FundedOf(u)')
                    /\ Cardinality(FundedOf(u)') + Cardinality(AskingFor(u)')
                         <= Cardinality(Workers)
  BY DEF FundedInv
<1>1. ASSUME NEW w \in Workers, NEW b \in Addresses, AskWallet(w, b)
      PROVE  FundedOf(u)' \subseteq FundedOf(u)
  BY <1>1 DEF AskWallet, FundedOf
<1>2. ASSUME NEW w \in Workers, ~CreateAccount(w),
             \/ \E c \in Clients : RegisterNew(w, c) \/ LaunchApp(w, c)
             \/ \E c \in Clients, t \in Solvable : ReadDict(w, c, t)
             \/ VisitWork(w) \/ VisitDies(w)
      PROVE  FundedOf(u)' \subseteq FundedOf(u) /\ AskingFor(u)' \subseteq AskingFor(u)
  <2>1. accounts' \ stranded' \subseteq accounts \ stranded
    BY <1>2 DEF RegisterNew, LaunchApp, ReadDict, VisitDies, VisitWork, InsertUser, InsertAppData,
      LockAddress, SetOnboarded, ReleaseAddress, LookAtDict, Migrate, WriteDict, accountTables
  <2>2. FundedOf(u)' \subseteq FundedOf(u)
    BY <2>1 DEF FundedOf
  <2>3. AskingFor(u)' \subseteq AskingFor(u)
    BY <1>2, AskingShrinks DEF AskingFor
  <2>4. QED
    BY <2>2, <2>3
<1>3. CASE (\E c \in Clients : NukeUser(c)) \/ UNCHANGED accountVars
  <2>1. UNCHANGED <<accounts, stranded, visitStep, visit>>
    BY <1>3 DEF NukeUser, accountVars
  <2>2. FundedOf(u)' \subseteq FundedOf(u) /\ AskingFor(u)' \subseteq AskingFor(u)
    BY <2>1 DEF FundedOf, AskingFor
  <2>3. QED
    BY <2>2, FundedFrame
<1>4. QED
  BY <1>2, <1>3, AskingFindsRoom, CreatingKeepsBound, FundedFrame DEF AccountsNext, VisitWork

\* A user gets no more accounts than there are requests at once: is_onboarded, asked
\* before the lock, lets in only those whose forerunners have yet to record theirs.
THEOREM AccountsLimit == AccountsSpec => []AccountsBounded
<1>1. AccountsInit => FundedInv
  <2> SUFFICES ASSUME AccountsInit, NEW u \in Clients
               PROVE  /\ IsFiniteSet(FundedOf(u))
                      /\ Cardinality(FundedOf(u)) + Cardinality(AskingFor(u))
                           <= Cardinality(Workers)
    BY DEF FundedInv
  <2>1. FundedOf(u) = {} /\ AskingFor(u) = {}
    BY DEF AccountsInit, FundedOf, AskingFor
  <2>2. IsFiniteSet({}) /\ Cardinality({}) = 0 /\ Cardinality(Workers) \in Nat
    BY FS_EmptySet, FS_CardinalityType, ThreadsAssumption
  <2>3. QED
    BY <2>1, <2>2
<1>2. AccountsInv /\ FundedMeansOnboarded /\ FundedInv /\ [AccountsNext]_accountVars => FundedInv'
  BY FundedStep
<1>3. FundedInv => AccountsBounded
  <2> SUFFICES ASSUME FundedInv, NEW u \in Clients
               PROVE  Cardinality(FundedOf(u)) <= Cardinality(Workers)
    BY DEF AccountsBounded, FundedOf
  <2>1. /\ IsFiniteSet(FundedOf(u)) /\ AskingFor(u) \in SUBSET Workers
        /\ Cardinality(FundedOf(u)) + Cardinality(AskingFor(u)) <= Cardinality(Workers)
    BY DEF FundedInv, AskingFor
  <2>2. /\ Cardinality(FundedOf(u)) \in Nat /\ Cardinality(AskingFor(u)) \in Nat
        /\ Cardinality(Workers) \in Nat
    BY <2>1, SomeWorkers, FS_CardinalityType, ThreadsAssumption
  <2>3. QED
    BY <2>1, <2>2
<1>4. QED
  BY <1>1, <1>2, <1>3, AccountsInvHolds, FundsRecorded, PTL DEF AccountsSpec

-----------------------------------------------------------------------------
(* The migration of solved tasks. *)

\* One request at a time.
OneVisit == \A v, w \in Workers : v = w

\* A request that writes the dict back has read it since it changed last, but for an
\* operator who emptied it; and one that overwrites it has seen it not migrated.
DictInv ==
  \A w \in Workers :
    /\ visitStep[w] = "solve" => solved2[visit[w].user] \subseteq visit[w].seen
    /\ visitStep[w] = "overwrite" => visit[w].user \notin migrated

\* Every step keeps that.
LEMMA DictStep ==
  ASSUME OneVisit, AccountsInv, DictInv, [AccountsNext]_accountVars
  PROVE  DictInv'
<1> USE DEF VisitGoto, VisitFinish, VisitStart
<1>0. /\ visitStep \in [Workers -> VisitSteps] /\ visit \in [Workers -> Visit]
      /\ solved2 \in [Clients -> SUBSET Solvable]
  BY DEF AccountsInv, AccountsTypeOK
<1>1. ASSUME NEW w \in Workers, visitStep'[w] \notin {"solve", "overwrite"}
      PROVE  DictInv'
  BY <1>1 DEF DictInv, OneVisit
<1>2. ASSUME NEW w \in Workers, (\E c \in Clients : RegisterNew(w, c) \/ LaunchApp(w, c))
      PROVE  DictInv'
  <2>1. visitStep'[w] \notin {"solve", "overwrite"}
    BY <1>0, <1>2 DEF RegisterNew, LaunchApp
  <2>2. QED
    BY <1>1, <2>1
<1>3. ASSUME NEW w \in Workers, NEW a \in Addresses, AskWallet(w, a)
      PROVE  DictInv'
  <2>1. visitStep'[w] = "lock"
    BY <1>0, <1>3 DEF AskWallet
  <2>2. QED
    BY <1>1, <2>1
<1>4. ASSUME NEW w \in Workers, InsertUser(w) \/ InsertAppData(w) \/ LockAddress(w)
               \/ CreateAccount(w) \/ SetOnboarded(w) \/ ReleaseAddress(w) \/ Migrate(w)
               \/ WriteDict(w) \/ VisitDies(w)
      PROVE  DictInv'
  <2>1. visitStep'[w] \notin {"solve", "overwrite"}
    BY <1>0, <1>4 DEF InsertUser, InsertAppData, LockAddress, CreateAccount, SetOnboarded,
      ReleaseAddress, Migrate, WriteDict, VisitDies
  <2>2. QED
    BY <1>1, <2>1
<1>5. ASSUME NEW w \in Workers, LookAtDict(w)
      PROVE  DictInv'
  <2>1. CASE visit[w].user \in migrated
    BY <1>0, <1>1, <1>5, <2>1 DEF LookAtDict
  <2>2. CASE visit[w].user \notin migrated
    <3>1. visitStep'[w] = "overwrite" /\ visit'[w].user = visit[w].user /\ migrated' = migrated
      BY <1>0, <1>5, <2>2 DEF LookAtDict, Visit, accountTables
    <3>2. QED
      BY <2>2, <3>1 DEF DictInv, OneVisit
  <2>3. QED
    BY <2>1, <2>2
<1>6. ASSUME NEW w \in Workers, NEW u \in Clients, NEW t \in Solvable, ReadDict(w, u, t)
      PROVE  DictInv'
  <2> DEFINE v == [NoVisit EXCEPT !.user = u, !.task = t, !.seen = solved2[u],
                                  !.zero = u \in migrated]
  <2>1. v.user = u /\ v.seen = solved2[u]
    BY DEF NoVisit
  <2>2. visitStep' = [visitStep EXCEPT ![w] = "solve"] /\ visit' = [visit EXCEPT ![w] = v]
        /\ solved2' = solved2
    BY <1>6 DEF ReadDict, accountTables
  <2> HIDE DEF v
  <2>3. visitStep'[w] = "solve" /\ visit'[w] = v /\ \A x \in Workers : x = w
    BY <1>0, <2>2 DEF OneVisit
  <2>4. QED
    BY <2>1, <2>2, <2>3 DEF DictInv
<1>7. ASSUME NEW u \in Clients, NukeUser(u)
      PROVE  DictInv'
  <2>1. \A c \in Clients : solved2'[c] \subseteq solved2[c]
    BY <1>0, <1>7 DEF NukeUser
  <2>2. /\ migrated' \subseteq migrated /\ visitStep' = visitStep /\ visit' = visit
    BY <1>7 DEF NukeUser
  <2>3. \A w \in Workers : visitStep[w] = "solve" => visit[w].user \in Clients
    BY DEF AccountsInv, AccountsTypeOK, VisitsOK, VisitOK, SolveSteps
  <2>4. QED
    BY <2>1, <2>2, <2>3 DEF DictInv
<1>8. CASE UNCHANGED accountVars
  BY <1>8 DEF DictInv, accountVars
<1>9. QED
  BY <1>2, <1>3, <1>4, <1>5, <1>6, <1>7, <1>8 DEF AccountsNext, VisitWork

\* With one request at a time no launch of the app takes a solved task back: the dict is
\* overwritten only before it is migrated, and nothing is solved in between.
THEOREM MigrationKeepsTasks ==
  ASSUME OneVisit
  PROVE  AccountsSpec => MigratedKeepsTasks
<1>1. AccountsInit => DictInv
  BY DEF AccountsInit, DictInv
<1>2. AccountsInv /\ DictInv /\ [AccountsNext]_accountVars => DictInv'
  BY DictStep
<1>3. AccountsInv /\ DictInv /\ [AccountsNext]_accountVars
        => [\A u \in migrated \cap migrated' : solved2[u] \subseteq solved2'[u]]_accountVars
  <2> SUFFICES ASSUME AccountsInv, DictInv, AccountsNext, NEW u \in migrated \cap migrated'
               PROVE  solved2[u] \subseteq solved2'[u]
    OBVIOUS
  <2>0. solved2 \in [Clients -> SUBSET Solvable] /\ u \in Clients
    BY DEF AccountsInv, AccountsTypeOK
  <2>1. ASSUME NEW w \in Workers, Migrate(w) PROVE solved2[u] \subseteq solved2'[u]
    BY <2>0, <2>1 DEF Migrate, DictInv
  <2>2. ASSUME NEW w \in Workers, WriteDict(w) PROVE solved2[u] \subseteq solved2'[u]
    BY <2>0, <2>2 DEF WriteDict, DictInv
  <2>3. ASSUME NEW c \in Clients, NukeUser(c) PROVE solved2[u] \subseteq solved2'[u]
    BY <2>0, <2>3 DEF NukeUser
  <2>4. CASE solved2' = solved2
    BY <2>4
  <2>5. QED
    BY <2>1, <2>2, <2>3, <2>4
      DEF AccountsNext, VisitWork, RegisterNew, LaunchApp, ReadDict, AskWallet, InsertUser,
        InsertAppData, LockAddress, CreateAccount, SetOnboarded, ReleaseAddress, LookAtDict,
        VisitDies, accountTables
<1>4. QED
  BY <1>1, <1>2, <1>3, AccountsInvHolds, PTL DEF AccountsSpec, MigratedKeepsTasks
=============================================================================
