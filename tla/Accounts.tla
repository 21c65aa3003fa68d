-------------------------------- MODULE Accounts --------------------------------
(***************************************************************************)
(* A user's way in: registering, creating a wallet on the blockchain, and  *)
(* the migration of the tasks solved under tasks 1.0, at the launch of the *)
(* app.  A worker serves one request; each statement, each look at redis   *)
(* and the call to the blockchain is a step.                               *)
(***************************************************************************)
EXTENDS Threads

CONSTANTS
  Clients,    \* user ids
  Addresses,  \* public addresses; each belongs to one client
  OwnerOf,    \* the client of an address
  Solvable,   \* ids of tasks
  Mapped,     \* those in the table of tasks20_get_tasks_dict
  InCatZero,  \* tasks of the category '0'
  NoLock      \* no worker

ASSUME AccountsAssumption ==
  /\ None \notin Clients \cup Addresses \cup Solvable
  /\ OwnerOf \in [Addresses -> Clients]
  /\ Mapped \subseteq Solvable /\ InCatZero \subseteq Solvable
  /\ NoLock \notin Workers

VARIABLES
  users,      \* table user: the ids in it
  appData,    \* table user_app_data: the ids in it
  address,    \* user.public_address, None while user.onboarded is false
  accounts,   \* blockchain: addresses with an account
  creating,   \* redis locks address:..., with the worker that holds them
  solved1,    \* user_app_data.completed_tasks, of tasks 1.0
  solved2,    \* user_app_data.completed_tasks_dict
  migrated,   \* users whose dict has the category '0'
  visitStep, visit,  \* where each request stands, and its local variables
  halfway,    \* history: users with a registration that ended between the rows
  stranded    \* history: accounts whose request ended before it recorded them

accountTables == <<users, appData, address, solved1, solved2, migrated>>
accountVars == <<users, appData, address, accounts, creating, solved1, solved2, migrated,
                 visitStep, visit, halfway, stranded>>

RegisterSteps == {"insertUser", "insertData"}
OnboardSteps == {"lock", "create", "record", "release"}
LaunchSteps == {"migrate", "overwrite"}
SolveSteps == {"solve"}
VisitSteps == {"idle"} \cup RegisterSteps \cup OnboardSteps \cup LaunchSteps \cup SolveSteps

\* seen, zero: the completed tasks the request has read, and whether the dict had
\* the category '0'.
Visit == [user : Clients \cup {None}, addr : Addresses \cup {None},
          task : Solvable \cup {None}, seen : SUBSET Solvable, zero : BOOLEAN]
NoVisit == [user |-> None, addr |-> None, task |-> None, seen |-> {}, zero |-> FALSE]

AccountsTypeOK ==
  /\ users \subseteq Clients /\ appData \subseteq users /\ migrated \subseteq appData
  /\ address \in [Clients -> Addresses \cup {None}]
  /\ accounts \subseteq Addresses
  /\ creating \in [Addresses -> Workers \cup {NoLock}]
  /\ solved1 \in [Clients -> SUBSET Solvable]
  /\ solved2 \in [Clients -> SUBSET Solvable]
  /\ visitStep \in [Workers -> VisitSteps]
  /\ visit \in [Workers -> Visit]
  /\ halfway \subseteq Clients /\ stranded \subseteq Addresses

\* Some users are there from before tasks 2.0, and have solved tasks.
AccountsInit ==
  /\ users \in SUBSET Clients /\ appData = users
  /\ solved1 \in [Clients -> SUBSET Solvable]
  /\ \A u \in Clients \ users : solved1[u] = {}
  /\ address = [u \in Clients |-> None]
  /\ accounts = {}
  /\ creating = [a \in Addresses |-> NoLock]
  /\ solved2 = [u \in Clients |-> {}] /\ migrated = {}
  /\ visitStep = [w \in Workers |-> "idle"]
  /\ visit = [w \in Workers |-> NoVisit]
  /\ halfway = {} /\ stranded = {}

-----------------------------------------------------------------------------
(* Operators named ...Broken are the code with one plausible mistake in it; *)
(* no action uses them.  They show that a property notices the mistake.      *)

VisitGoto(w, step) == visitStep' = [visitStep EXCEPT ![w] = step]
VisitFinish(w) == VisitGoto(w, "idle") /\ visit' = [visit EXCEPT ![w] = NoVisit]
VisitStart(w, step, v) ==
  visitStep[w] = "idle" /\ VisitGoto(w, step) /\ visit' = [visit EXCEPT ![w] = v]

-----------------------------------------------------------------------------
(* POST /user/register: create_user.  The client repeats it until it is     *)
(* answered with 200OK.                                                     *)

\* get_user finds no row.
RegisterNew(w, u) ==
  /\ u \notin users
  /\ VisitStart(w, "insertUser", [NoVisit EXCEPT !.user = u])
  /\ UNCHANGED <<accountTables, accounts, creating, halfway, stranded>>

\* The second insert of an id breaks the primary key, and the request.
InsertUser(w) ==
  LET u == visit[w].user IN
  /\ visitStep[w] = "insertUser"
  /\ users' = users \cup {u}
  /\ IF u \in users THEN VisitFinish(w) ELSE VisitGoto(w, "insertData") /\ UNCHANGED visit
  /\ UNCHANGED <<appData, address, solved1, solved2, migrated, accounts, creating, halfway,
                 stranded>>

InsertAppDataBroken(w) ==
  /\ visitStep[w] = "insertData"
  /\ VisitFinish(w)
  /\ UNCHANGED <<accountTables, accounts, creating, halfway, stranded>>

InsertAppData(w) ==
  /\ visitStep[w] = "insertData"
  /\ appData' = appData \cup {visit[w].user}
  /\ VisitFinish(w)
  /\ UNCHANGED <<users, address, solved1, solved2, migrated, accounts, creating, halfway,
                 stranded>>

-----------------------------------------------------------------------------
(* POST /user/onboard: onboard_user. *)

IsOnboarded(u) == address[u] # None

\* is_onboarded is asked before the lock, which names the address.
AskWalletBroken(w, a) ==
  /\ OwnerOf[a] \in users
  /\ VisitStart(w, "lock", [NoVisit EXCEPT !.user = OwnerOf[a], !.addr = a])
  /\ UNCHANGED <<accountTables, accounts, creating, halfway, stranded>>

AskWallet(w, a) ==
  /\ OwnerOf[a] \in users /\ ~IsOnboarded(OwnerOf[a])
  /\ VisitStart(w, "lock", [NoVisit EXCEPT !.user = OwnerOf[a], !.addr = a])
  /\ UNCHANGED <<accountTables, accounts, creating, halfway, stranded>>

LockAddress(w) ==
  LET a == visit[w].addr IN
  /\ visitStep[w] = "lock"
  /\ IF creating[a] = NoLock
       THEN /\ creating' = [creating EXCEPT ![a] = w]
            /\ VisitGoto(w, "create") /\ UNCHANGED visit
       ELSE VisitFinish(w) /\ UNCHANGED creating
  /\ UNCHANGED <<accountTables, accounts, halfway, stranded>>

\* An account that exists already is an error, like any failure of the call; the
\* answer may be lost after the account was created.
CreateAccount(w) ==
  LET a == visit[w].addr IN
  /\ visitStep[w] = "create"
  /\ \/ /\ a \notin accounts
        /\ accounts' = accounts \cup {a}
        /\ VisitGoto(w, "record") /\ UNCHANGED stranded
     \/ /\ Faulty /\ a \notin accounts
        /\ accounts' = accounts \cup {a}
        /\ stranded' = stranded \cup {a} /\ VisitGoto(w, "release")
     \/ /\ Faulty \/ a \in accounts
        /\ VisitGoto(w, "release") /\ UNCHANGED <<accounts, stranded>>
  /\ UNCHANGED <<accountTables, creating, visit, halfway>>

SetOnboardedBroken(w) ==
  /\ visitStep[w] = "record"
  /\ VisitGoto(w, "release")
  /\ UNCHANGED <<accountTables, accounts, creating, visit, halfway, stranded>>

SetOnboarded(w) ==
  /\ visitStep[w] = "record"
  /\ address' = [address EXCEPT ![visit[w].user] = visit[w].addr]
  /\ VisitGoto(w, "release")
  /\ UNCHANGED <<users, appData, solved1, solved2, migrated, accounts, creating, visit,
                 halfway, stranded>>

ReleaseAddress(w) ==
  /\ visitStep[w] = "release"
  /\ creating' = [creating EXCEPT ![visit[w].addr] = NoLock]
  /\ VisitFinish(w)
  /\ UNCHANGED <<accountTables, accounts, halfway, stranded>>

-----------------------------------------------------------------------------
(* POST /user/app-launch, of a user with a row in user_app_data:            *)
(* task20_migrate_user_to_tasks2.                                           *)

LaunchApp(w, u) ==
  /\ u \in appData
  /\ VisitStart(w, "migrate", [NoVisit EXCEPT !.user = u])
  /\ UNCHANGED <<accountTables, accounts, creating, halfway, stranded>>

\* A dict with the category '0' was migrated already.
LookAtDictBroken(w) ==
  LET u == visit[w].user IN
  /\ visitStep[w] = "migrate"
  /\ VisitGoto(w, "overwrite") /\ visit' = [visit EXCEPT ![w].seen = solved1[u]]
  /\ UNCHANGED <<accountTables, accounts, creating, halfway, stranded>>

LookAtDict(w) ==
  LET u == visit[w].user IN
  /\ visitStep[w] = "migrate"
  /\ IF u \in migrated
       THEN VisitFinish(w)
       ELSE VisitGoto(w, "overwrite") /\ visit' = [visit EXCEPT ![w].seen = solved1[u]]
  /\ UNCHANGED <<accountTables, accounts, creating, halfway, stranded>>

\* The new dict has every category, and the old tasks that are mapped to one.
Migrate(w) ==
  LET u == visit[w].user IN
  /\ visitStep[w] = "overwrite"
  /\ solved2' = [solved2 EXCEPT ![u] = visit[w].seen \cap Mapped]
  /\ migrated' = migrated \cup {u}
  /\ VisitFinish(w)
  /\ UNCHANGED <<users, appData, address, solved1, accounts, creating, halfway, stranded>>

-----------------------------------------------------------------------------
(* What else changes the dict. *)

\* store_task_results, or an operator, reads the dict and writes it back.
ReadDict(w, u, t) ==
  /\ u \in appData
  /\ VisitStart(w, "solve", [NoVisit EXCEPT !.user = u, !.task = t, !.seen = solved2[u],
                                            !.zero = u \in migrated])
  /\ UNCHANGED <<accountTables, accounts, creating, halfway, stranded>>

WriteDict(w) ==
  LET v == visit[w] IN
  /\ visitStep[w] = "solve"
  /\ solved2' = [solved2 EXCEPT ![v.user] = v.seen \cup {v.task}]
  /\ migrated' = IF v.zero \/ v.task \in InCatZero THEN migrated \cup {v.user}
                 ELSE migrated \ {v.user}
  /\ VisitFinish(w)
  /\ UNCHANGED <<users, appData, address, solved1, accounts, creating, halfway, stranded>>

\* nuke_user_data empties the dict of a user.
NukeUser(u) ==
  /\ u \in appData
  /\ solved2' = [solved2 EXCEPT ![u] = {}] /\ migrated' = migrated \ {u}
  /\ UNCHANGED <<users, appData, address, solved1, accounts, creating, visitStep, visit,
                 halfway, stranded>>

VisitDies(w) ==
  /\ Faulty /\ visitStep[w] # "idle"
  /\ halfway' = halfway \cup {u \in Clients : visitStep[w] = "insertData" /\ visit[w].user = u}
  /\ stranded' = stranded \cup {a \in Addresses : visitStep[w] = "record" /\ visit[w].addr = a}
  /\ VisitFinish(w)
  /\ UNCHANGED <<accountTables, accounts, creating>>

VisitWork(w) ==
  \/ InsertUser(w) \/ InsertAppData(w)
  \/ LockAddress(w) \/ CreateAccount(w) \/ SetOnboarded(w) \/ ReleaseAddress(w)
  \/ LookAtDict(w) \/ Migrate(w) \/ WriteDict(w)

AccountsNext ==
  \/ \E w \in Workers :
       \/ \E u \in Clients : RegisterNew(w, u) \/ LaunchApp(w, u)
       \/ \E u \in Clients, t \in Solvable : ReadDict(w, u, t)
       \/ \E a \in Addresses : AskWallet(w, a)
       \/ VisitWork(w) \/ VisitDies(w)
  \/ \E u \in Clients : NukeUser(u)

AccountsSpec == AccountsInit /\ [][AccountsNext]_accountVars

-----------------------------------------------------------------------------
(* Properties. *)

\* A registered user has its row of app data, or a request is about to write it,
\* or one ended between the two inserts.  No later request would write it: the
\* client is answered with 200OK as soon as the first row is there.
RegisteredHasData ==
  \A u \in users \ (appData \cup halfway) :
    \E w \in Workers : visitStep[w] = "insertData" /\ visit[w].user = u

\* The owner of every account that was paid for is onboarded, or about to be; or
\* the account is stranded, and since it cannot be created again never recorded.
FundedMeansOnboarded ==
  \A a \in accounts \ stranded :
    \/ address[OwnerOf[a]] \in accounts
    \/ \E w \in Workers : visitStep[w] = "record" /\ visit[w].addr = a

\* is_onboarded is asked before the lock, and the lock does not name the user: a
\* user may get several accounts, but no more than there are requests at once.
AccountsBounded ==
  \A u \in Clients :
    Cardinality({a \in accounts \ stranded : OwnerOf[a] = u}) <= Cardinality(Workers)

\* "A user can only migrate once": with one request of a user at a time no launch
\* takes back a task that was solved after the migration.
MigratedKeepsTasks ==
  [][\A u \in migrated \cap migrated' : solved2[u] \subseteq solved2'[u]]_accountVars
=============================================================================
