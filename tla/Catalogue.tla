------------------------------ MODULE Catalogue ------------------------------
(***************************************************************************)
(* The tasks and categories as one user sees them: which task comes next   *)
(* in each category, how many tasks the category list shows, the two redis *)
(* caches in between, and the operators' requests that change the tables   *)
(* underneath.  The client's single-category cache is in module Payments.  *)
(***************************************************************************)
EXTENDS Threads, Integers

CONSTANTS
  TaskIds,
  Cats,       \* category ids
  FirstCats, FirstTasks,  \* those that exist at first
  Positions,  \* of tasks that are not ad-hoc
  Skipped,    \* tasks should_skip_task or the user's country excludes
  TooNew,     \* tasks the user's client cannot show
  OldTasks,   \* ids in table task, from which tasks are migrated
  Plan,       \* tasks20_get_tasks_dict: the category and position of each
  LastDay,     \* bound: the last day of a behaviour
  MaxEdits    \* bound: requests of operators

AdHoc == -1
ViewDays == 0 .. LastDay
Slots == [cat : Cats, pos : Positions]

ASSUME CatalogueAssumption ==
  /\ Positions \subseteq Nat /\ LastDay \in Nat /\ MaxEdits \in Nat
  /\ FirstCats \subseteq Cats /\ FirstTasks \subseteq TaskIds
  /\ Skipped \subseteq TaskIds /\ TooNew \subseteq TaskIds /\ OldTasks \subseteq TaskIds
  /\ Plan \in [TaskIds -> Slots]
  /\ \A t \in FirstTasks : Plan[t].cat \in FirstCats
  /\ None \notin TaskIds \cup Cats

VARIABLES
  viewDay,
  task2,      \* table task2
  support,    \* table category: absent, or whether supported_os is the user's
  oldTasks,   \* the ids in table task
  solved,     \* completed_tasks_dict: the tasks in it
  nextTs,     \* next_task_ts_dict, in days
  tasksCache, \* USER_TASK_IN_CATEGORY, the entry for all categories
  catsCache,  \* USER_CATEGORIES
  viewStep, view,  \* where each request stands, and its local variables
  answer,     \* history: how the last request for categories ended
  marked,     \* history: tasks an operator has marked as completed
  edits       \* history: requests of operators so far

tables == <<task2, support, oldTasks>>
progress == <<solved, nextTs>>
caches == <<tasksCache, catsCache>>
histories == <<answer, marked>>
catalogueVars ==
  <<viewDay, tables, progress, caches, viewStep, view, histories, edits>>

-----------------------------------------------------------------------------

ViewSteps == {"idle", "list", "next", "write", "count", "keep",  \* a GET
              "clear", "cleartasks", "store", "delay",           \* task results
              "insert"}                                          \* /task/add

\* day: the day an ad-hoc task is open.  codes: whether excluded_country_codes is
\* a list; the migration leaves it null.
Row == [cat : Cats, pos : Positions \cup {AdHoc}, day : ViewDays, delay : {0, 1}, codes : BOOLEAN]

\* What /task/add is asked for: ad-hoc tasks have dates, and the delay is the default.
NewRows == {r \in Row : r.codes /\ r.delay = 1 /\ (r.pos # AdHoc => r.day = 0)}

PlannedRow(t, codes) ==
  [cat |-> Plan[t].cat, pos |-> Plan[t].pos, day |-> 0, delay |-> 1, codes |-> codes]

\* The answer of get_next_tasks_for_user: no entry, or at most one task and its day.
Missing == [has |-> FALSE, task |-> None, ts |-> 0]
Entry == [has : BOOLEAN, task : TaskIds \cup {None}, ts : 0 .. LastDay + 1]

\* kind: the endpoint.  cats: categories to count.  next: the user's next tasks.
\* task, row: the task that is submitted or added.
View == [kind : {"none", "cats", "tasks", "one", "add", "overwrite"}, cats : SUBSET Cats,
         next : [Cats -> Entry], task : TaskIds \cup {None}, row : Row \cup {None}]
NoView == [kind |-> "none", cats |-> {}, next |-> [c \in Cats |-> Missing],
           task |-> None, row |-> None]

CatalogueTypeOK ==
  /\ viewDay \in ViewDays
  /\ task2 \in [TaskIds -> Row \cup {None}]
  /\ support \in [Cats -> {"absent", "here", "elsewhere"}]
  /\ oldTasks \subseteq TaskIds
  /\ solved \subseteq TaskIds
  /\ nextTs \in [Cats -> 0 .. LastDay + 1]
  /\ tasksCache \in [Cats -> Entry] \cup {None}
  /\ catsCache \in [Cats -> Entry] \cup {None}
  /\ viewStep \in [Workers -> ViewSteps]
  /\ view \in [Workers -> View]
  /\ answer \in {"none", "served", "failed"}
  /\ marked \subseteq TaskIds
  /\ edits \in 0 .. MaxEdits

CatalogueInit ==
  /\ viewDay = 0
  /\ task2 = [t \in TaskIds |-> IF t \in FirstTasks THEN PlannedRow(t, TRUE) ELSE None]
  /\ support = [c \in Cats |-> IF c \in FirstCats THEN "here" ELSE "absent"]
  /\ oldTasks = OldTasks
  /\ solved = {} /\ nextTs = [c \in Cats |-> 0]
  /\ tasksCache = None /\ catsCache = None
  /\ viewStep = [w \in Workers |-> "idle"]
  /\ view = [w \in Workers |-> NoView]
  /\ answer = "none" /\ marked = {} /\ edits = 0

-----------------------------------------------------------------------------
(* Operators named ...Broken are the code with one plausible mistake in it; *)
(* no action uses them.  They show that a property notices the mistake.      *)

ViewGoto(w, step) == viewStep' = [viewStep EXCEPT ![w] = step]
ViewFinish(w) == ViewGoto(w, "idle") /\ view' = [view EXCEPT ![w] = NoView]
SetView(w, v) == view' = [view EXCEPT ![w] = v]

InTable == {t \in TaskIds : task2[t] # None}
ListedCats == {c \in Cats : support[c] # "absent"}

\* is_task_active.
Active(t) == task2[t].pos # AdHoc \/ task2[t].day = viewDay

\* should_skip_task: the tasks that have to do with truex.
ShouldSkip(t) == t \in Skipped

\* can_client_support_task, for the version of the user's client.
ClientSupports(t) == t \notin TooNew

\* What next_task_id_for_category does not pass over.
Candidates(c) ==
  {t \in InTable \ solved : task2[t].cat = c /\ Active(t) /\ ~ShouldSkip(t)}

\* The first of them: order by position, task_start_date.
FirstOf(c) ==
  {t \in Candidates(c) : \A u \in Candidates(c) :
     \/ task2[t].pos < task2[u].pos
     \/ task2[t].pos = task2[u].pos /\ task2[t].day <= task2[u].day}

\* The country is looked up in the list of the first candidate: null raises.
Unreadable(c) == \E t \in FirstOf(c) : ~task2[t].codes

\* next_task_id_for_category: none as well when the client needs an upgrade.
NextTasks(c) ==
  LET next == {t \in FirstOf(c) : ClientSupports(t)} IN
  IF next = {} THEN {None} ELSE next

Counted(e) == e.task # None /\ e.ts <= viewDay

-----------------------------------------------------------------------------
(* GET /user/categories, /user/tasks and /user/category/<cat_id>/tasks. *)

\* get_categories_for_user, with a cached answer.
ServeCategories ==
  /\ catsCache # None
  /\ answer' = "served"
  /\ UNCHANGED <<viewDay, tables, progress, caches, viewStep, view, marked, edits>>

\* get_categories_for_user without one goes on to list_categories,
BeginCategories(w) ==
  /\ viewStep[w] = "idle" /\ catsCache = None
  /\ SetView(w, [NoView EXCEPT !.kind = "cats"])
  /\ ViewGoto(w, "list")
  /\ UNCHANGED <<viewDay, tables, progress, caches, histories, edits>>

\* and the requests for tasks go on to the tasks cache.
BeginTasks(w) ==
  /\ viewStep[w] = "idle"
  /\ \/ SetView(w, [NoView EXCEPT !.kind = "tasks"])
     \/ \E c \in ListedCats : SetView(w, [NoView EXCEPT !.kind = "one", !.cats = {c}])
  /\ ViewGoto(w, "next")
  /\ UNCHANGED <<viewDay, tables, progress, caches, histories, edits>>

ListCategories(w) ==
  /\ viewStep[w] = "list"
  /\ SetView(w, [view[w] EXCEPT !.cats = {c \in Cats : support[c] = "here"}])
  /\ ViewGoto(w, "next")
  /\ UNCHANGED <<viewDay, tables, progress, caches, histories, edits>>

\* A request that raises, as far as the user can tell.
Fail(w) ==
  /\ answer' = IF view[w].kind = "cats" THEN "failed" ELSE answer
  /\ ViewFinish(w)

\* get_next_tasks_for_user: the cached tasks, or the next one of every category.
ReadNextTasks(w) ==
  /\ viewStep[w] = "next"
  /\ \/ /\ tasksCache # None
        /\ IF view[w].kind = "tasks"
             THEN ViewFinish(w)
             ELSE SetView(w, [view[w] EXCEPT !.next = tasksCache]) /\ ViewGoto(w, "count")
        /\ UNCHANGED answer
     \/ /\ tasksCache = None
        /\ \A c \in ListedCats : ~Unreadable(c)
        /\ \E next \in [Cats -> TaskIds \cup {None}] :
             /\ \A c \in Cats :
                  next[c] \in IF c \in ListedCats THEN NextTasks(c) ELSE {None}
             /\ SetView(w, [view[w] EXCEPT !.next = [c \in Cats |->
                  IF c \in ListedCats THEN [has |-> TRUE, task |-> next[c], ts |-> nextTs[c]]
                                      ELSE Missing]])
        /\ ViewGoto(w, "write")
        /\ UNCHANGED answer
     \/ /\ tasksCache = None
        /\ \E c \in ListedCats : Unreadable(c)
        /\ Fail(w)
  /\ UNCHANGED <<viewDay, tables, progress, caches, marked, edits>>

\* write_json_to_cache, for 30 minutes.
WriteTasksCache(w) ==
  /\ viewStep[w] = "write"
  /\ tasksCache' = view[w].next
  /\ IF view[w].kind = "tasks" THEN ViewFinish(w) ELSE ViewGoto(w, "count") /\ UNCHANGED view
  /\ UNCHANGED <<viewDay, tables, progress, catsCache, histories, edits>>

\* count_immediate_tasks.  A category the tasks have no entry for raises.
CountImmediate(w) ==
  /\ viewStep[w] = "count"
  /\ IF \E c \in view[w].cats : ~view[w].next[c].has
       THEN Fail(w)
       ELSE /\ UNCHANGED answer
            /\ IF view[w].kind = "one"
                 THEN ViewFinish(w)
                 ELSE ViewGoto(w, "keep") /\ UNCHANGED view
  /\ UNCHANGED <<viewDay, tables, progress, caches, marked, edits>>

\* The counts go to the cache, and to the user.  The task behind each count is
\* kept in place of the number.
KeepCounts(w) ==
  /\ viewStep[w] = "keep"
  /\ catsCache' = [c \in Cats |->
       IF c \in view[w].cats /\ Counted(view[w].next[c]) THEN view[w].next[c] ELSE Missing]
  /\ answer' = "served"
  /\ ViewFinish(w)
  /\ UNCHANGED <<viewDay, tables, progress, tasksCache, marked, edits>>

-----------------------------------------------------------------------------
(* POST /user/task/results, as far as it moves the user on. *)

\* The request was authorised; it is not premature.
SubmitResults(w, t) ==
  /\ viewStep[w] = "idle"
  /\ t \in InTable \ solved
  /\ nextTs[task2[t].cat] <= viewDay
  /\ SetView(w, [NoView EXCEPT !.task = t])
  /\ ViewGoto(w, "clear")
  /\ UNCHANGED <<viewDay, tables, progress, caches, histories, edits>>

\* delete_from_cache, for the categories,
ClearCatsCacheBroken(w) ==
  /\ viewStep[w] = "clear"
  /\ ViewGoto(w, "cleartasks")
  /\ UNCHANGED <<viewDay, tables, progress, caches, view, histories, edits>>

ClearCatsCache(w) ==
  /\ viewStep[w] = "clear"
  /\ catsCache' = None
  /\ ViewGoto(w, "cleartasks")
  /\ UNCHANGED <<viewDay, tables, progress, tasksCache, view, histories, edits>>

\* and then delete_pattern, for the tasks.
ClearTasksCache(w) ==
  /\ viewStep[w] = "cleartasks"
  /\ tasksCache' = None
  /\ ViewGoto(w, "store")
  /\ UNCHANGED <<viewDay, tables, progress, catsCache, view, histories, edits>>

\* store_task_results up to completed_tasks_dict.  A task that has been deleted
\* in the meantime raises after its results were stored.
StoreResults(w) ==
  /\ viewStep[w] = "store"
  /\ IF view[w].task \in InTable
       THEN solved' = solved \cup {view[w].task} /\ ViewGoto(w, "delay") /\ UNCHANGED view
       ELSE ViewFinish(w) /\ UNCHANGED solved
  /\ UNCHANGED <<viewDay, tables, nextTs, caches, histories, edits>>

\* get_next_task_delay_days, without the cache: when there is no next task, or it
\* cannot be read, no delay.  Then store_next_task_results_ts.
StoreDelay(w) ==
  /\ viewStep[w] = "delay"
  /\ IF view[w].task \notin InTable
       THEN UNCHANGED nextTs
       ELSE LET c == task2[view[w].task].cat IN
            \E t \in NextTasks(c) :
              nextTs' = [nextTs EXCEPT ![c] =
                IF t = None \/ Unreadable(c) THEN viewDay ELSE viewDay + task2[t].delay]
  /\ ViewFinish(w)
  /\ UNCHANGED <<viewDay, tables, solved, caches, histories, edits>>

-----------------------------------------------------------------------------
(* Operators' requests. *)

Edit == edits < MaxEdits /\ edits' = edits + 1

\* add_task up to the insertion; url tests and the like may take seconds.  With
\* the overwrite flag neither an existing id nor a taken position matters; an
\* existing id sets delete_prior_to_adding.
CheckTask(w, t, r, overwrite) ==
  /\ viewStep[w] = "idle" /\ Edit
  /\ overwrite \/ task2[t] = None
  /\ \/ overwrite \/ r.pos = AdHoc
     \/ \A u \in InTable : task2[u].cat # r.cat \/ task2[u].pos # r.pos
  /\ SetView(w, [NoView EXCEPT !.kind = IF t \in InTable THEN "overwrite" ELSE "add",
                               !.task = t, !.row = r])
  /\ ViewGoto(w, "insert")
  /\ UNCHANGED <<viewDay, tables, progress, caches, histories>>

\* One commit.  It fails for a category that does not exist, for a row to be deleted
\* that is gone by now, and for an id that is taken by now (the primary key is the id
\* and the type; the tasks here are of one type).
InsertTask(w) ==
  LET t == view[w].task IN
  /\ viewStep[w] = "insert"
  /\ task2' = IF view[w].row.cat \in ListedCats /\ (view[w].kind = "overwrite" <=> t \in InTable)
                THEN [task2 EXCEPT ![t] = view[w].row] ELSE task2
  /\ ViewFinish(w)
  /\ UNCHANGED <<viewDay, support, oldTasks, progress, caches, histories, edits>>

DeleteTask(t) ==
  /\ Edit /\ t \in InTable
  /\ task2' = [task2 EXCEPT ![t] = None]
  /\ UNCHANGED <<viewDay, support, oldTasks, progress, caches, viewStep, view, histories>>

\* set_delay_days, on all the tasks.
SetDelayDays(d) ==
  /\ Edit
  /\ task2' = [t \in TaskIds |-> IF t \in InTable THEN [task2[t] EXCEPT !.delay = d] ELSE None]
  /\ UNCHANGED <<viewDay, support, oldTasks, progress, caches, viewStep, view, histories>>

\* add_category, new or overwritten.
AddCategory(c, s) ==
  /\ Edit /\ support[c] # s
  /\ support' = [support EXCEPT ![c] = s]
  /\ UNCHANGED <<viewDay, task2, oldTasks, progress, caches, viewStep, view, histories>>

\* add_task_to_completed_tasks.  The caches are left as they are.
MarkCompleted(t) ==
  /\ Edit /\ t \in InTable
  /\ solved' = solved \cup {t} /\ marked' = marked \cup {t}
  /\ UNCHANGED <<viewDay, tables, nextTs, caches, viewStep, view, answer>>

\* remove_task_from_completed_tasks.
UnmarkCompleted(t) ==
  /\ Edit /\ t \in InTable \cap solved
  /\ solved' = solved \ {t}
  /\ UNCHANGED <<viewDay, tables, nextTs, caches, viewStep, view, histories>>

\* switch_task_ids looks for the ids in task2 and changes table task.
SwitchTaskIds(t, u) ==
  /\ Edit /\ {t, u} \subseteq InTable
  /\ oldTasks' = {CASE x = t -> u [] x = u -> t [] OTHER -> x : x \in oldTasks}
  /\ UNCHANGED <<viewDay, task2, support, progress, caches, viewStep, view, histories>>

\* task20_migrate_task: whatever is at the position already.
MigrateTask(t) ==
  /\ Edit /\ t \in oldTasks \ InTable
  /\ Plan[t].cat \in ListedCats
  /\ task2' = [task2 EXCEPT ![t] = PlannedRow(t, FALSE)]
  /\ UNCHANGED <<viewDay, support, oldTasks, progress, caches, viewStep, view, histories>>

-----------------------------------------------------------------------------

\* Written without a time to live.
TasksCacheExpiresBroken == FALSE /\ UNCHANGED catalogueVars

TasksCacheExpires ==
  /\ tasksCache # None /\ tasksCache' = None
  /\ UNCHANGED <<viewDay, tables, progress, catsCache, viewStep, view, histories, edits>>

CatsCacheExpires ==
  /\ catsCache # None /\ catsCache' = None
  /\ UNCHANGED <<viewDay, tables, progress, tasksCache, viewStep, view, histories, edits>>

NextDay ==
  /\ viewDay < LastDay /\ viewDay' = viewDay + 1
  /\ UNCHANGED <<tables, progress, caches, viewStep, view, histories, edits>>

ViewDies(w) ==
  /\ Faulty /\ viewStep[w] # "idle"
  /\ ViewFinish(w)
  /\ UNCHANGED <<viewDay, tables, progress, caches, histories, edits>>

ViewWork(w) ==
  \/ ListCategories(w) \/ ReadNextTasks(w) \/ WriteTasksCache(w) \/ CountImmediate(w)
  \/ KeepCounts(w) \/ ClearCatsCache(w) \/ ClearTasksCache(w) \/ StoreResults(w)
  \/ StoreDelay(w) \/ InsertTask(w)

CatalogueNext ==
  \/ ServeCategories
  \/ \E w \in Workers :
       \/ BeginCategories(w) \/ BeginTasks(w) \/ ViewWork(w) \/ ViewDies(w)
       \/ \E t \in TaskIds : SubmitResults(w, t)
       \/ \E t \in TaskIds, r \in NewRows, overwrite \in BOOLEAN : CheckTask(w, t, r, overwrite)
  \/ \E t \in TaskIds :
       DeleteTask(t) \/ MarkCompleted(t) \/ UnmarkCompleted(t) \/ MigrateTask(t)
  \/ \E d \in {0, 1} : SetDelayDays(d)
  \/ \E c \in Cats, s \in {"here", "elsewhere"} : AddCategory(c, s)
  \/ \E t \in TaskIds, u \in TaskIds : t # u /\ SwitchTaskIds(t, u)
  \/ TasksCacheExpires \/ CatsCacheExpires \/ NextDay

CatalogueSpec == CatalogueInit /\ [][CatalogueNext]_catalogueVars

-----------------------------------------------------------------------------
(* Properties. *)

\* The list of categories never counts a task the user has solved since, unless an
\* operator entered it: the counts come from one cache and go to another, and a
\* submission clears both; with one request at a time.
CountedTaskOpen ==
  catsCache # None => \A c \in Cats : catsCache[c].task \notin solved \ marked

\* A request for the categories may fail, because the cached tasks know nothing of
\* a category that is new.  The user gets the list again, without anybody's help,
\* unless a migrated task with no list of countries comes up.
CategoriesServedAgain ==
  answer = "failed" ~> (answer = "served" \/ \E c \in ListedCats : Unreadable(c))
=============================================================================
