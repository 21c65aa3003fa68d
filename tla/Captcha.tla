-------------------------------- MODULE Captcha --------------------------------
(***************************************************************************)
(* The captcha of one Android user with a recent client.  A flag is -1     *)
(* (none needed), 0 (raised) or 1 (to be solved now).  A task is served    *)
(* with the question whether to show a captcha; submitting its results     *)
(* checks and lowers the flag, and after that promotes or raises it.       *)
(***************************************************************************)
EXTENDS Threads, Integers

CONSTANTS
  Categories,  \* the user holds at most one task of each
  Modulo,      \* config.CAPTCHA_TASK_MODULO
  Cooldown,    \* config.CAPTCHA_SAFETY_COOLDOWN_SECS
  MaxClock     \* bound: the last instant of a behaviour

ASSUME CaptchaAssumption ==
  /\ Modulo \in Nat \ {0} /\ Cooldown \in Nat /\ MaxClock \in Nat
  /\ None \notin Categories /\ None \notin Int

VARIABLES
  clock,
  flag,       \* user_app_data.should_solve_captcha_ternary
  solvedAt,   \* the last date in user_app_data.captcha_history, or None
  solvedCount,\* completed tasks, modulo Modulo
  held,       \* client: the task of each category, and whether it shows a captcha
  subStep, sub,  \* where each submission stands, and its local variables
  manual      \* history: an operator has set the flag since it was last 0 or -1

captchaVars == <<clock, flag, solvedAt, solvedCount, held, subStep, sub, manual>>

Flags == {-1, 0, 1}
Clock == 0 .. MaxClock
SubSteps == {"idle", "check", "solved", "store", "switch", "raise", "set"}

\* cat: the category of the task; shown: whether a captcha came with the results.
Sub == [cat : Categories \cup {None}, shown : BOOLEAN]
NoSub == [cat |-> None, shown |-> FALSE]

CaptchaTypeOK ==
  /\ clock \in Clock
  /\ flag \in Flags
  /\ solvedAt \in Clock \cup {None}
  /\ solvedCount \in 0 .. Modulo - 1
  /\ held \in [Categories -> {"none", "plain", "captcha"}]
  /\ subStep \in [Workers -> SubSteps]
  /\ sub \in [Workers -> Sub]
  /\ manual \in BOOLEAN

CaptchaInit ==
  /\ clock = 0
  /\ flag = -1 /\ manual = FALSE
  /\ solvedAt = None
  /\ solvedCount = 0
  /\ held = [c \in Categories |-> "none"]
  /\ subStep = [w \in Workers |-> "idle"]
  /\ sub = [w \in Workers |-> NoSub]

-----------------------------------------------------------------------------
(* Operators named ...Broken are the code with one plausible mistake in it; *)
(* no action uses them.  They show that a property notices the mistake.      *)

SubGoto(w, step) == subStep' = [subStep EXCEPT ![w] = step]
SubFinish(w) == SubGoto(w, "idle") /\ sub' = [sub EXCEPT ![w] = NoSub]

\* should_pass_captcha.
MustPass == flag > 0

\* get_next_task_internal, for one category.
ServeTask(c) ==
  /\ held[c] = "none"
  /\ held' = [held EXCEPT ![c] = IF MustPass THEN "captcha" ELSE "plain"]
  /\ UNCHANGED <<clock, flag, solvedAt, solvedCount, subStep, sub, manual>>

-----------------------------------------------------------------------------
(* POST /user/task/results, as far as captchas are concerned. *)

\* A client that was shown a captcha sends its token along.
SubmitTask(w, c) ==
  /\ subStep[w] = "idle" /\ held[c] # "none"
  /\ SubGoto(w, "check")
  /\ sub' = [sub EXCEPT ![w] = [cat |-> c, shown |-> held[c] = "captcha"]]
  /\ UNCHANGED <<clock, flag, solvedAt, solvedCount, held, manual>>

\* What passed_captcha may say: without a token no, else what Google answers.
PassedCaptcha(w) == IF sub[w].shown THEN Answered ELSE {FALSE}

\* check_captcha.  A refused client asks for its task again.
CheckCaptcha(w) ==
  /\ subStep[w] = "check"
  /\ \/ /\ ~MustPass
        /\ SubGoto(w, "store") /\ UNCHANGED <<sub, held>>
     \/ /\ MustPass /\ TRUE \in PassedCaptcha(w)
        /\ SubGoto(w, "solved") /\ UNCHANGED <<sub, held>>
     \/ /\ MustPass /\ FALSE \in PassedCaptcha(w)
        /\ held' = [held EXCEPT ![sub[w].cat] = "none"]
        /\ SubFinish(w)
  /\ UNCHANGED <<clock, flag, solvedAt, solvedCount, manual>>

\* captcha_solved.
CaptchaSolvedBroken(w) ==
  /\ subStep[w] = "solved"
  /\ solvedAt' = IF flag < 1 THEN solvedAt ELSE clock
  /\ SubGoto(w, "store")
  /\ UNCHANGED <<clock, flag, manual, solvedCount, held, sub>>

CaptchaSolved(w) ==
  /\ subStep[w] = "solved"
  /\ IF flag < 1
       THEN UNCHANGED <<flag, solvedAt, manual>>
       ELSE flag' = -1 /\ solvedAt' = clock /\ manual' = FALSE
  /\ SubGoto(w, "store")
  /\ UNCHANGED <<clock, solvedCount, held, sub>>

\* store_task_results.  A submission that does not get the payment lock ends here.
StoreSubmission(w) ==
  /\ subStep[w] = "store"
  /\ solvedCount' = (solvedCount + 1) % Modulo
  /\ held' = [held EXCEPT ![sub[w].cat] = "none"]
  /\ \/ SubGoto(w, "switch") /\ UNCHANGED sub
     \/ Faulty /\ SubFinish(w)
  /\ UNCHANGED <<clock, flag, solvedAt, manual>>

\* autoswitch_captcha, one statement.
AutoSwitchBroken(w) ==
  /\ subStep[w] = "switch"
  /\ flag' = IF flag = -1 THEN flag ELSE flag + 1
  /\ SubGoto(w, "raise")
  /\ UNCHANGED <<clock, solvedAt, solvedCount, held, sub, manual>>

AutoSwitch(w) ==
  /\ subStep[w] = "switch"
  /\ flag' = IF flag = 0 THEN 1 ELSE flag
  /\ SubGoto(w, "raise")
  /\ UNCHANGED <<clock, solvedAt, solvedCount, held, sub, manual>>

CooledDown == solvedAt = None \/ clock - solvedAt > Cooldown

\* automatically_raise_captcha_flag reads the row,
DecideRaiseBroken(w) ==
  /\ subStep[w] = "raise"
  /\ IF flag = -1 /\ solvedCount = 0
       THEN SubGoto(w, "set") /\ UNCHANGED sub
       ELSE SubFinish(w)
  /\ UNCHANGED <<clock, flag, solvedAt, solvedCount, held, manual>>

DecideRaise(w) ==
  /\ subStep[w] = "raise"
  /\ IF flag = -1 /\ solvedCount = 0 /\ CooledDown
       THEN SubGoto(w, "set") /\ UNCHANGED sub
       ELSE SubFinish(w)
  /\ UNCHANGED <<clock, flag, solvedAt, solvedCount, held, manual>>

\* and writes it.
RaiseFlag(w) ==
  /\ subStep[w] = "set"
  /\ flag' = 0
  /\ SubFinish(w)
  /\ UNCHANGED <<clock, solvedAt, solvedCount, held, manual>>

-----------------------------------------------------------------------------
(* What happens beside the submissions. *)

\* user_set_captcha_endpoint.
SetCaptcha(v) ==
  /\ flag # v
  /\ flag' = v /\ manual' = TRUE
  /\ UNCHANGED <<clock, solvedAt, solvedCount, held, subStep, sub>>

SecondsPass ==
  /\ clock < MaxClock
  /\ clock' = clock + 1
  /\ UNCHANGED <<flag, solvedAt, solvedCount, held, subStep, sub, manual>>

SubmissionDies(w) ==
  /\ Faulty /\ subStep[w] # "idle"
  /\ SubFinish(w)
  /\ UNCHANGED <<clock, flag, solvedAt, solvedCount, held, manual>>

SubmissionWork(w) ==
  \/ CheckCaptcha(w) \/ CaptchaSolved(w) \/ StoreSubmission(w) \/ AutoSwitch(w)
  \/ DecideRaise(w) \/ RaiseFlag(w)

CaptchaNext ==
  \/ \E w \in Workers :
       \/ \E c \in Categories : SubmitTask(w, c)
       \/ SubmissionWork(w) \/ SubmissionDies(w)
  \/ \E c \in Categories : ServeTask(c)
  \/ \E v \in {0, 1} : SetCaptcha(v)
  \/ SecondsPass

CaptchaSpec == CaptchaInit /\ [][CaptchaNext]_captchaVars

-----------------------------------------------------------------------------
(* Properties. *)

\* Captchas come "never twice in the same <configurable time>": between one solved
\* captcha and the next the cooldown goes by, unless an operator set the flag; with
\* one submission at a time.
CaptchaNotTwiceSoon ==
  [][solvedAt # None /\ solvedAt' # solvedAt /\ ~manual => clock - solvedAt > Cooldown]_captchaVars

\* A user who has to solve a captcha gets past it, also when the task in hand was
\* served without one: no user is refused for ever.
CaptchaGetsSolved == flag = 1 ~> flag # 1
=============================================================================
