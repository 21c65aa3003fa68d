---------------------------- MODULE ServicesProofs ----------------------------
(***************************************************************************)
(* Theorems about authentication by push, captchas, the task catalogue and *)
(* the pool of channels, for every set of workers, users and tasks; and    *)
(* about the smaller services together, as module MCServices puts them.    *)
(***************************************************************************)
EXTENDS MCServices, AccountsProofs, GiftCardsProofs, OfferLimitProofs

-----------------------------------------------------------------------------
(* PushAuth. *)

\* One request moves on, with local variables that have their types.
LEMMA RequestTypes ==
  ASSUME PushAuthTypeOK, NEW w \in Workers, NEW step \in CallSteps, NEW c \in Call
  PROVE  /\ [callStep EXCEPT ![w] = step] \in [Workers -> CallSteps]
         /\ [call EXCEPT ![w] = c] \in [Workers -> Call]
BY DEF PushAuthTypeOK

\* The token a request starts with.
LEMMA NoCallType == NoCall \in Call
BY PushAuthAssumption DEF NoCall, Call, Tokens

\* Both ages the scan of cron compares are that of send_date, which cannot be due
\* and old at once: it de-authenticates nobody.
LEMMA ScanFindsNobody == ~Unacknowledged(sendAge)
BY DEF Unacknowledged

-----------------------------------------------------------------------------

\* The columns, the lock, the pushes and the requests keep their types.
THEOREM PushAuthTypeCorrect == PushAuthSpec => []PushAuthTypeOK
<1>1. PushAuthInit => PushAuthTypeOK
  <2> SUFFICES ASSUME PushAuthInit PROVE PushAuthTypeOK
    OBVIOUS
  <2>1. callStep \in [Workers -> CallSteps] /\ call \in [Workers -> Call]
    BY NoCallType DEF PushAuthInit, CallSteps
  <2>2. token \in Tokens
    BY PushAuthAssumption DEF PushAuthInit, Tokens
  <2> QED
    BY <2>1, <2>2 DEF PushAuthInit, PushAuthTypeOK
<1>2. PushAuthTypeOK /\ [PushAuthNext]_pushVars => PushAuthTypeOK'
  <2> SUFFICES ASSUME PushAuthTypeOK, [PushAuthNext]_pushVars PROVE PushAuthTypeOK'
    OBVIOUS
  <2> USE DEF PushAuthTypeOK, rowVars
  <2>1. ASSUME NEW w \in Workers, CallFinish(w)
        PROVE  /\ callStep' \in [Workers -> CallSteps]
               /\ call' \in [Workers -> Call]
               /\ updating' \in BOOLEAN
    BY <2>1, NoCallType, PushAuthAssumption DEF CallFinish, CallGoto, CallSteps
  <2>2. ASSUME NEW w \in Workers, NEW step \in CallSteps, CallGoto(w, step)
        PROVE  callStep' \in [Workers -> CallSteps]
    BY <2>2 DEF CallGoto
  <2>3. \A a \in Ages : Older[a] \in Ages
    BY DEF Ages, Older
  <2>4. "idle" \in CallSteps /\ SendSteps \subseteq CallSteps /\ AckSteps \subseteq CallSteps
    BY DEF CallSteps
  <2>5. \A w \in Workers : call[w].token \in Tokens /\ \A t \in Tokens : 
          /\ [call[w] EXCEPT !.token = t] \in Call
          /\ [NoCall EXCEPT !.token = t] \in Call
    BY NoCallType DEF Call
  <2>6. [NoCall EXCEPT !.locked = TRUE] \in Call
    BY NoCallType DEF Call
  <2>7. ASSUME NEW w \in Workers, Launch(w) PROVE PushAuthTypeOK'
    BY <2>7, NoCallType, RequestTypes, <2>4 DEF Launch, CallStart, CallGoto, SendSteps
  <2>8. ASSUME NEW w \in Workers, UpdatePushToken(w) PROVE PushAuthTypeOK'
    BY <2>8, <2>6, RequestTypes, <2>4 DEF UpdatePushToken, CallStart, CallGoto, SendSteps
  <2>9. ASSUME NEW w \in Workers, ForceSend(w) PROVE PushAuthTypeOK'
    BY <2>9, NoCallType, RequestTypes, <2>4 DEF ForceSend, CallStart, CallGoto, SendSteps
  <2>10. ASSUME NEW w \in Workers, NEW t \in Tokens, AppAcks(w, t) PROVE PushAuthTypeOK'
    BY <2>10, <2>5, RequestTypes, <2>4 DEF AppAcks, CallStart, CallGoto, AckSteps
  <2>11. ASSUME NEW w \in Workers, ShouldSend(w) PROVE PushAuthTypeOK'
    BY <2>11, <2>1, <2>2, <2>4 DEF ShouldSend, SendSteps
  <2>12. ASSUME NEW w \in Workers, RefreshAuthToken(w) PROVE PushAuthTypeOK'
    BY <2>12, <2>2, <2>4, PushAuthAssumption DEF RefreshAuthToken, SendSteps, Tokens
  <2>13. ASSUME NEW w \in Workers, ReadToken(w) PROVE PushAuthTypeOK'
    BY <2>13, <2>1, <2>2, <2>4, <2>5 DEF ReadToken, SendSteps
  <2>14. ASSUME NEW w \in Workers, Push(w) PROVE PushAuthTypeOK'
    BY <2>14, <2>2, <2>4, <2>5 DEF Push, SendPush, SendSteps
  <2>15. ASSUME NEW w \in Workers, SetSendDate(w) PROVE PushAuthTypeOK'
    BY <2>15, <2>1 DEF SetSendDate, Ages
  <2>16. ASSUME NEW w \in Workers, CompareToken(w) PROVE PushAuthTypeOK'
    BY <2>16, <2>1, <2>2, <2>4 DEF CompareToken, AckSteps
  <2>17. ASSUME NEW w \in Workers, SetAckDate(w) PROVE PushAuthTypeOK'
    BY <2>17, <2>1 DEF SetAckDate
  <2>18. ASSUME NEW w \in Workers, CallDies(w) PROVE PushAuthTypeOK'
    BY <2>18, NoCallType, <2>2, <2>4 DEF CallDies
  <2>19. ASSUME NEW t \in Tokens, PushLost(t) PROVE PushAuthTypeOK'
    BY <2>19 DEF PushLost
  <2>20. CASE ScanForDeauthed
    BY <2>20 DEF ScanForDeauthed
  <2>21. CASE TimePasses
    BY <2>21, <2>3 DEF TimePasses
  <2>22. CASE UNCHANGED pushVars
    BY <2>22 DEF pushVars
  <2> QED
    BY <2>7, <2>8, <2>9, <2>10, <2>11, <2>12, <2>13, <2>14, <2>15, <2>16, <2>17, <2>18,
       <2>19, <2>20, <2>21, <2>22 DEF PushAuthNext, CallWork
<1> QED
  BY <1>1, <1>2, PTL DEF PushAuthSpec

-----------------------------------------------------------------------------

\* Whoever is about to generate the token anew has seen the user authenticated,
\* and a user who is authenticated stays it.
NoRefreshBefore == ~authenticated => \A w \in Workers : callStep[w] # "refresh"

\* However requests interleave and whatever is lost, while the user is not
\* authenticated the app is only sent the token that is in the table.
THEOREM PushesStayValid == PushAuthSpec => []PushedTokenValid
<1>1. PushAuthInit => PushedTokenValid /\ NoRefreshBefore
  BY DEF PushAuthInit, PushedTokenValid, NoRefreshBefore
<1>2. PushAuthTypeOK /\ PushedTokenValid /\ NoRefreshBefore /\ [PushAuthNext]_pushVars
        => (PushedTokenValid /\ NoRefreshBefore)'
  <2> SUFFICES ASSUME PushAuthTypeOK, PushedTokenValid, NoRefreshBefore,
                      [PushAuthNext]_pushVars
               PROVE  (PushedTokenValid /\ NoRefreshBefore)'
    OBVIOUS
  <2> USE DEF PushedTokenValid, NoRefreshBefore, rowVars, CallGoto
  <2> USE DEF PushAuthTypeOK
  <2>1. ASSUME NEW w \in Workers, Launch(w) PROVE (PushedTokenValid /\ NoRefreshBefore)'
    BY <2>1 DEF Launch, CallStart
  <2>2. ASSUME NEW w \in Workers, UpdatePushToken(w)
        PROVE  (PushedTokenValid /\ NoRefreshBefore)'
    BY <2>2 DEF UpdatePushToken, CallStart
  <2>3. ASSUME NEW w \in Workers, ForceSend(w) PROVE (PushedTokenValid /\ NoRefreshBefore)'
    BY <2>3 DEF ForceSend, CallStart
  <2>4. ASSUME NEW w \in Workers, NEW t \in Tokens, AppAcks(w, t)
        PROVE  (PushedTokenValid /\ NoRefreshBefore)'
    BY <2>4 DEF AppAcks, CallStart
  <2>5. ASSUME NEW w \in Workers, ShouldSend(w) PROVE (PushedTokenValid /\ NoRefreshBefore)'
    BY <2>5 DEF ShouldSend, CallFinish
  <2>6. ASSUME NEW w \in Workers, RefreshAuthToken(w)
        PROVE  (PushedTokenValid /\ NoRefreshBefore)'
    BY <2>6 DEF RefreshAuthToken
  <2>7. ASSUME NEW w \in Workers, ReadToken(w) PROVE (PushedTokenValid /\ NoRefreshBefore)'
    BY <2>7 DEF ReadToken, CallFinish, Call
  <2>8. ASSUME NEW w \in Workers, Push(w) PROVE (PushedTokenValid /\ NoRefreshBefore)'
    BY <2>8 DEF Push, SendPush
  <2>9. ASSUME NEW w \in Workers, SetSendDate(w) PROVE (PushedTokenValid /\ NoRefreshBefore)'
    BY <2>9 DEF SetSendDate, CallFinish
  <2>10. ASSUME NEW w \in Workers, CompareToken(w)
         PROVE  (PushedTokenValid /\ NoRefreshBefore)'
    BY <2>10 DEF CompareToken, CallFinish
  <2>11. ASSUME NEW w \in Workers, SetAckDate(w) PROVE (PushedTokenValid /\ NoRefreshBefore)'
    BY <2>11 DEF SetAckDate
  <2>12. ASSUME NEW w \in Workers, CallDies(w) PROVE (PushedTokenValid /\ NoRefreshBefore)'
    BY <2>12 DEF CallDies
  <2>13. ASSUME NEW t \in Tokens, PushLost(t) PROVE (PushedTokenValid /\ NoRefreshBefore)'
    BY <2>13 DEF PushLost
  <2>14. CASE ScanForDeauthed
    BY <2>14, ScanFindsNobody DEF ScanForDeauthed
  <2>15. CASE TimePasses
    BY <2>15 DEF TimePasses
  <2>16. CASE UNCHANGED pushVars
    BY <2>16 DEF pushVars
  <2> QED
    BY <2>1, <2>2, <2>3, <2>4, <2>5, <2>6, <2>7, <2>8, <2>9, <2>10, <2>11, <2>12, <2>13,
       <2>14, <2>15, <2>16 DEF PushAuthNext, CallWork
<1> QED
  BY <1>1, <1>2, PushAuthTypeCorrect, PTL DEF PushAuthSpec

-----------------------------------------------------------------------------
(* Captcha. *)

\* The local variables of a submission.
LEMMA SubTypes ==
  /\ NoSub \in Sub
  /\ \A c \in Categories, b \in BOOLEAN : [cat |-> c, shown |-> b] \in Sub
BY DEF NoSub, Sub

\* The variables of the captcha keep their types: the flag is -1, 0 or 1 whatever
\* submissions, operators and deaths of threads come together.
THEOREM CaptchaTypeCorrect == CaptchaSpec => []CaptchaTypeOK
<1>1. CaptchaInit => CaptchaTypeOK
  <2>1. 0 \in 0 .. MaxClock /\ 0 \in 0 .. Modulo - 1
    BY CaptchaAssumption
  <2>2. QED
    BY <2>1, SubTypes DEF CaptchaInit, CaptchaTypeOK, Flags, Clock, SubSteps
<1>2. CaptchaTypeOK /\ [CaptchaNext]_captchaVars => CaptchaTypeOK'
  <2> SUFFICES ASSUME CaptchaTypeOK, [CaptchaNext]_captchaVars
               PROVE  CaptchaTypeOK'
    OBVIOUS
  <2> USE DEF CaptchaTypeOK, SubGoto, SubFinish, SubSteps, Flags, Clock
  <2>1. ASSUME NEW w \in Workers, NEW c \in Categories, SubmitTask(w, c) PROVE CaptchaTypeOK'
    <3>1. (held[c] = "captcha") \in BOOLEAN
      OBVIOUS
    <3>2. [cat |-> c, shown |-> held[c] = "captcha"] \in Sub
      BY <3>1, SubTypes
    <3>3. QED
      BY <2>1, <3>2 DEF SubmitTask
  <2>2. ASSUME NEW w \in Workers, CheckCaptcha(w) PROVE CaptchaTypeOK'
    BY <2>2, SubTypes DEF CheckCaptcha
  <2>3. ASSUME NEW w \in Workers, CaptchaSolved(w) PROVE CaptchaTypeOK'
    BY <2>3 DEF CaptchaSolved
  <2>4. ASSUME NEW w \in Workers, StoreSubmission(w) PROVE CaptchaTypeOK'
    <3>1. (solvedCount + 1) % Modulo \in 0 .. Modulo - 1
      BY CaptchaAssumption
    <3>2. QED
      BY <2>4, <3>1, SubTypes DEF StoreSubmission
  <2>5. ASSUME NEW w \in Workers, AutoSwitch(w) PROVE CaptchaTypeOK'
    BY <2>5 DEF AutoSwitch
  <2>6. ASSUME NEW w \in Workers, DecideRaise(w) PROVE CaptchaTypeOK'
    BY <2>6, SubTypes DEF DecideRaise
  <2>7. ASSUME NEW w \in Workers, RaiseFlag(w) PROVE CaptchaTypeOK'
    BY <2>7, SubTypes DEF RaiseFlag
  <2>8. ASSUME NEW w \in Workers, SubmissionDies(w) PROVE CaptchaTypeOK'
    BY <2>8, SubTypes DEF SubmissionDies
  <2>9. ASSUME NEW c \in Categories, ServeTask(c) PROVE CaptchaTypeOK'
    BY <2>9 DEF ServeTask
  <2>10. ASSUME NEW v \in {0, 1}, SetCaptcha(v) PROVE CaptchaTypeOK'
    BY <2>10 DEF SetCaptcha
  <2>11. CASE SecondsPass
    BY <2>11, CaptchaAssumption DEF SecondsPass
  <2>12. CASE UNCHANGED captchaVars
    BY <2>12 DEF captchaVars
  <2>13. QED
    BY <2>1, <2>2, <2>3, <2>4, <2>5, <2>6, <2>7, <2>8, <2>9, <2>10, <2>11, <2>12
      DEF CaptchaNext, SubmissionWork
<1>3. QED
  BY <1>1, <1>2, PTL DEF CaptchaSpec

\* The cooldown has gone by when a flag is up that no operator has set; and when a
\* submission has decided to raise it.
Cooled == solvedAt # None => clock - solvedAt > Cooldown
CooledInv ==
  /\ flag # -1 /\ ~manual => Cooled
  /\ \A w \in Workers : subStep[w] = "set" /\ ~manual => Cooled

\* One submission at a time.
OneSubmission == \A v, w \in Workers : v = w

\* A step keeps that.
LEMMA CooledStep ==
  ASSUME OneSubmission, CaptchaTypeOK, CooledInv, [CaptchaNext]_captchaVars
  PROVE  CooledInv'
<1> USE DEF CooledInv, Cooled, SubGoto, SubFinish
<1>0. /\ flag \in {-1, 0, 1} /\ clock \in Nat /\ Cooldown \in Nat
      /\ solvedAt # None => solvedAt \in Nat
      /\ subStep \in [Workers -> SubSteps]
  BY CaptchaAssumption DEF CaptchaTypeOK, Flags, Clock
<1>1. ASSUME NEW w \in Workers, NEW c \in Categories, SubmitTask(w, c) PROVE CooledInv'
  BY <1>0, <1>1 DEF SubmitTask
<1>2. ASSUME NEW w \in Workers, CheckCaptcha(w) PROVE CooledInv'
  BY <1>0, <1>2 DEF CheckCaptcha
<1>3. ASSUME NEW w \in Workers, CaptchaSolved(w) PROVE CooledInv'
  BY <1>0, <1>3 DEF CaptchaSolved, OneSubmission
<1>4. ASSUME NEW w \in Workers, StoreSubmission(w) PROVE CooledInv'
  BY <1>0, <1>4 DEF StoreSubmission
<1>5. ASSUME NEW w \in Workers, AutoSwitch(w) PROVE CooledInv'
  BY <1>0, <1>5 DEF AutoSwitch
<1>6. ASSUME NEW w \in Workers, DecideRaise(w) PROVE CooledInv'
  BY <1>0, <1>6 DEF DecideRaise, CooledDown
<1>7. ASSUME NEW w \in Workers, RaiseFlag(w) PROVE CooledInv'
  BY <1>0, <1>7 DEF RaiseFlag
<1>8. ASSUME NEW w \in Workers, SubmissionDies(w) PROVE CooledInv'
  BY <1>0, <1>8 DEF SubmissionDies
<1>9. ASSUME NEW c \in Categories, ServeTask(c) PROVE CooledInv'
  BY <1>0, <1>9 DEF ServeTask
<1>10. ASSUME NEW v \in {0, 1}, SetCaptcha(v) PROVE CooledInv'
  BY <1>0, <1>10 DEF SetCaptcha
<1>11. CASE SecondsPass
  BY <1>0, <1>11 DEF SecondsPass
<1>12. CASE UNCHANGED captchaVars
  BY <1>0, <1>12 DEF captchaVars
<1>13. QED
  BY <1>1, <1>2, <1>3, <1>4, <1>5, <1>6, <1>7, <1>8, <1>9, <1>10, <1>11, <1>12
    DEF CaptchaNext, SubmissionWork

\* With one submission at a time, a captcha is only solved when the cooldown after the
\* one before has gone by, unless an operator asked for it.
THEOREM CaptchasApart ==
  ASSUME OneSubmission
  PROVE  CaptchaSpec => CaptchaNotTwiceSoon
<1>1. CaptchaInit => CooledInv
  BY DEF CaptchaInit, CooledInv
<1>2. CaptchaTypeOK /\ CooledInv /\ [CaptchaNext]_captchaVars => CooledInv'
  BY CooledStep
<1>3. CaptchaTypeOK /\ CooledInv /\ [CaptchaNext]_captchaVars
        => [solvedAt # None /\ solvedAt' # solvedAt /\ ~manual
              => clock - solvedAt > Cooldown]_captchaVars
  <2> SUFFICES ASSUME CaptchaTypeOK, CooledInv, CaptchaNext, solvedAt # None,
                      solvedAt' # solvedAt, ~manual
               PROVE  clock - solvedAt > Cooldown
    OBVIOUS
  <2>1. PICK w \in Workers : CaptchaSolved(w)
    BY DEF CaptchaNext, SubmissionWork, SubmitTask, CheckCaptcha, StoreSubmission,
      AutoSwitch, DecideRaise, RaiseFlag, SubmissionDies, ServeTask, SetCaptcha, SecondsPass
  <2>2. flag # -1
    BY <2>1 DEF CaptchaSolved
  <2>3. QED
    BY <2>2 DEF CooledInv, Cooled
<1>4. QED
  BY <1>1, <1>2, <1>3, CaptchaTypeCorrect, PTL DEF CaptchaSpec, CaptchaNotTwiceSoon

-----------------------------------------------------------------------------
(* Catalogue. *)

\* An entry, a row, and what a request keeps.
LEMMA EntryTypes ==
  /\ Missing \in Entry /\ Missing.task = None
  /\ \A t \in TaskIds \cup {None}, n \in 0 .. LastDay + 1 :
       [has |-> TRUE, task |-> t, ts |-> n] \in Entry
  /\ \A t \in TaskIds, b \in BOOLEAN : PlannedRow(t, b) \in Row
  /\ \A r \in Row, d \in {0, 1} : [r EXCEPT !.delay = d] \in Row
<1>1. Missing \in Entry /\ Missing.task = None
  BY CatalogueAssumption DEF Missing, Entry
<1>2. \A t \in TaskIds \cup {None}, n \in 0 .. LastDay + 1 :
        [has |-> TRUE, task |-> t, ts |-> n] \in Entry
  BY DEF Entry
<1>3. ASSUME NEW t \in TaskIds, NEW b \in BOOLEAN
      PROVE  PlannedRow(t, b) \in Row
  <2>1. Plan[t].cat \in Cats /\ Plan[t].pos \in Positions /\ 0 \in ViewDays
    BY CatalogueAssumption DEF Slots, ViewDays
  <2>2. QED
    BY <2>1 DEF PlannedRow, Row
<1>4. ASSUME NEW r \in Row, NEW d \in {0, 1}
      PROVE  [r EXCEPT !.delay = d] \in Row
  BY DEF Row
<1>5. QED
  BY <1>1, <1>2, <1>3, <1>4

\* The local variables of a request, as they are changed.
LEMMA ViewTypes ==
  /\ NoView \in View /\ NoView.next \in [Cats -> Entry]
  /\ \A x \in View :
       /\ x.cats \subseteq Cats /\ x.next \in [Cats -> Entry] /\ x.task \in TaskIds \cup {None}
       /\ x.row \in Row \cup {None}
       /\ \A k \in {"cats", "tasks"} : [x EXCEPT !.kind = k] \in View
       /\ \A cs \in SUBSET Cats : [x EXCEPT !.cats = cs] \in View
       /\ \A cs \in SUBSET Cats : [x EXCEPT !.kind = "one", !.cats = cs] \in View
       /\ \A t \in TaskIds : [x EXCEPT !.task = t] \in View
       /\ \A t \in TaskIds, r \in Row, k \in {"add", "overwrite"} :
            [x EXCEPT !.kind = k, !.task = t, !.row = r] \in View
       /\ \A f \in [Cats -> Entry] :
            [x EXCEPT !.next = f] \in View /\ [x EXCEPT !.next = f].next = f
<1>1. NoView \in View /\ NoView.next \in [Cats -> Entry]
  BY EntryTypes DEF NoView, View
<1>2. ASSUME NEW x \in View
      PROVE  /\ x.cats \subseteq Cats /\ x.next \in [Cats -> Entry]
             /\ x.task \in TaskIds \cup {None} /\ x.row \in Row \cup {None}
  BY DEF View
<1>3. ASSUME NEW x \in View, NEW k \in {"cats", "tasks"} PROVE [x EXCEPT !.kind = k] \in View
  BY DEF View
<1>4. ASSUME NEW x \in View, NEW cs \in SUBSET Cats
      PROVE  [x EXCEPT !.cats = cs] \in View /\ [x EXCEPT !.kind = "one", !.cats = cs] \in View
  BY DEF View
<1>5. ASSUME NEW x \in View, NEW t \in TaskIds
      PROVE  /\ [x EXCEPT !.task = t] \in View
             /\ \A r \in Row, k \in {"add", "overwrite"} :
                  [x EXCEPT !.kind = k, !.task = t, !.row = r] \in View
  BY DEF View
<1>6. ASSUME NEW x \in View, NEW f \in [Cats -> Entry]
      PROVE  [x EXCEPT !.next = f] \in View /\ [x EXCEPT !.next = f].next = f
  BY DEF View
<1>7. QED
  BY <1>1, <1>2, <1>3, <1>4, <1>5, <1>6

\* A request leaves its own entries of their types.
LEMMA ViewUpdate ==
  ASSUME viewStep \in [Workers -> ViewSteps], view \in [Workers -> View],
         NEW w \in Workers, NEW s \in ViewSteps, NEW v \in View,
         viewStep' = [viewStep EXCEPT ![w] = s], view' = [view EXCEPT ![w] = v]
  PROVE  viewStep' \in [Workers -> ViewSteps] /\ view' \in [Workers -> View]
OBVIOUS

\* What get_next_tasks_for_user finds, without the cache, and keeps.
Found(w) ==
  \E next \in [Cats -> TaskIds \cup {None}] :
    /\ \A c \in Cats : next[c] \in IF c \in ListedCats THEN NextTasks(c) ELSE {None}
    /\ SetView(w, [view[w] EXCEPT !.next = [c \in Cats |->
         IF c \in ListedCats THEN [has |-> TRUE, task |-> next[c], ts |-> nextTs[c]]
                             ELSE Missing]])

\* It is an entry for every category, with no task that is solved.
LEMMA FoundTypes ==
  ASSUME CatalogueTypeOK, NEW w \in Workers, Found(w)
  PROVE  \E f \in [Cats -> Entry] :
           /\ view' = [view EXCEPT ![w] = [view[w] EXCEPT !.next = f]]
           /\ \A c \in Cats : f[c].task \notin solved
<1>1. PICK next \in [Cats -> TaskIds \cup {None}] :
        /\ \A c \in Cats : next[c] \in IF c \in ListedCats THEN NextTasks(c) ELSE {None}
        /\ SetView(w, [view[w] EXCEPT !.next = [c \in Cats |->
             IF c \in ListedCats THEN [has |-> TRUE, task |-> next[c], ts |-> nextTs[c]]
                                 ELSE Missing]])
  BY DEF Found
<1> DEFINE f == [c \in Cats |->
             IF c \in ListedCats THEN [has |-> TRUE, task |-> next[c], ts |-> nextTs[c]]
                                 ELSE Missing]
<1>2. f \in [Cats -> Entry]
  BY EntryTypes DEF CatalogueTypeOK
<1>3. None \notin solved
  BY CatalogueAssumption DEF CatalogueTypeOK
<1>4. ASSUME NEW c \in Cats
      PROVE  f[c].task \notin solved
  <2>1. CASE c \in ListedCats
    <3>1. next[c] \in NextTasks(c) /\ f[c].task = next[c]
      BY <1>1, <2>1
    <3>2. next[c] \notin solved
      BY <1>3, <3>1 DEF NextTasks, FirstOf, Candidates
    <3>3. QED
      BY <3>1, <3>2
  <2>2. CASE c \notin ListedCats
    BY <1>3, <2>2, EntryTypes
  <2>3. QED
    BY <2>1, <2>2
<1>5. view' = [view EXCEPT ![w] = [view[w] EXCEPT !.next = f]]
  BY <1>1 DEF SetView
<1>6. QED
  BY <1>2, <1>4, <1>5

\* The variables of the catalogue keep their types, whatever requests, submissions and
\* operators interleave.
THEOREM CatalogueTypeCorrect == CatalogueSpec => []CatalogueTypeOK
<1>1. CatalogueInit => CatalogueTypeOK
  <2>1. /\ 0 \in ViewDays /\ 0 \in 0 .. LastDay + 1 /\ 0 \in 0 .. MaxEdits
        /\ OldTasks \subseteq TaskIds
    BY CatalogueAssumption DEF ViewDays
  <2>2. \A t \in TaskIds : PlannedRow(t, TRUE) \in Row
    BY EntryTypes
  <2>3. CatalogueInit => task2 \in [TaskIds -> Row \cup {None}]
    BY <2>2 DEF CatalogueInit
  <2>4. NoView \in View
    BY ViewTypes
  <2>5. CatalogueInit => /\ viewStep \in [Workers -> ViewSteps] /\ view \in [Workers -> View]
                        /\ nextTs \in [Cats -> 0 .. LastDay + 1]
                        /\ support \in [Cats -> {"absent", "here", "elsewhere"}]
    BY <2>1, <2>4 DEF CatalogueInit, ViewSteps
  <2>6. QED
    BY <2>1, <2>3, <2>5 DEF CatalogueInit, CatalogueTypeOK
<1>2. CatalogueTypeOK /\ [CatalogueNext]_catalogueVars => CatalogueTypeOK'
  <2> SUFFICES ASSUME CatalogueTypeOK, [CatalogueNext]_catalogueVars
               PROVE  CatalogueTypeOK'
    OBVIOUS
  <2> DEFINE ViewsOK == viewStep \in [Workers -> ViewSteps] /\ view \in [Workers -> View]
  <2>0. ViewsOK /\ \A w \in Workers : view[w] \in View /\ viewStep[w] \in ViewSteps
    BY DEF CatalogueTypeOK
  <2> DEFINE RestOK ==
        /\ viewDay \in ViewDays
        /\ task2 \in [TaskIds -> Row \cup {None}]
        /\ support \in [Cats -> {"absent", "here", "elsewhere"}]
        /\ oldTasks \subseteq TaskIds
        /\ solved \subseteq TaskIds
        /\ nextTs \in [Cats -> 0 .. LastDay + 1]
        /\ tasksCache \in [Cats -> Entry] \cup {None}
        /\ catsCache \in [Cats -> Entry] \cup {None}
        /\ answer \in {"none", "served", "failed"}
        /\ marked \subseteq TaskIds
        /\ edits \in 0 .. MaxEdits
  <2>1. RestOK
    BY DEF CatalogueTypeOK
  <2>2. RestOK' /\ ViewsOK' => CatalogueTypeOK'
    BY DEF CatalogueTypeOK
  <2>3. ASSUME NEW w \in Workers, ViewFinish(w) PROVE ViewsOK'
    BY <2>0, <2>3, ViewTypes, ViewUpdate DEF ViewFinish, ViewGoto, ViewSteps
  <2>4. ASSUME NEW w \in Workers, NEW s \in ViewSteps, ViewGoto(w, s), UNCHANGED view
        PROVE  ViewsOK'
    BY <2>0, <2>4 DEF ViewGoto
  <2>5. ASSUME NEW w \in Workers, NEW s \in ViewSteps, ViewGoto(w, s),
               NEW v \in View, SetView(w, v)
        PROVE  ViewsOK'
    BY <2>0, <2>5, ViewUpdate DEF ViewGoto, SetView
  <2>6. Edit => edits' \in 0 .. MaxEdits
    BY <2>1, CatalogueAssumption DEF Edit
  <2> USE DEF tables, progress, caches, histories
  <2>7. CASE ServeCategories
    BY <2>0, <2>1, <2>2, <2>7 DEF ServeCategories
  <2>8. ASSUME NEW w \in Workers, BeginCategories(w) PROVE CatalogueTypeOK'
    <3>1. [NoView EXCEPT !.kind = "cats"] \in View
      BY ViewTypes
    <3>2. ViewsOK'
      BY <2>5, <2>8, <3>1 DEF BeginCategories, ViewSteps
    <3>3. QED
      BY <2>1, <2>2, <2>8, <3>2 DEF BeginCategories
  <2>9. ASSUME NEW w \in Workers, BeginTasks(w) PROVE CatalogueTypeOK'
    <3>1. [NoView EXCEPT !.kind = "tasks"] \in View
      BY ViewTypes
    <3>2. ASSUME NEW c \in ListedCats PROVE [NoView EXCEPT !.kind = "one", !.cats = {c}] \in View
      <4>1. {c} \in SUBSET Cats
        BY DEF ListedCats
      <4>2. QED
        BY <4>1, ViewTypes
    <3>3. ViewsOK'
      BY <2>5, <2>9, <3>1, <3>2 DEF BeginTasks, ViewSteps
    <3>4. QED
      BY <2>1, <2>2, <2>9, <3>3 DEF BeginTasks
  <2>10. ASSUME NEW w \in Workers, ListCategories(w) PROVE CatalogueTypeOK'
    <3> DEFINE cs == {c \in Cats : support[c] = "here"}
    <3>1. cs \in SUBSET Cats
      OBVIOUS
    <3>2. ViewGoto(w, "next") /\ SetView(w, [view[w] EXCEPT !.cats = cs])
      BY <2>10 DEF ListCategories
    <3> HIDE DEF cs
    <3>3. [view[w] EXCEPT !.cats = cs] \in View
      BY <2>0, <3>1, ViewTypes
    <3>4. ViewsOK'
      BY <2>5, <3>2, <3>3 DEF ViewSteps
    <3>5. QED
      BY <2>1, <2>2, <2>10, <3>4 DEF ListCategories
  <2>11. ASSUME NEW w \in Workers, ReadNextTasks(w) PROVE CatalogueTypeOK'
    <3>1. RestOK'
      BY <2>1, <2>11 DEF ReadNextTasks, Fail
    <3>2. CASE ViewFinish(w)
      BY <2>2, <2>3, <3>1, <3>2
    <3>3. CASE tasksCache # None /\ SetView(w, [view[w] EXCEPT !.next = tasksCache]) /\ ViewGoto(w, "count")
      <4>1. PICK f \in [Cats -> Entry] : tasksCache = f
        BY <2>1, <3>3
      <4>2. [view[w] EXCEPT !.next = f] \in View
        BY <2>0, ViewTypes
      <4>3. SetView(w, [view[w] EXCEPT !.next = f])
        BY <3>3, <4>1
      <4>4. ViewsOK'
        BY <2>5, <3>3, <4>2, <4>3 DEF ViewSteps
      <4>5. QED
        BY <2>2, <3>1, <4>4
    <3>4. CASE Found(w) /\ ViewGoto(w, "write")
      <4>1. PICK f \in [Cats -> Entry] : SetView(w, [view[w] EXCEPT !.next = f])
        BY <3>4, FoundTypes DEF SetView
      <4>2. [view[w] EXCEPT !.next = f] \in View
        BY <2>0, ViewTypes
      <4>3. ViewsOK'
        BY <2>5, <3>4, <4>1, <4>2 DEF ViewSteps
      <4>4. QED
        BY <2>2, <3>1, <4>3
    <3>5. QED
      BY <2>11, <3>2, <3>3, <3>4 DEF ReadNextTasks, Found, Fail
  <2>12. ASSUME NEW w \in Workers, WriteTasksCache(w) PROVE CatalogueTypeOK'
    <3>1. view[w].next \in [Cats -> Entry]
      BY <2>0, ViewTypes
    <3>2. RestOK'
      BY <2>1, <2>12, <3>1 DEF WriteTasksCache
    <3>3. ViewsOK'
      BY <2>3, <2>4, <2>12 DEF WriteTasksCache, ViewSteps
    <3>4. QED
      BY <2>2, <3>2, <3>3
  <2>13. ASSUME NEW w \in Workers, CountImmediate(w) PROVE CatalogueTypeOK'
    <3>1. RestOK'
      BY <2>1, <2>13 DEF CountImmediate, Fail
    <3>2. ViewsOK'
      BY <2>3, <2>4, <2>13 DEF CountImmediate, Fail, ViewSteps
    <3>3. QED
      BY <2>2, <3>1, <3>2
  <2>14. ASSUME NEW w \in Workers, KeepCounts(w) PROVE CatalogueTypeOK'
    <3>1. view[w].next \in [Cats -> Entry]
      BY <2>0, ViewTypes
    <3>2. catsCache' \in [Cats -> Entry]
      BY <2>14, <3>1, EntryTypes DEF KeepCounts
    <3>3. ViewsOK'
      BY <2>3, <2>14 DEF KeepCounts
    <3>4. QED
      BY <2>1, <2>2, <2>14, <3>2, <3>3 DEF KeepCounts
  <2>15. ASSUME NEW w \in Workers, NEW t \in TaskIds, SubmitResults(w, t) PROVE CatalogueTypeOK'
    <3>1. [NoView EXCEPT !.task = t] \in View
      BY ViewTypes
    <3>2. ViewsOK'
      BY <2>5, <2>15, <3>1 DEF SubmitResults, ViewSteps
    <3>3. QED
      BY <2>1, <2>2, <2>15, <3>2 DEF SubmitResults
  <2>16. ASSUME NEW w \in Workers, ClearCatsCache(w) \/ ClearTasksCache(w)
         PROVE  CatalogueTypeOK'
    <3>1. ViewsOK'
      BY <2>4, <2>16 DEF ClearCatsCache, ClearTasksCache, ViewSteps
    <3>2. QED
      BY <2>1, <2>2, <2>16, <3>1 DEF ClearCatsCache, ClearTasksCache
  <2>17. ASSUME NEW w \in Workers, StoreResults(w) PROVE CatalogueTypeOK'
    <3>1. ViewsOK'
      BY <2>3, <2>4, <2>17 DEF StoreResults, ViewSteps
    <3>2. solved' \subseteq TaskIds
      BY <2>1, <2>17 DEF StoreResults, InTable
    <3>3. QED
      BY <2>1, <2>2, <2>17, <3>1, <3>2 DEF StoreResults
  <2>18. ASSUME NEW w \in Workers, StoreDelay(w) PROVE CatalogueTypeOK'
    <3>1. ViewsOK'
      BY <2>3, <2>18 DEF StoreDelay
    <3>2. nextTs' \in [Cats -> 0 .. LastDay + 1]
      <4>1. CASE nextTs' = nextTs
        BY <2>1, <4>1
      <4>2. CASE nextTs' # nextTs
        <5> DEFINE c == task2[view[w].task].cat
        <5>1. PICK t \in NextTasks(c) :
                nextTs' = [nextTs EXCEPT ![c] =
                  IF t = None \/ Unreadable(c) THEN viewDay ELSE viewDay + task2[t].delay]
          BY <2>18, <4>2 DEF StoreDelay
        <5> DEFINE n == IF t = None \/ Unreadable(c) THEN viewDay ELSE viewDay + task2[t].delay
        <5>2. t # None => task2[t] \in Row
          BY <2>1, <5>1 DEF NextTasks, FirstOf, Candidates, InTable
        <5>3. t # None => task2[t].delay \in {0, 1}
          BY <5>2 DEF Row
        <5> HIDE DEF c
        <5>4. n \in 0 .. LastDay + 1
          BY <2>1, <5>3, CatalogueAssumption DEF ViewDays
        <5>5. nextTs' = [nextTs EXCEPT ![c] = n]
          BY <5>1
        <5> HIDE DEF n
        <5>6. QED
          BY <2>1, <5>4, <5>5
      <4>3. QED
        BY <4>1, <4>2
    <3>3. QED
      BY <2>1, <2>2, <2>18, <3>1, <3>2 DEF StoreDelay
  <2>19. ASSUME NEW w \in Workers, InsertTask(w) PROVE CatalogueTypeOK'
    <3>1. ViewsOK'
      BY <2>3, <2>19 DEF InsertTask
    <3>2. task2' = task2 \/ task2' = [task2 EXCEPT ![view[w].task] = view[w].row]
      BY <2>19 DEF InsertTask
    <3>3. view[w].row \in Row \cup {None}
      BY <2>0, ViewTypes
    <3>4. task2' \in [TaskIds -> Row \cup {None}]
      BY <2>1, <3>2, <3>3
    <3>5. QED
      BY <2>1, <2>2, <2>19, <3>1, <3>4 DEF InsertTask
  <2>20. ASSUME NEW w \in Workers, ViewDies(w) PROVE CatalogueTypeOK'
    <3>1. ViewsOK'
      BY <2>3, <2>20 DEF ViewDies
    <3>2. QED
      BY <2>1, <2>2, <2>20, <3>1 DEF ViewDies
  <2>21. ASSUME NEW w \in Workers, NEW t \in TaskIds, NEW r \in NewRows, NEW overwrite \in BOOLEAN,
                CheckTask(w, t, r, overwrite)
         PROVE  CatalogueTypeOK'
    <3>1. r \in Row
      BY DEF NewRows
    <3> DEFINE k == IF t \in InTable THEN "overwrite" ELSE "add"
    <3>2. [NoView EXCEPT !.kind = k, !.task = t, !.row = r] \in View
      BY <3>1, ViewTypes
    <3>3. ViewsOK'
      BY <2>5, <2>21, <3>2 DEF CheckTask, ViewSteps
    <3>4. QED
      BY <2>1, <2>2, <2>6, <2>21, <3>3 DEF CheckTask
  <2>22. ASSUME NEW t \in TaskIds,
                DeleteTask(t) \/ MarkCompleted(t) \/ UnmarkCompleted(t) \/ MigrateTask(t)
         PROVE  CatalogueTypeOK'
    <3>1. ViewsOK'
      BY <2>0, <2>22 DEF DeleteTask, MarkCompleted, UnmarkCompleted, MigrateTask
    <3>2. PlannedRow(t, FALSE) \in Row
      BY EntryTypes
    <3>3. RestOK'
      BY <2>1, <2>6, <2>22, <3>2 DEF DeleteTask, MarkCompleted, UnmarkCompleted, MigrateTask
    <3>4. QED
      BY <2>2, <3>1, <3>3
  <2>23. ASSUME NEW d \in {0, 1}, SetDelayDays(d) PROVE CatalogueTypeOK'
    <3>1. task2' \in [TaskIds -> Row \cup {None}]
      BY <2>1, <2>23, EntryTypes DEF SetDelayDays, InTable
    <3>2. QED
      BY <2>0, <2>1, <2>2, <2>6, <2>23, <3>1 DEF SetDelayDays
  <2>24. ASSUME NEW c \in Cats, NEW s \in {"here", "elsewhere"}, AddCategory(c, s)
         PROVE  CatalogueTypeOK'
    BY <2>0, <2>1, <2>2, <2>6, <2>24 DEF AddCategory
  <2>25. ASSUME NEW t \in TaskIds, NEW u \in TaskIds, SwitchTaskIds(t, u)
         PROVE  CatalogueTypeOK'
    <3>1. oldTasks' \subseteq TaskIds
      BY <2>1, <2>25 DEF SwitchTaskIds
    <3>2. QED
      BY <2>0, <2>1, <2>2, <2>6, <2>25, <3>1 DEF SwitchTaskIds
  <2>26. CASE TasksCacheExpires \/ CatsCacheExpires
    BY <2>0, <2>1, <2>2, <2>26 DEF TasksCacheExpires, CatsCacheExpires
  <2>27. CASE NextDay
    <3>1. viewDay' \in ViewDays
      BY <2>1, <2>27, CatalogueAssumption DEF NextDay, ViewDays
    <3>2. QED
      BY <2>0, <2>1, <2>2, <2>27, <3>1 DEF NextDay
  <2>28. CASE UNCHANGED catalogueVars
    BY <2>0, <2>1, <2>2, <2>28 DEF catalogueVars
  <2>29. QED
    BY <2>7, <2>8, <2>9, <2>10, <2>11, <2>12, <2>13, <2>14, <2>15, <2>16, <2>17, <2>18, <2>19,
       <2>20, <2>21, <2>22, <2>23, <2>24, <2>25, <2>26, <2>27, <2>28
      DEF CatalogueNext, ViewWork
<1>3. QED
  BY <1>1, <1>2, PTL DEF CatalogueSpec

\* Every entry is a task that is open, or was entered by an operator.
Opens(f) == \A c \in Cats : f[c].task \notin solved \ marked

\* So are the entries of both caches and of every request that has yet to write one; and
\* a submission that is about to mark its task as solved has cleared both caches.
OpenInv ==
  /\ catsCache # None => Opens(catsCache)
  /\ tasksCache # None => Opens(tasksCache)
  /\ \A w \in Workers :
       /\ viewStep[w] \in {"write", "count", "keep"} => Opens(view[w].next)
       /\ viewStep[w] \in {"cleartasks", "store"} => catsCache = None
       /\ viewStep[w] = "store" => tasksCache = None

\* One request at a time.
OneView == \A v, w \in Workers : v = w

\* A step that leaves the caches, or empties them, marks no task as solved but an
\* operator's, and takes no request near a cache, keeps the invariant.
LEMMA OpenFrame ==
  ASSUME OpenInv,
         catsCache' \in {catsCache, None}, tasksCache' \in {tasksCache, None},
         solved' \ marked' \subseteq solved \ marked,
         \A w \in Workers :
           \/ viewStep'[w] = viewStep[w] /\ view'[w] = view[w]
           \/ viewStep'[w] \notin {"write", "count", "keep", "cleartasks", "store"}
  PROVE  OpenInv'
<1>1. ASSUME NEW f, Opens(f)
      PROVE  \A c \in Cats : f[c].task \notin solved' \ marked'
  BY <1>1 DEF Opens
<1>2. catsCache' # None => \A c \in Cats : catsCache'[c].task \notin solved' \ marked'
  BY <1>1 DEF OpenInv
<1>3. tasksCache' # None => \A c \in Cats : tasksCache'[c].task \notin solved' \ marked'
  BY <1>1 DEF OpenInv
<1>4. ASSUME NEW w \in Workers
      PROVE  /\ viewStep'[w] \in {"write", "count", "keep"} =>
                  \A c \in Cats : (view'[w].next)[c].task \notin solved' \ marked'
             /\ viewStep'[w] \in {"cleartasks", "store"} => catsCache' = None
             /\ viewStep'[w] = "store" => tasksCache' = None
  <2>1. CASE viewStep'[w] = viewStep[w] /\ view'[w] = view[w]
    BY <1>1, <2>1 DEF OpenInv
  <2>2. CASE viewStep'[w] \notin {"write", "count", "keep", "cleartasks", "store"}
    BY <2>2
  <2>3. QED
    BY <2>1, <2>2
<1>5. QED
  BY <1>2, <1>3, <1>4 DEF OpenInv, Opens

\* The steps of a request that write to a cache or come near one.
LEMMA OpenStep ==
  ASSUME OneView, CatalogueTypeOK, OpenInv, [CatalogueNext]_catalogueVars
  PROVE  OpenInv'
<1> USE DEF tables, progress, caches, histories
<1>0. /\ viewStep \in [Workers -> ViewSteps] /\ view \in [Workers -> View]
      /\ \A w \in Workers : view[w] \in View
  BY DEF CatalogueTypeOK
<1>1. ASSUME NEW w \in Workers, ReadNextTasks(w) PROVE OpenInv'
  <2>1. viewStep[w] = "next" /\ UNCHANGED <<catsCache, tasksCache, solved, marked>>
    BY <1>1 DEF ReadNextTasks
  <2>2. CASE ViewFinish(w)
    <3>1. \A v \in Workers :
            \/ viewStep'[v] = viewStep[v] /\ view'[v] = view[v]
            \/ viewStep'[v] \notin {"write", "count", "keep", "cleartasks", "store"}
      BY <1>0, <2>2 DEF ViewFinish, ViewGoto
    <3>2. QED
      BY <2>1, <3>1, OpenFrame
  <2>3. ASSUME NEW f \in [Cats -> Entry], Opens(f), NEW s \in {"write", "count"},
               viewStep' = [viewStep EXCEPT ![w] = s],
               view' = [view EXCEPT ![w] = [view[w] EXCEPT !.next = f]]
        PROVE  OpenInv'
    <3> DEFINE v == [view[w] EXCEPT !.next = f]
    <3>1. v.next = f
      BY <1>0, ViewTypes
    <3>2. view' = [view EXCEPT ![w] = v]
      BY <2>3
    <3> HIDE DEF v
    <3>3. viewStep'[w] = s /\ view'[w].next = f /\ \A x \in Workers : x = w
      BY <1>0, <2>3, <3>1, <3>2 DEF OneView
    <3>4. QED
      BY <2>1, <2>3, <3>3 DEF OpenInv, Opens
  <2>4. CASE tasksCache # None /\ SetView(w, [view[w] EXCEPT !.next = tasksCache]) /\ ViewGoto(w, "count")
    <3>1. PICK f \in [Cats -> Entry] : tasksCache = f
      BY <2>4 DEF CatalogueTypeOK
    <3>2. Opens(f)
      BY <2>4, <3>1 DEF OpenInv
    <3>3. view' = [view EXCEPT ![w] = [view[w] EXCEPT !.next = f]]
      BY <2>4, <3>1 DEF SetView
    <3>4. QED
      BY <2>3, <2>4, <3>2, <3>3 DEF ViewGoto
  <2>5. CASE Found(w) /\ ViewGoto(w, "write")
    <3>1. PICK f \in [Cats -> Entry] :
            /\ view' = [view EXCEPT ![w] = [view[w] EXCEPT !.next = f]]
            /\ \A c \in Cats : f[c].task \notin solved
      BY <2>5, FoundTypes
    <3>2. Opens(f)
      BY <3>1 DEF Opens
    <3>3. QED
      BY <2>3, <2>5, <3>1, <3>2 DEF ViewGoto
  <2>6. QED
    BY <1>1, <2>2, <2>4, <2>5 DEF ReadNextTasks, Found, Fail
<1>2. ASSUME NEW w \in Workers, WriteTasksCache(w) PROVE OpenInv'
  <2>1. /\ tasksCache' = view[w].next /\ Opens(view[w].next)
        /\ viewStep'[w] \in {"idle", "count"} /\ (viewStep'[w] = "count" => view'[w] = view[w])
        /\ UNCHANGED <<catsCache, solved, marked>>
        /\ \A x \in Workers : x = w
    <3>1. tasksCache' = view[w].next /\ Opens(view[w].next)
      BY <1>2 DEF WriteTasksCache, OpenInv
    <3>2. /\ viewStep'[w] \in {"idle", "count"} /\ (viewStep'[w] = "count" => view'[w] = view[w])
          /\ UNCHANGED <<catsCache, solved, marked>>
      BY <1>0, <1>2 DEF WriteTasksCache, ViewFinish, ViewGoto
    <3>3. QED
      BY <3>1, <3>2 DEF OneView
  <2>2. QED
    BY <2>1 DEF OpenInv, Opens
<1>3. ASSUME NEW w \in Workers, CountImmediate(w) PROVE OpenInv'
  <2>1. /\ Opens(view[w].next)
        /\ viewStep'[w] \in {"idle", "keep"} /\ (viewStep'[w] = "keep" => view'[w] = view[w])
        /\ UNCHANGED <<catsCache, tasksCache, solved, marked>>
        /\ \A x \in Workers : x = w
    <3>1. Opens(view[w].next)
      BY <1>3 DEF CountImmediate, OpenInv
    <3>2. viewStep'[w] \in {"idle", "keep"} /\ (viewStep'[w] = "keep" => view'[w] = view[w])
      BY <1>0, <1>3 DEF CountImmediate, Fail, ViewFinish, ViewGoto
    <3>3. UNCHANGED <<catsCache, tasksCache, solved, marked>>
      BY <1>3 DEF CountImmediate
    <3>4. QED
      BY <3>1, <3>2, <3>3 DEF OneView
  <2>2. QED
    BY <2>1 DEF OpenInv, Opens
<1>4. ASSUME NEW w \in Workers, KeepCounts(w) PROVE OpenInv'
  <2>1. /\ Opens(view[w].next) /\ viewStep'[w] = "idle"
        /\ UNCHANGED <<tasksCache, solved, marked>>
        /\ \A x \in Workers : x = w
    BY <1>0, <1>4 DEF KeepCounts, ViewFinish, ViewGoto, OpenInv, OneView
  <2>2. catsCache' = [c \in Cats |->
          IF c \in view[w].cats /\ Counted(view[w].next[c]) THEN view[w].next[c] ELSE Missing]
    BY <1>4 DEF KeepCounts
  <2>3. None \notin solved
    BY CatalogueAssumption DEF CatalogueTypeOK
  <2>4. \A c \in Cats : catsCache'[c].task \notin solved \ marked
    BY <2>1, <2>2, <2>3, EntryTypes DEF Opens
  <2>5. QED
    BY <2>1, <2>4 DEF OpenInv, Opens
<1>5. ASSUME NEW w \in Workers, ClearCatsCache(w) \/ ClearTasksCache(w) PROVE OpenInv'
  <2>1. /\ viewStep'[w] \in {"cleartasks", "store"} /\ \A x \in Workers : x = w
        /\ viewStep'[w] = "store" => tasksCache' = None
        /\ catsCache' = None /\ tasksCache' \in {tasksCache, None}
        /\ UNCHANGED <<solved, marked>>
    BY <1>0, <1>5 DEF ClearCatsCache, ClearTasksCache, ViewGoto, OneView, OpenInv
  <2>2. QED
    BY <2>1 DEF OpenInv, Opens
<1>6. ASSUME NEW w \in Workers, StoreResults(w) PROVE OpenInv'
  <2>1. /\ viewStep'[w] \in {"idle", "delay"} /\ \A x \in Workers : x = w
        /\ catsCache' = None /\ tasksCache' = None
    BY <1>0, <1>6 DEF StoreResults, ViewFinish, ViewGoto, OneView, OpenInv
  <2>2. QED
    BY <2>1 DEF OpenInv
<1>7. ASSUME NEW w \in Workers, ListCategories(w) \/ StoreDelay(w) \/ InsertTask(w) \/ ViewDies(w)
                \/ BeginCategories(w) \/ BeginTasks(w)
      PROVE  OpenInv'
  <2>1. /\ viewStep'[w] \notin {"write", "count", "keep", "cleartasks", "store"} /\ \A x \in Workers : x = w
        /\ UNCHANGED <<catsCache, tasksCache, solved, marked>>
    BY <1>0, <1>7 DEF ListCategories, StoreDelay, InsertTask, ViewDies, BeginCategories,
      BeginTasks, ViewFinish, ViewGoto, OneView
  <2>2. QED
    BY <2>1, OpenFrame
<1>8. ASSUME NEW w \in Workers, NEW t \in TaskIds, SubmitResults(w, t) PROVE OpenInv'
  <2>1. /\ viewStep'[w] = "clear" /\ \A x \in Workers : x = w
        /\ UNCHANGED <<catsCache, tasksCache, solved, marked>>
    BY <1>0, <1>8 DEF SubmitResults, ViewGoto, OneView
  <2>2. QED
    BY <2>1, OpenFrame
<1>9. ASSUME NEW w \in Workers, NEW t \in TaskIds, NEW r \in NewRows, NEW overwrite \in BOOLEAN,
             CheckTask(w, t, r, overwrite)
      PROVE  OpenInv'
  <2>1. /\ viewStep'[w] = "insert" /\ \A x \in Workers : x = w
        /\ UNCHANGED <<catsCache, tasksCache, solved, marked>>
    BY <1>0, <1>9 DEF CheckTask, ViewGoto, OneView
  <2>2. QED
    BY <2>1, OpenFrame
<1>10. ASSUME NEW t \in TaskIds,
              DeleteTask(t) \/ MarkCompleted(t) \/ UnmarkCompleted(t) \/ MigrateTask(t)
       PROVE  OpenInv'
  <2>1. /\ UNCHANGED <<catsCache, tasksCache, viewStep, view>>
        /\ solved' \ marked' \subseteq solved \ marked
    BY <1>10 DEF DeleteTask, MarkCompleted, UnmarkCompleted, MigrateTask
  <2>2. QED
    BY <2>1, OpenFrame
<1>11. CASE TasksCacheExpires \/ CatsCacheExpires
  <2>1. /\ catsCache' \in {catsCache, None} /\ tasksCache' \in {tasksCache, None}
        /\ UNCHANGED <<solved, marked, viewStep, view>>
    BY <1>11 DEF TasksCacheExpires, CatsCacheExpires
  <2>2. QED
    BY <2>1, OpenFrame
<1>12. CASE UNCHANGED <<catsCache, tasksCache, solved, marked, viewStep, view>>
  BY <1>12, OpenFrame
<1>13. CASE ServeCategories \/ NextDay \/ (\E d \in {0, 1} : SetDelayDays(d))
            \/ (\E c \in Cats, s \in {"here", "elsewhere"} : AddCategory(c, s))
            \/ (\E t, u \in TaskIds : SwitchTaskIds(t, u)) \/ UNCHANGED catalogueVars
  BY <1>12, <1>13 DEF ServeCategories, NextDay, SetDelayDays, AddCategory, SwitchTaskIds,
    catalogueVars
<1>14. QED
  BY <1>1, <1>2, <1>3, <1>4, <1>5, <1>6, <1>7, <1>8, <1>9, <1>10, <1>11, <1>13
    DEF CatalogueNext, ViewWork

\* With one request at a time the list of categories never counts a task the user has
\* solved since: the counts and the tasks they come from are cleared together before a
\* task is marked as solved, and neither is written back from older tasks.
THEOREM CountsOpenTasks ==
  ASSUME OneView
  PROVE  CatalogueSpec => []CountedTaskOpen
<1>1. CatalogueInit => OpenInv
  BY DEF CatalogueInit, OpenInv
<1>2. CatalogueTypeOK /\ OpenInv /\ [CatalogueNext]_catalogueVars => OpenInv'
  BY OpenStep
<1>3. OpenInv => CountedTaskOpen
  BY DEF OpenInv, Opens, CountedTaskOpen
<1>4. QED
  BY <1>1, <1>2, <1>3, CatalogueTypeCorrect, PTL DEF CatalogueSpec

-----------------------------------------------------------------------------
(* ChannelPool. *)

\* A channel is in a thread's hands while it publishes; and a thread that is past
\* the creation of a manager has one.
HandsInv ==
  \A s \in Senders :
    /\ send[s].channel # 0 <=> sendStep[s] \in {"use", "done", "failed"}
    /\ sendStep[s] \notin {"idle", "create"} =>
         current \in Senders /\ send[s].mgr \in Senders
    /\ sendStep[s] = "fill" => send[s].filled < PoolSize

\* A channel that a thread has in its hands is busy as long as it is in a pool.
BusyInv == \A c \in InPool \cap Held : channels[c].busy

PoolInv == HandsInv /\ BusyInv /\ ChannelsExclusive

\* An identity is a number, and zero is none.
LEMMA ChannelsNumbered == 0 \notin Channels /\ 0 \notin Connections
BY DEF Channels, Connections

\* The local variables a thread starts with.
LEMMA NewSendType ==
  ASSUME NEW m \in Senders \cup {None}, NEW b \in BOOLEAN
  PROVE  NewSend(m, b) \in Send /\ NewSend(m, b).channel = 0 /\ NewSend(m, b).mgr = m
<1>1. 0 \in 0 .. PoolSize /\ 0 \in Channels \cup {0}
  BY ChannelPoolAssumption
<1>2. QED
  BY <1>1 DEF NewSend, Send

\* And those it has between two messages.
LEMMA NoSendType == NoSend \in Send /\ NoSend.channel = 0
BY NewSendType DEF NoSend

\* The local variables of a thread, as they are changed.
WithManager(x, m) == [x EXCEPT !.mgr = m]
WithChannel(x, c) == [x EXCEPT !.channel = c]
WithBoth(x, c, m) == [x EXCEPT !.channel = c, !.mgr = m]
WithFilled(x, f) == [x EXCEPT !.filled = f]

\* The fields of the changed variables.
LEMMA SendTypes ==
  /\ \A x \in Send, m \in Senders \cup {None} :
       /\ WithManager(x, m) \in Send
       /\ WithManager(x, m).channel = x.channel /\ WithManager(x, m).mgr = m
  /\ \A x \in Send, c \in Channels \cup {0} :
       /\ WithChannel(x, c) \in Send
       /\ WithChannel(x, c).channel = c /\ WithChannel(x, c).mgr = x.mgr
  /\ \A x \in Send, c \in Channels \cup {0}, m \in Senders \cup {None} :
       /\ WithBoth(x, c, m) \in Send
       /\ WithBoth(x, c, m).channel = c /\ WithBoth(x, c, m).mgr = m
  /\ \A x \in Send, f \in 0 .. PoolSize :
       /\ WithFilled(x, f) \in Send /\ WithFilled(x, f).channel = x.channel
       /\ WithFilled(x, f).mgr = x.mgr /\ WithFilled(x, f).filled = f
<1>1. ASSUME NEW x \in Send, NEW m \in Senders \cup {None}
      PROVE  /\ WithManager(x, m) \in Send
             /\ WithManager(x, m).channel = x.channel /\ WithManager(x, m).mgr = m
  BY <1>1 DEF Send, WithManager
<1>2. ASSUME NEW x \in Send, NEW c \in Channels \cup {0}
      PROVE  /\ WithChannel(x, c) \in Send
             /\ WithChannel(x, c).channel = c /\ WithChannel(x, c).mgr = x.mgr
  BY <1>2 DEF Send, WithChannel
<1>3. ASSUME NEW x \in Send, NEW c \in Channels \cup {0}, NEW m \in Senders \cup {None}
      PROVE  /\ WithBoth(x, c, m) \in Send
             /\ WithBoth(x, c, m).channel = c /\ WithBoth(x, c, m).mgr = m
  BY <1>3 DEF Send, WithBoth
<1>4. ASSUME NEW x \in Send, NEW f \in 0 .. PoolSize
      PROVE  /\ WithFilled(x, f) \in Send /\ WithFilled(x, f).channel = x.channel
             /\ WithFilled(x, f).mgr = x.mgr /\ WithFilled(x, f).filled = f
  BY <1>4 DEF Send, WithFilled
<1>5. QED
  BY <1>1, <1>2, <1>3, <1>4

\* The objects.
LEMMA ChannelTypes ==
  /\ NoChannel \in Channel /\ NoChannel.busy = FALSE
  /\ \A k \in Connections \cup {0} : NewChannel(k) \in Channel /\ NewChannel(k).busy = FALSE
  /\ \A x \in Channel : /\ [x EXCEPT !.open = FALSE] \in Channel
                        /\ [x EXCEPT !.open = FALSE].busy = x.busy
                        /\ \A b \in BOOLEAN : /\ [x EXCEPT !.busy = b] \in Channel
                                              /\ [x EXCEPT !.busy = b].busy = b
<1>1. NoChannel \in Channel /\ NoChannel.busy = FALSE
  BY DEF NoChannel, Channel
<1>2. \A k \in Connections \cup {0} : NewChannel(k) \in Channel /\ NewChannel(k).busy = FALSE
  BY DEF NewChannel, Channel
<1>3. ASSUME NEW x \in Channel
      PROVE  [x EXCEPT !.open = FALSE] \in Channel /\ [x EXCEPT !.open = FALSE].busy = x.busy
  BY DEF Channel
<1>4. ASSUME NEW x \in Channel, NEW b \in BOOLEAN
      PROVE  [x EXCEPT !.busy = b] \in Channel /\ [x EXCEPT !.busy = b].busy = b
  BY DEF Channel
<1>5. QED
  BY <1>1, <1>2, <1>3, <1>4

\* What the steps of a thread do to its own variables.
Sends(s, step, v) ==
  /\ sendStep' = [sendStep EXCEPT ![s] = step]
  /\ send' = [send EXCEPT ![s] = v]

\* A thread's variables have their types.
LEMMA SendsType ==
  ASSUME ChannelPoolTypeOK, NEW s \in Senders, NEW step \in PublishSteps, NEW v \in Send,
         Sends(s, step, v)
  PROVE  /\ sendStep' \in [Senders -> PublishSteps] /\ send' \in [Senders -> Send]
         /\ sendStep'[s] = step /\ send'[s] = v
         /\ \A t \in Senders \ {s} : sendStep'[t] = sendStep[t] /\ send'[t] = send[t]
BY DEF ChannelPoolTypeOK, Sends

\* Every step of a thread, by what it does to the thread's variables.
LEMMA SendsEach ==
  ASSUME ChannelPoolTypeOK, HandsInv, NEW s \in Senders,
         Publish(s) \/ SendWork(s) \/ GetOn(s)
  PROVE  \E step \in PublishSteps, v \in Send :
           /\ Sends(s, step, v)
           /\ v.channel # 0 <=> step \in {"use", "done", "failed"}
           /\ step \notin {"idle", "create"} => current' \in Senders /\ v.mgr \in Senders
           /\ step = "fill" => v.filled < PoolSize
           /\ current' \in Senders \/ current' = current
           /\ v.channel \in {0, send[s].channel} \/ GetChannel(s)
<1> DEFINE Good(step, v) ==
      /\ step \in PublishSteps /\ v \in Send
      /\ Sends(s, step, v)
      /\ v.channel # 0 <=> step \in {"use", "done", "failed"}
      /\ step \notin {"idle", "create"} => current' \in Senders /\ v.mgr \in Senders
      /\ step = "fill" => v.filled < PoolSize
      /\ current' \in Senders \/ current' = current
      /\ v.channel \in {0, send[s].channel} \/ GetChannel(s)
<1> SUFFICES \E step, v : Good(step, v)
  OBVIOUS
<1> USE DEF SendGoto, SetSend, SendFinish, PublishSteps
<1>1. /\ send[s] \in Send /\ sendStep[s] \in PublishSteps /\ current \in Senders \cup {None}
      /\ send[s].channel # 0 <=> sendStep[s] \in {"use", "done", "failed"}
      /\ sendStep[s] \notin {"idle", "create"} => current \in Senders /\ send[s].mgr \in Senders
      /\ sendStep[s] = "fill" => send[s].filled < PoolSize
      /\ send = [send EXCEPT ![s] = send[s]] /\ sendStep = [sendStep EXCEPT ![s] = sendStep[s]]
  BY DEF ChannelPoolTypeOK, HandsInv
<1>2. CASE Publish(s)
  <2> DEFINE v == NewSend(current, TRUE)
  <2>1. v \in Send /\ v.channel = 0 /\ v.mgr = current
    BY <1>1, NewSendType
  <2>2. /\ Sends(s, IF current = None THEN "create" ELSE "get", v) /\ current' = current
    BY <1>2 DEF Publish, Sends
  <2> HIDE DEF v
  <2>3. Good(IF current = None THEN "create" ELSE "get", v)
    BY <1>1, <2>1, <2>2
  <2>4. QED
    BY <2>3
<1>3. CASE CreateManager(s)
  <2>1. send[s].channel = 0
    BY <1>1, <1>3 DEF CreateManager
  <2>2. CASE current' = s /\ Sends(s, "get", [send[s] EXCEPT !.mgr = s])
    <3> DEFINE v == WithManager(send[s], s)
    <3>0. Sends(s, "get", v)
      BY <2>2 DEF WithManager
    <3>1. v \in Send /\ v.channel = send[s].channel /\ v.mgr = s
      BY <1>1, SendTypes
    <3> HIDE DEF v
    <3>2. Good("get", v)
      BY <1>1, <2>1, <2>2, <3>0, <3>1
    <3>3. QED
      BY <3>2
  <2>3. CASE current' = current /\ Sends(s, "idle", NoSend)
    <3>1. Good("idle", NoSend)
      BY <1>1, <2>1, <2>3, NoSendType
    <3>2. QED
      BY <3>1
  <2>4. QED
    BY <1>3, <2>2, <2>3 DEF CreateManager, Sends
<1>4. CASE GetChannel(s)
  <2>1. PICK c \in pool[send[s].mgr] :
          Sends(s, "use", [send[s] EXCEPT !.channel = c])
    BY <1>4 DEF GetChannel, Idle, Sends
  <2>2. sendStep[s] = "get" /\ current' = current
    BY <1>4 DEF GetChannel
  <2>3. c \in Channels /\ c # 0
    BY <1>1, <2>1, <2>2, ChannelsNumbered DEF ChannelPoolTypeOK
  <2> DEFINE v == WithChannel(send[s], c)
  <2>w. Sends(s, "use", v)
    BY <2>1 DEF WithChannel
  <2>4. v \in Send /\ v.channel = c /\ v.mgr = send[s].mgr
    <3>1. c \in Channels \cup {0}
      BY <2>3
    <3>2. send[s] \in Send
      BY <1>1
    <3>3. \A x \in Send, d \in Channels \cup {0} :
            /\ WithChannel(x, d) \in Send
            /\ WithChannel(x, d).channel = d /\ WithChannel(x, d).mgr = x.mgr
      BY SendTypes
    <3>4. QED
      BY <3>1, <3>2, <3>3
  <2> HIDE DEF v
  <2>5. Good("use", v)
    BY <1>1, <1>4, <2>2, <2>3, <2>4, <2>w
  <2>6. QED
    BY <2>5
<1>5. CASE ReconnectLocked(s) \/ NothingIdle(s) \/ BasicPublish(s) \/ CloseChannels(s)
  <2>1. PICK step \in PublishSteps :
          /\ sendStep' = [sendStep EXCEPT ![s] = step] /\ UNCHANGED <<current, send>>
          /\ sendStep[s] \in {"use", "done", "failed"} <=> step \in {"use", "done", "failed"}
          /\ sendStep[s] \notin {"idle", "create"} /\ step # "fill"
    BY <1>1, <1>5 DEF ReconnectLocked, NothingIdle, BasicPublish, CloseChannels
  <2>2. Good(step, send[s])
    BY <1>1, <2>1 DEF Sends
  <2>3. QED
    BY <2>2
<1>6. CASE ReleaseChannel(s) \/ CloseFails(s) \/ AppendFails(s)
  <2>1. Sends(s, "idle", NoSend) /\ current' = current
    BY <1>6 DEF ReleaseChannel, CloseFails, AppendFails, Raise, Sends
  <2>2. Good("idle", NoSend)
    BY <1>1, <2>1, NoSendType
  <2>3. QED
    BY <2>2
<1>7. CASE ReleaseFailed(s)
  <2>1. /\ Sends(s, "connect", [send[s] EXCEPT !.channel = 0, !.mgr = current])
        /\ current' = current /\ sendStep[s] = "failed"
    BY <1>7 DEF ReleaseFailed, Sends
  <2> DEFINE v == WithBoth(send[s], 0, current)
  <2>w. Sends(s, "connect", v)
    BY <2>1 DEF WithBoth
  <2>2. v \in Send /\ v.channel = 0 /\ v.mgr = current
    <3>1. 0 \in Channels \cup {0}
      OBVIOUS
    <3>2. send[s] \in Send /\ current \in Senders \cup {None}
      BY <1>1
    <3>3. \A x \in Send, d \in Channels \cup {0}, m \in Senders \cup {None} :
            /\ WithBoth(x, d, m) \in Send
            /\ WithBoth(x, d, m).channel = d /\ WithBoth(x, d, m).mgr = m
      BY SendTypes
    <3>4. QED
      BY <3>1, <3>2, <3>3
  <2> HIDE DEF v
  <2>3. Good("connect", v)
    BY <1>1, <2>1, <2>2, <2>w
  <2>4. QED
    BY <2>3
<1>8. CASE Connect(s)
  <2>1. sendStep[s] = "connect" /\ current' = current
    BY <1>8 DEF Connect
  <2>2. CASE Sends(s, "idle", NoSend)
    <3>1. Good("idle", NoSend)
      BY <1>1, <2>1, <2>2, NoSendType
    <3>2. QED
      BY <3>1
  <2>3. CASE sendStep' = [sendStep EXCEPT ![s] = "close"] /\ send' = send
    <3>1. Good("close", send[s])
      BY <1>1, <2>1, <2>3 DEF Sends
    <3>2. QED
      BY <3>1
  <2>4. QED
    BY <1>8, <2>2, <2>3 DEF Connect, Raise, Sends
<1>9. CASE ResetPool(s)
  <2>1. /\ Sends(s, "fill", [send[s] EXCEPT !.filled = 0])
        /\ current' = current /\ sendStep[s] = "reset"
    BY <1>9 DEF ResetPool, Sends
  <2>2. 0 \in 0 .. PoolSize /\ 0 < PoolSize
    BY ChannelPoolAssumption
  <2> DEFINE v == WithFilled(send[s], 0)
  <2>w. Sends(s, "fill", v)
    BY <2>1 DEF WithFilled
  <2>3. v \in Send /\ v.channel = send[s].channel /\ v.mgr = send[s].mgr /\ v.filled = 0
    BY <1>1, <2>2, SendTypes
  <2> HIDE DEF v
  <2>4. Good("fill", v)
    BY <1>1, <2>1, <2>2, <2>3, <2>w
  <2>5. QED
    BY <2>4
<1>10. CASE AppendChannel(s)
  <2> DEFINE n == send[s].filled + 1
  <2>1. sendStep[s] = "fill" /\ current' = current /\ n \in Nat /\ 0 \in 0 .. PoolSize
    BY <1>1, <1>10, ChannelPoolAssumption DEF AppendChannel, Send
  <2>2. CASE n < PoolSize
    <3> DEFINE v == WithFilled(send[s], n)
    <3>1. Sends(s, "fill", v)
      BY <1>1, <1>10, <2>1, <2>2 DEF AppendChannel, Sends, WithFilled
    <3>2. n \in 0 .. PoolSize
      BY <2>1, <2>2, ChannelPoolAssumption
    <3> HIDE DEF n
    <3>3. v \in Send /\ v.channel = send[s].channel /\ v.mgr = send[s].mgr /\ v.filled = n
      BY <1>1, <3>2, SendTypes
    <3> HIDE DEF v
    <3>4. Good("fill", v)
      BY <1>1, <2>1, <2>2, <3>1, <3>3
    <3>5. QED
      BY <3>4
  <2>3. CASE Sends(s, "get", [send[s] EXCEPT !.filled = 0])
    <3> DEFINE v == WithFilled(send[s], 0)
    <3>1. Sends(s, "get", v)
      BY <2>3 DEF WithFilled
    <3>2. v \in Send /\ v.channel = send[s].channel /\ v.mgr = send[s].mgr
      BY <1>1, <2>1, SendTypes
    <3> HIDE DEF v
    <3>3. Good("get", v)
      BY <1>1, <2>1, <3>1, <3>2
    <3>4. QED
      BY <3>3
  <2>4. CASE Sends(s, "get", NewSend(current, FALSE))
    <3> DEFINE v == NewSend(current, FALSE)
    <3>1. Sends(s, "get", v)
      BY <2>4
    <3>2. v \in Send /\ v.channel = 0 /\ v.mgr = current
      BY <1>1, NewSendType
    <3> HIDE DEF v
    <3>3. Good("get", v)
      BY <1>1, <2>1, <3>1, <3>2
    <3>4. QED
      BY <3>3
  <2>5. CASE Sends(s, "idle", NoSend)
    <3>1. Good("idle", NoSend)
      BY <1>1, <2>1, <2>5, NoSendType
    <3>2. QED
      BY <3>1
  <2>6. \/ n < PoolSize
        \/ Sends(s, "get", [send[s] EXCEPT !.filled = 0])
        \/ Sends(s, "get", NewSend(current, FALSE))
        \/ Sends(s, "idle", NoSend)
    BY <1>10 DEF AppendChannel, Sends
  <2>7. QED
    BY <2>2, <2>3, <2>4, <2>5, <2>6
<1>11. QED
  BY <1>2, <1>3, <1>4, <1>5, <1>6, <1>7, <1>8, <1>9, <1>10 DEF SendWork, GetOn

\* The conjuncts of the type invariant, for a step of a thread.
SharedTypes ==
  /\ current \in Senders \cup {None}
  /\ pool \in [Senders -> SUBSET Channels]
  /\ connection \in [Senders -> Connections \cup {0}]
  /\ lock \in [Senders -> Senders \cup {None}]
  /\ channels \in [Channels -> Channel]
  /\ up \subseteq Connections
  /\ faults \in 0 .. MaxFaults

\* A fault counts up to the bound.
LEMMA FaultType ==
  ASSUME faults \in 0 .. MaxFaults, Fault
  PROVE  faults' \in 0 .. MaxFaults
BY ChannelPoolAssumption DEF Fault

\* A thread's step leaves the shared variables of their types.
LEMMA SharedStep ==
  ASSUME ChannelPoolTypeOK, HandsInv, NEW s \in Senders,
         Publish(s) \/ SendWork(s) \/ GetOn(s)
  PROVE  SharedTypes'
<1> DEFINE m == send[s].mgr
<1>1. /\ SharedTypes /\ send[s] \in Send
      /\ sendStep[s] \notin {"idle", "create"} => current \in Senders /\ m \in Senders
  BY DEF ChannelPoolTypeOK, HandsInv, SharedTypes
<1>2. send[s].channel \in Channels \cup {0}
  BY <1>1 DEF Send
<1> HIDE DEF m
<1>3. CASE UNCHANGED <<current, pool, connection, lock, channels, up, faults>>
  BY <1>1, <1>3 DEF SharedTypes
<1>4. CASE CreateManager(s)
  <2>1. CASE UNCHANGED <<current, pool, connection, lock, channels, up>> /\ Fault
    BY <1>1, <2>1, FaultType DEF SharedTypes
  <2>2. CASE ~(UNCHANGED <<current, pool, connection, lock, channels, up>> /\ Fault)
    <3>1. PICK new \in SUBSET Channels, k \in Connections :
            /\ pool' = [pool EXCEPT ![s] = new]
            /\ channels' = [c \in Channels |->
                 IF c \in new THEN NewChannel(k) ELSE channels[c]]
            /\ connection' = [connection EXCEPT ![s] = k]
            /\ up' = up \cup {k} /\ current' = s
            /\ UNCHANGED <<faults, lock>>
      BY <1>4, <2>2 DEF CreateManager, FreshConnection, Smallest
    <3>2. channels' \in [Channels -> Channel]
      BY <1>1, <3>1, ChannelTypes DEF SharedTypes
    <3>3. QED
      BY <1>1, <3>1, <3>2 DEF SharedTypes
  <2>3. QED
    BY <2>1, <2>2
<1>5. CASE GetChannel(s)
  <2>1. PICK c \in pool[m] :
          /\ channels' = [channels EXCEPT ![c].busy = TRUE]
          /\ lock' = [lock EXCEPT ![m] = None]
          /\ UNCHANGED <<current, pool, connection, up, faults>>
    BY <1>5 DEF GetChannel, Idle, m
  <2>2. m \in Senders
    BY <1>1, <1>5 DEF GetChannel, m
  <2>3. channels' \in [Channels -> Channel]
    <3>1. c \in Channels
      BY <1>1, <2>2 DEF SharedTypes
    <3>2. QED
      BY <1>1, <2>1, <3>1, ChannelTypes DEF SharedTypes
  <2>4. QED
    BY <1>1, <2>1, <2>2, <2>3 DEF SharedTypes
<1>6. CASE ReconnectLocked(s) \/ NothingIdle(s)
  <2>1. /\ lock' = [lock EXCEPT ![m] = s] \/ lock' = [lock EXCEPT ![m] = None]
        /\ UNCHANGED <<current, pool, connection, channels, up, faults>>
    BY <1>6 DEF ReconnectLocked, NothingIdle, m
  <2>2. QED
    BY <1>1, <2>1 DEF SharedTypes
<1>7. CASE BasicPublish(s)
  BY <1>1, <1>7, FaultType DEF BasicPublish, SharedTypes
<1>8. CASE ReleaseChannel(s) \/ ReleaseFailed(s)
  <2> DEFINE c == send[s].channel
  <2>1. /\ \/ channels' = channels
           \/ channels' = [channels EXCEPT ![c].busy = FALSE]
           \/ channels' = [channels EXCEPT ![c] = NoChannel]
        /\ UNCHANGED <<current, pool, connection, lock, up, faults>>
    BY <1>8 DEF ReleaseChannel, ReleaseFailed, FreeChannel
  <2> HIDE DEF c
  <2>2. channels' \in [Channels -> Channel]
    <3>1. CASE channels' = channels
      BY <1>1, <3>1 DEF SharedTypes
    <3>2. CASE channels' = [channels EXCEPT ![c].busy = FALSE]
      BY <1>1, <3>2, ChannelTypes DEF SharedTypes
    <3>3. CASE channels' = [channels EXCEPT ![c] = NoChannel]
      BY <1>1, <3>3, ChannelTypes DEF SharedTypes
    <3>4. QED
      BY <2>1, <3>1, <3>2, <3>3
  <2>3. QED
    BY <1>1, <2>1, <2>2 DEF SharedTypes
<1>9. CASE Connect(s)
  <2>1. /\ \/ \E k \in Connections :
                /\ connection' = [connection EXCEPT ![m] = k]
                /\ up' = (up \cap ConnsInUse) \cup {k}
                /\ UNCHANGED <<lock, faults>>
           \/ /\ Fault
              /\ lock' = lock \/ lock' = [lock EXCEPT ![m] = None]
              /\ UNCHANGED <<connection, up>>
        /\ UNCHANGED <<current, pool, channels>>
    BY <1>9 DEF Connect, Raise, FreshConnection, Smallest, m
  <2>2. QED
    BY <1>1, <2>1, FaultType DEF SharedTypes
<1>10. CASE CloseChannels(s)
  <2>1. /\ channels' = [c \in Channels |->
             IF c \in pool[m] THEN [channels[c] EXCEPT !.open = FALSE] ELSE channels[c]]
        /\ UNCHANGED <<current, pool, connection, lock, up, faults>>
    BY <1>10 DEF CloseChannels, m
  <2>2. channels' \in [Channels -> Channel]
    BY <1>1, <2>1, ChannelTypes DEF SharedTypes
  <2>3. QED
    BY <1>1, <2>1, <2>2 DEF SharedTypes
<1>11. CASE ResetPool(s)
  <2>1. /\ pool' = [pool EXCEPT ![m] = {}]
        /\ channels' = [c \in Channels |->
             IF c \in pool[m] \ Held THEN NoChannel ELSE channels[c]]
        /\ UNCHANGED <<current, connection, lock, up, faults>>
    BY <1>11 DEF ResetPool, m
  <2>2. channels' \in [Channels -> Channel]
    BY <1>1, <2>1, ChannelTypes DEF SharedTypes
  <2>3. QED
    BY <1>1, <2>1, <2>2 DEF SharedTypes
<1>12. CASE AppendChannel(s)
  <2>1. PICK c \in Channels :
          /\ channels' = [channels EXCEPT ![c] = NewChannel(connection[m])]
          /\ pool' = [pool EXCEPT ![m] = @ \cup {c}]
          /\ UNCHANGED <<current, connection, lock, up, faults>>
    BY <1>12 DEF AppendChannel, FreshChannel, Smallest, m
  <2>2. m \in Senders
    BY <1>1, <1>12 DEF AppendChannel, m
  <2>3. channels' \in [Channels -> Channel]
    BY <1>1, <2>1, <2>2, ChannelTypes DEF SharedTypes
  <2>4. QED
    BY <1>1, <2>1, <2>2, <2>3 DEF SharedTypes
<1>13. CASE AppendFails(s)
  <2>1. /\ lock' = lock \/ lock' = [lock EXCEPT ![m] = None]
        /\ Fault \/ UNCHANGED faults
        /\ UNCHANGED <<current, pool, connection, channels, up>>
    BY <1>13 DEF AppendFails, Raise, m
  <2>2. QED
    BY <1>1, <2>1, FaultType DEF SharedTypes
<1>14. CASE Publish(s)
  BY <1>3, <1>14 DEF Publish
<1>15. CASE CloseFails(s)
  <2>1. PICK closed \in SUBSET pool[m] :
          channels' = [c \in Channels |->
            IF c \in closed THEN [channels[c] EXCEPT !.open = FALSE] ELSE channels[c]]
    BY <1>15 DEF CloseFails, m
  <2>2. /\ lock' = lock \/ lock' = [lock EXCEPT ![m] = None]
        /\ Fault /\ UNCHANGED <<current, pool, connection, up>>
    BY <1>15 DEF CloseFails, Raise, m
  <2>3. channels' \in [Channels -> Channel]
    BY <1>1, <2>1, ChannelTypes DEF SharedTypes
  <2>4. QED
    BY <1>1, <2>2, <2>3, FaultType DEF SharedTypes
<1>16. QED
  BY <1>4, <1>5, <1>6, <1>7, <1>8, <1>9, <1>10, <1>11, <1>12, <1>13, <1>14, <1>15 DEF SendWork, GetOn

\* Every step keeps the types.
LEMMA ChannelPoolTypeStep ==
  ASSUME ChannelPoolTypeOK, HandsInv, [ChannelPoolNext]_channelPoolVars
  PROVE  ChannelPoolTypeOK'
<1>1. CASE UNCHANGED channelPoolVars
  BY <1>1 DEF ChannelPoolTypeOK, channelPoolVars
<1>2. ASSUME NEW k \in Connections, ConnectionDrops(k)
      PROVE  ChannelPoolTypeOK'
  BY <1>2, FaultType DEF ConnectionDrops, ChannelPoolTypeOK
<1>3. ASSUME NEW s \in Senders, Publish(s) \/ SendWork(s) \/ GetOn(s)
      PROVE  ChannelPoolTypeOK'
  <2>1. PICK step \in PublishSteps, v \in Send : Sends(s, step, v)
    BY <1>3, SendsEach
  <2>2. sendStep' \in [Senders -> PublishSteps] /\ send' \in [Senders -> Send]
    BY <2>1, SendsType
  <2>3. SharedTypes'
    BY <1>3, SharedStep
  <2>4. QED
    BY <2>2, <2>3 DEF SharedTypes, ChannelPoolTypeOK
<1>4. QED
  BY <1>1, <1>2, <1>3 DEF ChannelPoolNext

\* And every step keeps a thread's hold in step with where it stands.
LEMMA HandsStep ==
  ASSUME ChannelPoolTypeOK, HandsInv, [ChannelPoolNext]_channelPoolVars
  PROVE  HandsInv'
<1>1. CASE UNCHANGED channelPoolVars
  BY <1>1 DEF HandsInv, channelPoolVars
<1>2. ASSUME NEW k \in Connections, ConnectionDrops(k)
      PROVE  HandsInv'
  BY <1>2 DEF ConnectionDrops, HandsInv
<1>3. ASSUME NEW s \in Senders, Publish(s) \/ SendWork(s) \/ GetOn(s)
      PROVE  HandsInv'
  <2>1. PICK step \in PublishSteps, v \in Send :
           /\ Sends(s, step, v)
           /\ v.channel # 0 <=> step \in {"use", "done", "failed"}
           /\ step \notin {"idle", "create"} => current' \in Senders /\ v.mgr \in Senders
           /\ step = "fill" => v.filled < PoolSize
           /\ current' \in Senders \/ current' = current
    BY <1>3, SendsEach
  <2>2. /\ sendStep'[s] = step /\ send'[s] = v
        /\ \A t \in Senders \ {s} : sendStep'[t] = sendStep[t] /\ send'[t] = send[t]
    BY <2>1, SendsType
  <2>3. ASSUME NEW t \in Senders
        PROVE  /\ send'[t].channel # 0 <=> sendStep'[t] \in {"use", "done", "failed"}
               /\ sendStep'[t] \notin {"idle", "create"} =>
                    current' \in Senders /\ send'[t].mgr \in Senders
               /\ sendStep'[t] = "fill" => send'[t].filled < PoolSize
    <3>1. CASE t = s
      BY <2>1, <2>2, <3>1
    <3>2. CASE t # s
      BY <2>1, <2>2, <3>2 DEF HandsInv
    <3>3. QED
      BY <3>1, <3>2
  <2>4. QED
    BY <2>3 DEF HandsInv
<1>4. QED
  BY <1>1, <1>2, <1>3 DEF ChannelPoolNext

\* What no thread touches leaves what the threads hold as it is.
LEMMA HeldSame ==
  ASSUME \A t \in Senders : send'[t].channel = send[t].channel
  PROVE  Held' = Held
BY DEF Held

\* A step that changes nobody's hold, takes only fresh channels into a pool, none of
\* them busy, and makes no channel busy or a held one idle, shares no channel.
LEMMA PoolFrame ==
  ASSUME ChannelPoolTypeOK, BusyInv, ChannelsExclusive,
         \A t \in Senders : send'[t].channel = send[t].channel,
         NEW fresh \in SUBSET Channels, fresh \cap (InPool \cup Held) = {},
         \A m \in Senders : pool'[m] \subseteq pool[m] \cup fresh,
         \A c \in fresh : ~channels'[c].busy,
         \A c \in Channels \ fresh : channels'[c].busy => channels[c].busy,
         \A c \in Held \cap Channels : channels[c].busy => channels'[c].busy,
         current' = current \/ \E s \in Senders : current' = s /\ pool'[s] \subseteq fresh
  PROVE  BusyInv' /\ ChannelsExclusive'
<1>1. Held' = Held
  BY HeldSame
<1>2. \A m \in Senders : pool[m] \subseteq Channels
  BY DEF ChannelPoolTypeOK
<1>3. ASSUME NEW c \in InPool', c \in Held'
      PROVE  channels'[c].busy
  <2>1. c \in InPool /\ c \in Held /\ c \in Channels
    BY <1>1, <1>2, <1>3 DEF InPool
  <2>2. QED
    BY <2>1 DEF BusyInv
<1>4. \A s, t \in Senders : s # t /\ send'[s].channel # 0 => send'[s].channel # send'[t].channel
  BY DEF ChannelsExclusive
<1>5. ASSUME NEW m \in Senders, NEW c \in pool'[m], current' = m, channels'[c].busy
      PROVE  c \in Held'
  <2>1. c \notin fresh
    BY <1>5
  <2>2. c \in pool[m] /\ c \in Channels
    BY <1>2, <1>5, <2>1
  <2>3. current = m /\ channels[c].busy
    BY <1>5, <2>1, <2>2
  <2>4. QED
    BY <1>1, <2>2, <2>3 DEF ChannelsExclusive
<1>6. BusyInv'
  BY <1>3 DEF BusyInv
<1>7. QED
  BY <1>4, <1>5, <1>6 DEF ChannelsExclusive

\* A channel that get_channel finds idle is in nobody's hands.
LEMMA GetKeepsExclusive ==
  ASSUME ChannelPoolTypeOK, HandsInv, BusyInv, ChannelsExclusive, NEW s \in Senders, GetChannel(s)
  PROVE  BusyInv' /\ ChannelsExclusive'
<1> DEFINE m == send[s].mgr
<1>1. m \in Senders /\ send[s].channel = 0 /\ current \in Senders
  BY DEF GetChannel, HandsInv
<1>2. PICK c \in pool[m] :
        /\ ~channels[c].busy
        /\ channels' = [channels EXCEPT ![c].busy = TRUE]
        /\ Sends(s, "use", WithChannel(send[s], c))
        /\ pool' = pool /\ current' = current
  BY DEF GetChannel, Idle, Sends, WithChannel, SetSend, SendGoto
<1> HIDE DEF m
<1>3. c \in Channels /\ c \in InPool /\ c # 0 /\ \A n \in Senders : pool[n] \subseteq Channels
  BY <1>1, <1>2, ChannelsNumbered DEF ChannelPoolTypeOK, InPool
<1>4. c \notin Held
  BY <1>2, <1>3 DEF BusyInv
<1>5. \A t \in Senders : send[t].channel # c
  BY <1>3, <1>4 DEF Held
<1>6. /\ send'[s].channel = c
      /\ \A t \in Senders \ {s} : send'[t] = send[t]
  <2>1. send[s] \in Send /\ c \in Channels \cup {0}
    BY <1>3 DEF ChannelPoolTypeOK
  <2>2. WithChannel(send[s], c) \in Send /\ WithChannel(send[s], c).channel = c
    BY <2>1, SendTypes
  <2>3. QED
    BY <1>2, <2>2, SendsType DEF PublishSteps
<1>7. /\ channels'[c].busy
      /\ \A d \in Channels \ {c} : channels'[d] = channels[d]
  BY <1>2, <1>3 DEF ChannelPoolTypeOK, Channel
<1>8. Held' = Held \cup {c}
  <2>1. Held' = {send'[t].channel : t \in Senders} \ {0}
    BY DEF Held
  <2>2. ASSUME NEW d
        PROVE  d \in Held' <=> d \in Held \cup {c}
    BY <1>1, <1>3, <1>6, <2>1 DEF Held
  <2>3. QED
    BY <2>2
<1>9. ASSUME NEW d \in InPool', d \in Held'
      PROVE  channels'[d].busy
  <2>1. d \in InPool /\ d \in Channels
    BY <1>2, <1>3, <1>9 DEF InPool
  <2>2. CASE d = c
    BY <1>7, <2>2
  <2>3. CASE d # c
    BY <1>7, <1>8, <1>9, <2>1, <2>3 DEF BusyInv
  <2>4. QED
    BY <2>2, <2>3
<1>10. ASSUME NEW a \in Senders, NEW b \in Senders, a # b, send'[a].channel # 0
       PROVE  send'[a].channel # send'[b].channel
  BY <1>5, <1>6, <1>10 DEF ChannelsExclusive
<1>11. ASSUME NEW n \in Senders, NEW d \in pool'[n], current' = n, channels'[d].busy
       PROVE  d \in Held'
  <2>1. d \in pool[n] /\ d \in Channels /\ current = n
    BY <1>2, <1>3, <1>11
  <2>2. CASE d = c
    BY <1>8, <2>2
  <2>3. CASE d # c
    BY <1>7, <1>8, <1>11, <2>1, <2>3 DEF ChannelsExclusive
  <2>4. QED
    BY <2>2, <2>3
<1>12. BusyInv'
  BY <1>9 DEF BusyInv
<1>13. QED
  BY <1>10, <1>11, <1>12 DEF ChannelsExclusive

\* A thread that releases a channel is the only one that held it.
LEMMA FreeKeepsExclusive ==
  ASSUME ChannelPoolTypeOK, HandsInv, BusyInv, ChannelsExclusive, NEW s \in Senders,
         ReleaseChannel(s) \/ ReleaseFailed(s)
  PROVE  BusyInv' /\ ChannelsExclusive'
<1> DEFINE c == send[s].channel
<1>1. c # 0 /\ current \in Senders /\ c \in Channels
  <2>1. c # 0 /\ current \in Senders
    BY DEF ReleaseChannel, ReleaseFailed, HandsInv
  <2>2. send[s] \in Send
    BY DEF ChannelPoolTypeOK
  <2>3. QED
    BY <2>1, <2>2 DEF Send
<1>2. /\ FreeChannel(s) /\ pool' = pool /\ current' = current
      /\ \A n \in Senders : pool[n] \subseteq Channels
  BY DEF ReleaseChannel, ReleaseFailed, ChannelPoolTypeOK
<1>3. /\ send'[s].channel = 0
      /\ \A t \in Senders \ {s} : send'[t] = send[t]
  <2>1. PICK step \in PublishSteps, v \in Send :
           /\ Sends(s, step, v)
           /\ v.channel # 0 <=> step \in {"use", "done", "failed"}
    BY SendsEach DEF SendWork
  <2>2. sendStep'[s] = step /\ send'[s] = v /\ \A t \in Senders \ {s} : send'[t] = send[t]
    BY <2>1, SendsType
  <2>3. sendStep'[s] \in {"idle", "connect"}
    BY DEF ReleaseChannel, ReleaseFailed, SendFinish, SendGoto, ChannelPoolTypeOK
  <2>4. QED
    BY <2>1, <2>2, <2>3
<1>4. \A t \in Senders \ {s} : send[t].channel # c
  BY <1>1 DEF ChannelsExclusive
<1>5. /\ \A d \in Channels \ {c} : channels'[d] = channels[d]
      /\ c \in pool[current] => ~channels'[c].busy
  BY <1>1, <1>2 DEF FreeChannel, ChannelPoolTypeOK, Channel
<1> HIDE DEF c
<1>6. Held' = Held \ {c}
  <2>1. Held' = {send'[t].channel : t \in Senders} \ {0}
    BY DEF Held
  <2>2. ASSUME NEW d
        PROVE  d \in Held' <=> d \in Held /\ d # c
    BY <1>1, <1>3, <1>4, <2>1 DEF Held, c
  <2>3. QED
    BY <2>2
<1>7. ASSUME NEW d \in InPool', d \in Held'
      PROVE  channels'[d].busy
  <2>1. d \in InPool /\ d \in Held /\ d # c /\ d \in Channels
    BY <1>2, <1>6, <1>7 DEF InPool
  <2>2. QED
    BY <1>5, <2>1 DEF BusyInv
<1>8. ASSUME NEW a \in Senders, NEW b \in Senders, a # b, send'[a].channel # 0
      PROVE  send'[a].channel # send'[b].channel
  BY <1>3, <1>8 DEF ChannelsExclusive
<1>9. ASSUME NEW n \in Senders, NEW d \in pool'[n], current' = n, channels'[d].busy
      PROVE  d \in Held'
  <2>1. d \in pool[n] /\ d \in Channels /\ current = n
    BY <1>2, <1>9
  <2>2. d # c
    BY <1>5, <1>9, <2>1
  <2>3. d \in Held
    BY <1>5, <1>9, <2>1, <2>2 DEF ChannelsExclusive
  <2>4. QED
    BY <1>6, <2>2, <2>3
<1>10. BusyInv'
  BY <1>7 DEF BusyInv
<1>11. QED
  BY <1>8, <1>9, <1>10 DEF ChannelsExclusive

\* Every step keeps the pool's invariant.
LEMMA PoolStep ==
  ASSUME ChannelPoolTypeOK, PoolInv, [ChannelPoolNext]_channelPoolVars
  PROVE  PoolInv'
<1>0. HandsInv' /\ HandsInv /\ BusyInv /\ ChannelsExclusive
  BY HandsStep DEF PoolInv
<1> SUFFICES BusyInv' /\ ChannelsExclusive'
  BY <1>0 DEF PoolInv
<1>1. CASE UNCHANGED channelPoolVars
  BY <1>0, <1>1 DEF BusyInv, ChannelsExclusive, InPool, Held, channelPoolVars
<1>2. ASSUME NEW k \in Connections, ConnectionDrops(k)
      PROVE  BusyInv' /\ ChannelsExclusive'
  BY <1>0, <1>2 DEF ConnectionDrops, BusyInv, ChannelsExclusive, InPool, Held
<1>3. ASSUME NEW s \in Senders, Publish(s) \/ SendWork(s) \/ GetOn(s)
      PROVE  BusyInv' /\ ChannelsExclusive'
  <2> DEFINE m == send[s].mgr
  <2>1. CASE GetChannel(s)
    BY <1>0, <1>3, <2>1, GetKeepsExclusive
  <2>2. CASE ReleaseChannel(s) \/ ReleaseFailed(s)
    BY <1>0, <1>3, <2>2, FreeKeepsExclusive
  <2>3. CASE ~GetChannel(s) /\ ~ReleaseChannel(s) /\ ~ReleaseFailed(s)
    <3>1. PICK step \in PublishSteps, v \in Send :
            /\ Sends(s, step, v)
            /\ v.channel # 0 <=> step \in {"use", "done", "failed"}
            /\ v.channel \in {0, send[s].channel}
      BY <1>0, <1>3, <2>3, SendsEach
    <3>2. /\ sendStep'[s] = step /\ send'[s] = v
          /\ \A t \in Senders \ {s} : send'[t] = send[t]
      BY <3>1, SendsType
    <3>3. /\ send[s].channel # 0 <=> sendStep[s] \in {"use", "done", "failed"}
          /\ sendStep[s] \notin {"idle", "create"} => m \in Senders
      BY <1>0 DEF HandsInv
    <3>4. \/ Publish(s) \/ CreateManager(s) \/ ReconnectLocked(s) \/ NothingIdle(s)
          \/ BasicPublish(s) \/ Connect(s) \/ CloseChannels(s) \/ CloseFails(s)
          \/ ResetPool(s) \/ AppendChannel(s) \/ AppendFails(s)
      BY <1>3, <2>3 DEF SendWork, GetOn
    <3>5. sendStep' \in [Senders -> PublishSteps] /\ sendStep \in [Senders -> PublishSteps]
      BY <3>1, SendsType DEF ChannelPoolTypeOK
    <3>6. sendStep[s] \in {"use", "done", "failed"} => sendStep'[s] \in {"use", "done", "failed"}
      BY <3>4, <3>5 DEF Publish, CreateManager, ReconnectLocked, NothingIdle, BasicPublish,
        Connect, CloseChannels, CloseFails, ResetPool, AppendChannel, AppendFails, Raise,
        SendFinish, SendGoto
    <3>7. \A t \in Senders : send'[t].channel = send[t].channel
      BY <3>1, <3>2, <3>3, <3>6
    <3>8. /\ channels \in [Channels -> Channel] /\ pool \in [Senders -> SUBSET Channels]
          /\ \A c \in Channels : channels[c] \in Channel
      BY DEF ChannelPoolTypeOK
    <3> HIDE DEF m
    <3>9. CASE pool' = pool /\ channels' = channels /\ current' = current
      <4>1. {} \in SUBSET Channels /\ {} \cap (InPool \cup Held) = {}
        OBVIOUS
      <4>2. QED
        BY <1>0, <3>7, <3>9, <4>1, PoolFrame
    <3>10. CASE CreateManager(s) /\ ~(pool' = pool /\ channels' = channels /\ current' = current)
      <4>1. PICK new \in SUBSET (Channels \ (InPool \cup Held)), k \in Connections :
              /\ pool' = [pool EXCEPT ![s] = new]
              /\ channels' = [c \in Channels |->
                   IF c \in new THEN NewChannel(k) ELSE channels[c]]
              /\ current' = s
        BY <3>10 DEF CreateManager, FreshConnection, Smallest
      <4>2. /\ new \in SUBSET Channels /\ new \cap (InPool \cup Held) = {}
            /\ \A n \in Senders : pool'[n] \subseteq pool[n] \cup new
            /\ pool'[s] \subseteq new
        BY <3>8, <4>1
      <4>3. /\ \A c \in new : ~channels'[c].busy
            /\ \A c \in Channels \ new : channels'[c] = channels[c]
        BY <4>1, <4>2, ChannelTypes
      <4>4. \A c \in Held \cap Channels : channels[c].busy => channels'[c].busy
        BY <4>2, <4>3
      <4>5. \A c \in Channels \ new : channels'[c].busy => channels[c].busy
        BY <4>3
      <4>6. QED
        BY <1>0, <3>7, <4>1, <4>2, <4>3, <4>4, <4>5, PoolFrame
    <3>11. CASE CloseChannels(s) \/ CloseFails(s)
      <4>1. /\ \E closed \in SUBSET pool[m] : channels' = [c \in Channels |->
                 IF c \in closed THEN [channels[c] EXCEPT !.open = FALSE] ELSE channels[c]]
            /\ pool' = pool /\ current' = current
        BY <3>11 DEF CloseChannels, CloseFails, m
      <4>2. \A c \in Channels : channels'[c].busy = channels[c].busy
        BY <3>8, <4>1, ChannelTypes
      <4>3. {} \in SUBSET Channels /\ {} \cap (InPool \cup Held) = {}
        OBVIOUS
      <4>4. QED
        BY <1>0, <3>7, <4>1, <4>2, <4>3, PoolFrame
    <3>12. CASE ResetPool(s)
      <4>1. /\ pool' = [pool EXCEPT ![m] = {}]
            /\ channels' = [c \in Channels |->
                 IF c \in pool[m] \ Held THEN NoChannel ELSE channels[c]]
            /\ current' = current
        BY <3>12 DEF ResetPool, m
      <4>2. /\ \A c \in Channels : channels'[c].busy => channels[c].busy
            /\ \A c \in Held \cap Channels : channels[c].busy => channels'[c].busy
        BY <4>1, ChannelTypes
      <4>3. \A n \in Senders : pool'[n] \subseteq pool[n] \cup {}
        BY <3>8, <4>1
      <4>4. {} \in SUBSET Channels /\ {} \cap (InPool \cup Held) = {}
        OBVIOUS
      <4>5. QED
        BY <1>0, <3>7, <4>1, <4>2, <4>3, <4>4, PoolFrame
    <3>13. CASE AppendChannel(s)
      <4>1. PICK c \in Channels \ (InPool \cup Held) :
              /\ channels' = [channels EXCEPT ![c] = NewChannel(connection[m])]
              /\ pool' = [pool EXCEPT ![m] = @ \cup {c}]
              /\ current' = current
        BY <3>13 DEF AppendChannel, FreshChannel, Smallest, m
      <4>2. m \in Senders /\ connection[m] \in Connections \cup {0}
        BY <3>3, <3>13 DEF AppendChannel, m, ChannelPoolTypeOK
      <4>3. /\ ~channels'[c].busy
            /\ \A d \in Channels \ {c} : channels'[d] = channels[d]
        BY <3>8, <4>1, <4>2, ChannelTypes
      <4>4. /\ {c} \in SUBSET Channels /\ {c} \cap (InPool \cup Held) = {}
            /\ \A n \in Senders : pool'[n] \subseteq pool[n] \cup {c}
        BY <3>8, <4>1, <4>2
      <4>5. /\ \A d \in {c} : ~channels'[d].busy
            /\ \A d \in Channels \ {c} : channels'[d].busy => channels[d].busy
            /\ \A d \in Held \cap Channels : channels[d].busy => channels'[d].busy
        BY <4>3, <4>4
      <4>6. QED
        BY <1>0, <3>7, <4>1, <4>4, <4>5, PoolFrame
    <3>14. QED
      BY <3>4, <3>9, <3>10, <3>11, <3>12, <3>13
        DEF Publish, ReconnectLocked, NothingIdle, BasicPublish, Connect, AppendFails
  <2>4. QED
    BY <2>1, <2>2, <2>3
<1>4. QED
  BY <1>1, <1>2, <1>3 DEF ChannelPoolNext

\* At the start nobody has a manager, and nobody holds a channel.
LEMMA PoolInit ==
  ASSUME ChannelPoolInit
  PROVE  ChannelPoolTypeOK /\ PoolInv
<1>1. 0 \in 0 .. MaxFaults /\ None \in Senders \cup {None}
  BY ChannelPoolAssumption
<1>2. ChannelPoolTypeOK
  BY <1>1, NoSendType, ChannelTypes DEF ChannelPoolInit, ChannelPoolTypeOK, PublishSteps
<1>3. \A s \in Senders : send[s].channel = 0 /\ sendStep[s] = "idle" /\ pool[s] = {}
  BY NoSendType DEF ChannelPoolInit
<1>4. HandsInv
  BY <1>3 DEF HandsInv
<1>5. BusyInv
  BY <1>3 DEF BusyInv, InPool
<1>6. ChannelsExclusive
  BY <1>3 DEF ChannelsExclusive
<1>7. QED
  BY <1>2, <1>4, <1>5, <1>6 DEF PoolInv

\* The variables of the pool keep their types, whatever drops and whoever replaces what.
THEOREM ChannelPoolTypeCorrect == ChannelPoolSpec => []ChannelPoolTypeOK
<1>1. ChannelPoolInit => ChannelPoolTypeOK /\ PoolInv
  BY PoolInit
<1>2. ChannelPoolTypeOK /\ PoolInv /\ [ChannelPoolNext]_channelPoolVars
        => (ChannelPoolTypeOK /\ PoolInv)'
  BY ChannelPoolTypeStep, PoolStep DEF PoolInv
<1>3. QED
  BY <1>1, <1>2, PTL DEF ChannelPoolSpec

\* No two threads publish on one channel, and no channel of the pool stays busy after its
\* thread has left it: get_channel, release_channel and establish_connection, the last
\* partly outside of the lock, keep the pool and the threads' channels in step.
THEOREM ChannelsNeverShared == ChannelPoolSpec => []ChannelsExclusive
<1>1. ChannelPoolInit => ChannelPoolTypeOK /\ PoolInv
  BY PoolInit
<1>2. ChannelPoolTypeOK /\ PoolInv /\ [ChannelPoolNext]_channelPoolVars
        => (ChannelPoolTypeOK /\ PoolInv)'
  BY ChannelPoolTypeStep, PoolStep DEF PoolInv
<1>3. PoolInv => ChannelsExclusive
  BY DEF PoolInv
<1>4. QED
  BY <1>1, <1>2, <1>3, PTL DEF ChannelPoolSpec

-----------------------------------------------------------------------------
(* The services together. *)

\* A behaviour of the services is one of each: the others' steps leave it as it is.
LEMMA ServicesImplementEach ==
  Spec => /\ GiftCardsSpec /\ OfferLimitSpec /\ AccountsSpec /\ PushAuthSpec
          /\ CaptchaSpec /\ CatalogueSpec /\ ChannelPoolSpec
<1>1. Init => /\ GiftCardsInit /\ OfferLimitInit /\ AccountsInit /\ PushAuthInit
              /\ CaptchaInit /\ CatalogueInit /\ ChannelPoolInit
  BY DEF Init
<1>2. [Next]_servicesVars =>
        /\ [GiftCardsNext]_giftCardsVars /\ [OfferLimitNext]_offerVars
        /\ [AccountsNext]_accountVars /\ [PushAuthNext]_pushVars
        /\ [CaptchaNext]_captchaVars /\ [CatalogueNext]_catalogueVars
        /\ [ChannelPoolNext]_channelPoolVars
  BY DEF Next, servicesVars, OnlyGiftCards, OnlyOfferLimit, OnlyAccounts, OnlyPushAuth,
         OnlyCaptcha, OnlyCatalogue, OnlyChannelPool
<1> QED
  BY <1>1, <1>2, PTL
     DEF Spec, GiftCardsSpec, OfferLimitSpec, AccountsSpec, PushAuthSpec, CaptchaSpec,
         CatalogueSpec, ChannelPoolSpec

\* Every variable of every service keeps its type, whatever the constants are.
THEOREM ServicesTypeCorrect == Spec => []ServicesTypesOK
<1>1. /\ Spec => []GiftCardsTypeOK /\ []OfferLimitTypeOK
      /\ Spec => []AccountsTypeOK /\ []PushAuthTypeOK
      /\ Spec => []CaptchaTypeOK /\ []CatalogueTypeOK /\ []ChannelPoolTypeOK
  BY ServicesImplementEach, GiftCardsTypeCorrect, OfferLimitTypeCorrect, AccountsTypeCorrect,
     PushAuthTypeCorrect, CaptchaTypeCorrect, CatalogueTypeCorrect, ChannelPoolTypeCorrect, PTL
<1> QED
  BY <1>1, PTL DEF ServicesTypesOK
===============================================================================
