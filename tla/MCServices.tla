----------------------------- MODULE MCServices -----------------------------
(***************************************************************************)
(* The smaller services, for TLC.  They share no variable, so a behaviour  *)
(* of all of them tells no more than one of each: active names the one     *)
(* that runs.                                                              *)
(***************************************************************************)
EXTENDS GiftCards, OfferLimit, Accounts, PushAuth, Captcha, Catalogue, ChannelPool, TLC

CONSTANTS Components, u1, c1

VARIABLE active

\* One client has all the addresses.
MCOwnerOf == [a \in Addresses |-> u1]
\* All tasks are migrated to one position.
MCPlan == [t \in TaskIds |-> [cat |-> c1, pos |-> 1]]

servicesVars == <<giftCardsVars, offerVars, accountVars, pushVars, captchaVars,
                  catalogueVars, channelPoolVars, active>>

Init ==
  /\ active \in Components
  /\ GiftCardsInit /\ OfferLimitInit /\ AccountsInit /\ PushAuthInit
  /\ CaptchaInit /\ CatalogueInit /\ ChannelPoolInit
  \* The others need no more than one initial state.
  /\ active # "GiftCards" => bhToken
  /\ active # "Accounts" => users = {}

\* The step is one of the component, and the others stay as they are.
OnlyGiftCards ==
  /\ active = "GiftCards"
  /\ UNCHANGED <<offerVars, accountVars, pushVars, captchaVars,
                 catalogueVars, channelPoolVars, active>>

OnlyOfferLimit ==
  /\ active = "OfferLimit"
  /\ UNCHANGED <<giftCardsVars, accountVars, pushVars, captchaVars,
                 catalogueVars, channelPoolVars, active>>

OnlyAccounts ==
  /\ active = "Accounts"
  /\ UNCHANGED <<giftCardsVars, offerVars, pushVars, captchaVars,
                 catalogueVars, channelPoolVars, active>>

OnlyPushAuth ==
  /\ active = "PushAuth"
  /\ UNCHANGED <<giftCardsVars, offerVars, accountVars, captchaVars,
                 catalogueVars, channelPoolVars, active>>

OnlyCaptcha ==
  /\ active = "Captcha"
  /\ UNCHANGED <<giftCardsVars, offerVars, accountVars, pushVars,
                 catalogueVars, channelPoolVars, active>>

OnlyCatalogue ==
  /\ active = "Catalogue"
  /\ UNCHANGED <<giftCardsVars, offerVars, accountVars, pushVars,
                 captchaVars, channelPoolVars, active>>

OnlyChannelPool ==
  /\ active = "ChannelPool"
  /\ UNCHANGED <<giftCardsVars, offerVars, accountVars, pushVars,
                 captchaVars, catalogueVars, active>>

Next ==
  \/ OnlyGiftCards /\ GiftCardsNext
  \/ OnlyOfferLimit /\ OfferLimitNext
  \/ OnlyAccounts /\ AccountsNext
  \/ OnlyPushAuth /\ PushAuthNext
  \/ OnlyCaptcha /\ CaptchaNext
  \/ OnlyCatalogue /\ CatalogueNext
  \/ OnlyChannelPool /\ ChannelPoolNext

Spec == Init /\ [][Next]_servicesVars

-----------------------------------------------------------------------------
(* Fairness.  One component runs, so that a disjunction over the components  *)
(* is fair to each of them.                                                  *)

\* A thread goes on with its request or job; a worker that is free starts the job
\* cron asks for.
Work(w) ==
  \/ OnlyGiftCards /\ (BeginReplenish(w) \/ CardWork(w))
  \/ OnlyPushAuth /\ CallWork(w)
  \/ OnlyCaptcha /\ SubmissionWork(w)
  \/ OnlyCatalogue /\ ViewWork(w)

\* Blackhawk processes what was ordered, the user asks for tasks, caches expire.
Elsewhere ==
  \/ OnlyGiftCards /\ \E o \in Orders : ProcessOrder(o)
  \/ OnlyCaptcha /\ \E c \in Categories : ServeTask(c)
  \/ OnlyCatalogue /\ (TasksCacheExpires \/ CatsCacheExpires)

\* The user goes on launching the app, submitting tasks, and asking for the
\* categories: such a request waits until a worker takes it.
UserAsks ==
  \/ OnlyPushAuth /\ \E w \in Workers : Launch(w)
  \/ OnlyCaptcha /\ \E w \in Workers, c \in Categories : SubmitTask(w, c)
  \/ OnlyCatalogue /\ (ServeCategories \/ \E w \in Workers : BeginCategories(w))

\* The app acknowledges what it was pushed.
AppAnswers == OnlyPushAuth /\ \E w \in Workers, t \in Tokens : AppAcks(w, t)

\* A thread that polls the pool, or waits for the lock, has its turn some time.
SenderGoesOn(s) == OnlyChannelPool /\ (SendWork(s) \/ GetOn(s))

FairSpec ==
  /\ Spec
  /\ \A w \in Workers : WF_servicesVars(Work(w))
  /\ WF_servicesVars(Elsewhere)
  /\ SF_servicesVars(UserAsks) /\ SF_servicesVars(AppAnswers)
  /\ \A s \in Senders : SF_servicesVars(SenderGoesOn(s))

-----------------------------------------------------------------------------

\* Every variable of the services has its type: the state the code keeps stays
\* within what the modules say of it.
ServicesTypesOK ==
  /\ GiftCardsTypeOK /\ OfferLimitTypeOK /\ AccountsTypeOK /\ PushAuthTypeOK
  /\ CaptchaTypeOK /\ CatalogueTypeOK /\ ChannelPoolTypeOK

Sym == Permutations(Workers)
=============================================================================
