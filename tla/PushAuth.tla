-------------------------------- MODULE PushAuth --------------------------------
(***************************************************************************)
(* Authentication by push, for one user.  The server pushes a token to the *)
(* app, which acknowledges it; the user is authenticated from then on.     *)
(* Launching the app, or telling the server where to push, sends the token *)
(* again when it is due; cron scans for users that failed to acknowledge.  *)
(***************************************************************************)
EXTENDS Threads

CONSTANT MaxToken  \* bound: how often the token is generated anew

ASSUME PushAuthAssumption ==
  MaxToken \in Nat /\ None \notin {"fresh", "due", "old", "stale"}

VARIABLES
  pushable,       \* user.push_token is set
  token,          \* column auth_token: which of the generated tokens
  authenticated,  \* column authenticated
  sendAge,        \* how long send_date lies back, None when it is NULL
  updating,       \* redis lock update_token: is held
  pushes,         \* tokens in pushes on their way to the app
  callStep, call, \* where each request stands; the token it sends or compares
  acked           \* history: the tokens the server has seen acknowledged

pushVars == <<pushable, token, authenticated, sendAge, updating, pushes, callStep, call, acked>>
rowVars == <<pushable, token, authenticated, sendAge, acked>>

\* Under 5 seconds, up to 10, up to AUTH_TOKEN_SEND_INTERVAL_DAYS, and more.
Ages == {"fresh", "due", "old", "stale"}
Older == [fresh |-> "due", due |-> "old", old |-> "stale", stale |-> "stale"]
Tokens == 0 .. MaxToken

SendSteps == {"should", "refresh", "read", "push", "date"}
AckSteps == {"compare", "ack"}
CallSteps == {"idle"} \cup SendSteps \cup AckSteps

\* locked: the request holds the lock update_token.
Call == [token : Tokens, locked : BOOLEAN]
NoCall == [token |-> 0, locked |-> FALSE]

PushAuthTypeOK ==
  /\ pushable \in BOOLEAN /\ authenticated \in BOOLEAN /\ updating \in BOOLEAN
  /\ token \in Tokens
  /\ sendAge \in Ages \cup {None}
  /\ pushes \subseteq Tokens
  /\ callStep \in [Workers -> CallSteps]
  /\ call \in [Workers -> Call]
  /\ acked \subseteq Tokens

PushAuthInit ==
  /\ pushable = FALSE /\ authenticated = FALSE /\ updating = FALSE
  /\ token = 0
  /\ sendAge = None
  /\ pushes = {}
  /\ callStep = [w \in Workers |-> "idle"]
  /\ call = [w \in Workers |-> NoCall]
  /\ acked = {}

-----------------------------------------------------------------------------
(* Operators named ...Broken are the code with one plausible mistake in it; *)
(* no action uses them.  They show that a property notices the mistake.      *)

CallGoto(w, step) == callStep' = [callStep EXCEPT ![w] = step]
CallStart(w, step, c) ==
  callStep[w] = "idle" /\ CallGoto(w, step) /\ call' = [call EXCEPT ![w] = c]

\* The end of a request releases the lock it holds.
CallFinish(w) ==
  /\ CallGoto(w, "idle") /\ call' = [call EXCEPT ![w] = NoCall]
  /\ updating' = (updating /\ ~call[w].locked)

-----------------------------------------------------------------------------
(* What calls send_push_auth_token. *)

\* POST /user/app-launch.
Launch(w) ==
  /\ CallStart(w, "should", NoCall)
  /\ UNCHANGED <<rowVars, updating, pushes>>

\* POST /user/update-token; ignored while another one holds the lock.
UpdatePushToken(w) ==
  /\ ~updating
  /\ CallStart(w, "should", [NoCall EXCEPT !.locked = TRUE])
  /\ updating' = TRUE /\ pushable' = TRUE
  /\ UNCHANGED <<token, authenticated, sendAge, pushes, acked>>

\* An operator's forced send does not ask whether it is due.
ForceSend(w) ==
  /\ CallStart(w, "read", NoCall)
  /\ UNCHANGED <<rowVars, updating, pushes>>

-----------------------------------------------------------------------------
(* should_send_auth_token, refresh_token, send_push_auth_token. *)

\* The token is due when it was never sent, while the user is not authenticated,
\* and after the interval, when it is generated anew.
ShouldSendBroken(w) ==
  /\ callStep[w] = "should"
  /\ IF sendAge = "stale"
       THEN CallGoto(w, "refresh") /\ UNCHANGED <<call, updating>>
       ELSE IF ~authenticated
         THEN CallGoto(w, "read") /\ UNCHANGED <<call, updating>>
         ELSE CallFinish(w)
  /\ UNCHANGED <<rowVars, pushes>>

ShouldSend(w) ==
  /\ callStep[w] = "should"
  /\ IF sendAge = None \/ ~authenticated
       THEN CallGoto(w, "read") /\ UNCHANGED <<call, updating>>
       ELSE IF sendAge = "stale"
         THEN CallGoto(w, "refresh") /\ UNCHANGED <<call, updating>>
         ELSE CallFinish(w)
  /\ UNCHANGED <<rowVars, pushes>>

\* The user stays authenticated by the token that was there.
RefreshAuthToken(w) ==
  /\ callStep[w] = "refresh" /\ token < MaxToken
  /\ token' = token + 1
  /\ CallGoto(w, "read")
  /\ UNCHANGED <<pushable, authenticated, sendAge, updating, pushes, call, acked>>

ReadToken(w) ==
  /\ callStep[w] = "read"
  /\ IF pushable
       THEN CallGoto(w, "push") /\ call' = [call EXCEPT ![w].token = token] /\ UNCHANGED updating
       ELSE CallFinish(w)
  /\ UNCHANGED <<rowVars, pushes>>

\* push_send_gcm, push_send_apns: no failure is reported.
SendPush(t) == \E sent \in Answered : pushes' = IF sent THEN pushes \cup {t} ELSE pushes

Push(w) ==
  /\ callStep[w] = "push"
  /\ SendPush(call[w].token)
  /\ CallGoto(w, "date")
  /\ UNCHANGED <<rowVars, updating, call>>

SetSendDate(w) ==
  /\ callStep[w] = "date"
  /\ sendAge' = "fresh"
  /\ CallFinish(w)
  /\ UNCHANGED <<pushable, token, authenticated, pushes, acked>>

-----------------------------------------------------------------------------
(* POST /user/auth/ack: ack_auth_token. *)

\* The push may arrive again (it is sent twice to iOS).
AppAcks(w, t) ==
  /\ t \in pushes
  /\ CallStart(w, "compare", [NoCall EXCEPT !.token = t])
  /\ pushes' \in {pushes, pushes \ {t}}
  /\ UNCHANGED <<rowVars, updating>>

CompareTokenBroken(w) ==
  /\ callStep[w] = "compare"
  /\ CallFinish(w)
  /\ UNCHANGED <<rowVars, pushes>>

CompareToken(w) ==
  /\ callStep[w] = "compare"
  /\ IF call[w].token = token
       THEN CallGoto(w, "ack") /\ acked' = acked \cup {token} /\ UNCHANGED <<call, updating>>
       ELSE CallFinish(w) /\ UNCHANGED acked
  /\ UNCHANGED <<pushable, token, authenticated, sendAge, pushes>>

SetAckDate(w) ==
  /\ callStep[w] = "ack"
  /\ authenticated' = TRUE
  /\ CallFinish(w)
  /\ UNCHANGED <<pushable, token, sendAge, pushes, acked>>

-----------------------------------------------------------------------------
(* GET /users/deauth, from cron: scan_for_deauthed_users, deauth_users. *)

\* The age of the acknowledgement is computed from send_date as well.
Unacknowledged(ackAge) == sendAge = "due" /\ ackAge \in {"old", "stale"}

ScanForDeauthed ==
  /\ authenticated' = (authenticated /\ ~Unacknowledged(sendAge))
  /\ UNCHANGED <<pushable, token, sendAge, updating, pushes, callStep, call, acked>>

-----------------------------------------------------------------------------
(* What happens beside the requests. *)

TimePasses ==
  /\ sendAge # None
  /\ sendAge' = Older[sendAge]
  /\ UNCHANGED <<pushable, token, authenticated, updating, pushes, callStep, call, acked>>

PushLost(t) ==
  /\ Faulty /\ t \in pushes
  /\ pushes' = pushes \ {t}
  /\ UNCHANGED <<rowVars, updating, callStep, call>>

\* The lock update_token: stays behind, and does not expire.
CallDies(w) ==
  /\ Faulty /\ callStep[w] # "idle"
  /\ CallGoto(w, "idle") /\ call' = [call EXCEPT ![w] = NoCall]
  /\ UNCHANGED <<rowVars, updating, pushes>>

CallWork(w) ==
  \/ ShouldSend(w) \/ RefreshAuthToken(w) \/ ReadToken(w) \/ Push(w) \/ SetSendDate(w)
  \/ CompareToken(w) \/ SetAckDate(w)

PushAuthNext ==
  \/ \E w \in Workers :
       \/ Launch(w) \/ UpdatePushToken(w) \/ ForceSend(w)
       \/ \E t \in Tokens : AppAcks(w, t)
       \/ CallWork(w) \/ CallDies(w)
  \/ \E t \in Tokens : PushLost(t)
  \/ ScanForDeauthed \/ TimePasses

PushAuthSpec == PushAuthInit /\ [][PushAuthNext]_pushVars

-----------------------------------------------------------------------------
(* Properties. *)

\* While the user is not authenticated, every push on its way, and every token a
\* request is about to push, is the one in the table, whatever other requests do:
\* the token is generated anew only for an authenticated user.
PushedTokenValid ==
  ~authenticated =>
    /\ pushes \subseteq {token}
    /\ \A w \in Workers : callStep[w] = "push" => call[w].token = token

\* A user who can be pushed to is authenticated in the end: the token is sent at
\* every launch until it is acknowledged.
UserGetsAuthenticated == pushable ~> authenticated
=============================================================================
