------------------------------ MODULE Sessions ------------------------------
(***************************************************************************)
(* One browser's session: the cookies its tabs share, the refresh tokens   *)
(* in the database, and the requests that replace one by another           *)
(* (try_refresh_access_token in app/core/security.py, POST /auth/refresh,  *)
(* the session-expiry middleware, app/static/auth-guard.js).               *)
(*                                                                         *)
(* A refresh deletes the token it was sent and makes a new one; the cookie *)
(* jar learns of it only by the answer.  A page that gets 401 asks for one *)
(* refresh however many of its requests failed; its timer asks on its own. *)
(***************************************************************************)
EXTENDS Integers, FiniteSets

CONSTANTS
    Page,           \* open tabs: a page that loads, or its fetch wrapper
    Timer,          \* their proactive refreshes, which nobody waits for
    MaxToken        \* bound: refresh tokens minted

ASSUME SessionsConstants == MaxToken \in Nat /\ Page \cap Timer = {}

VARIABLES
    token,          \* rows of refresh_tokens, by serial number
    expired,        \* those past their expires_at
    lastToken,
    jar,            \* the browser's refresh_token cookie; 0 is none
    access,         \* the browser has an access token that has not expired
    active,         \* users.is_active
    call,           \* refreshes and a sign-out in flight
    screen,         \* what each page shows
    left,           \* history: tokens an earlier sign-in left behind
    over,           \* history: signed out, expired or disabled since the sign-in
    disturbed,      \* history: two calls overlapped, or an answer was lost
    astray          \* history: a page was sent to sign in though it was not over

sessionsVars == <<token, expired, lastToken, jar, access, active, call, screen, left, over,
                  disturbed, astray>>

Caller == Page \cup Timer
Silent == [at |-> "silent"]
InFlight == {c \in Caller : call[c] # Silent}

SessionsInit ==
    /\ token = {} /\ expired = {} /\ lastToken = 0
    /\ jar = 0 /\ access = FALSE
    /\ active = TRUE
    /\ call = [c \in Caller |-> Silent]
    /\ screen = [p \in Page |-> "login"]
    /\ left = {} /\ over = TRUE
    /\ disturbed = FALSE /\ astray = FALSE
-----------------------------------------------------------------------------
\* A sign-in makes a token whether or not the browser has one.
SignIn(p) ==
    /\ screen[p] = "login" /\ call[p] = Silent
    /\ active /\ lastToken < MaxToken
    /\ lastToken' = lastToken + 1
    /\ token' = token \cup {lastToken + 1}
    /\ jar' = lastToken + 1
    /\ access' = TRUE
    /\ screen' = [screen EXCEPT ![p] = "app"]
    /\ left' = token
    /\ over' = FALSE
    /\ disturbed' = (InFlight # {})
    /\ astray' = FALSE
    /\ UNCHANGED <<expired, active, call>>

\* A page that is opened, or asks for data, while the access token is good.
Visit(p) ==
    /\ access /\ active
    /\ screen' = [screen EXCEPT ![p] = "app"]
    /\ UNCHANGED <<token, expired, lastToken, jar, access, active, call, left, over, disturbed,
                   astray>>

SendToLogin(c) ==
    /\ screen' = [p \in Page |-> IF p = c THEN "login" ELSE screen[p]]
    /\ astray' = (astray \/ (c \in Page /\ ~over))

\* A page on 401, or the timer: a refresh with the cookie there is.
AskRefresh(c) ==
    /\ call[c] = Silent /\ jar # 0
    /\ c \in Page => ~access
    /\ call' = [call EXCEPT ![c] = [at |-> "sent", with |-> jar, new |-> 0]]
    /\ disturbed' = (disturbed \/ InFlight # {})
    /\ UNCHANGED <<token, expired, lastToken, jar, access, active, screen, left, over, astray>>

\* Without the cookie the page goes to the sign-in.
NoCookie(p) ==
    /\ call[p] = Silent /\ jar = 0 /\ ~access
    /\ SendToLogin(p)
    /\ UNCHANGED <<token, expired, lastToken, jar, access, active, call, left, over, disturbed>>

\* The token is looked up, then the user.
CheckToken(c) ==
    /\ call[c].at = "sent"
    /\ call' = [call EXCEPT ![c].at =
         IF call[c].with \in token \ expired /\ active THEN "read" ELSE "answer"]
    /\ UNCHANGED <<token, expired, lastToken, jar, access, active, screen, left, over, disturbed,
                   astray>>

\* The old token goes and a new one comes in one commit; a token that is gone
\* by now is no error.
RotateToken(c) ==
    /\ call[c].at = "read" /\ lastToken < MaxToken
    /\ lastToken' = lastToken + 1
    /\ token' = (token \ {call[c].with}) \cup {lastToken + 1}
    /\ call' = [call EXCEPT ![c].at = "answer", ![c].new = lastToken + 1]
    /\ UNCHANGED <<expired, jar, access, active, screen, left, over, disturbed, astray>>

\* Mutant: the answer brings the access token and not the new refresh token.
KeptCookie(c) == jar
NewCookie(c) == call[c].new
TakeAnswer(c) ==
    /\ call[c].at = "answer"
    /\ IF call[c].new # 0
       THEN /\ jar' = NewCookie(c)
            /\ access' = TRUE
            /\ screen' = [p \in Page |-> IF p = c THEN "app" ELSE screen[p]]
            /\ UNCHANGED astray
       ELSE /\ UNCHANGED <<jar, access>>
            /\ SendToLogin(c)
    /\ call' = [call EXCEPT ![c] = Silent]
    /\ UNCHANGED <<token, expired, lastToken, active, left, over, disturbed>>

\* The answer, or the request, is lost: the fetch wrapper takes it for a refusal;
\* a page that loads shows the browser's error.
LoseAnswer(c) ==
    /\ call[c].at # "silent"
    /\ call' = [call EXCEPT ![c] = Silent]
    /\ disturbed' = TRUE
    /\ SendToLogin(c) \/ UNCHANGED <<screen, astray>>
    /\ UNCHANGED <<token, expired, lastToken, jar, access, active, left, over>>

\* Sign-out: the token of the cookie is deleted, and the answer clears the cookies.
SignOut(p) ==
    /\ call[p] = Silent /\ screen[p] = "app"
    /\ over' = TRUE
    /\ call' = [call EXCEPT ![p] = [at |-> "out", with |-> jar, new |-> 0]]
    /\ disturbed' = (disturbed \/ InFlight # {})
    /\ UNCHANGED <<token, expired, lastToken, jar, access, active, screen, left, astray>>

DeleteToken(p) ==
    /\ call[p].at = "out"
    /\ token' = token \ {call[p].with}
    /\ call' = [call EXCEPT ![p].at = "signed out"]
    /\ UNCHANGED <<expired, lastToken, jar, access, active, screen, left, over, disturbed, astray>>

SignedOut(p) ==
    /\ call[p].at = "signed out"
    /\ jar' = 0 /\ access' = FALSE
    /\ screen' = [screen EXCEPT ![p] = "login"]
    /\ call' = [call EXCEPT ![p] = Silent]
    /\ UNCHANGED <<token, expired, lastToken, active, left, over, disturbed, astray>>
-----------------------------------------------------------------------------
\* Time, and the administrators.
AccessExpires ==
    /\ access
    /\ access' = FALSE
    /\ UNCHANGED <<token, expired, lastToken, jar, active, call, screen, left, over, disturbed,
                   astray>>

TokenExpires(k) ==
    /\ k \in token \ expired
    /\ expired' = expired \cup {k}
    /\ over' = TRUE
    /\ UNCHANGED <<token, lastToken, jar, access, active, call, screen, left, disturbed, astray>>

SetActive(b) ==
    /\ active # b
    /\ active' = b
    /\ over' = (over \/ ~b)
    /\ UNCHANGED <<token, expired, lastToken, jar, access, call, screen, left, disturbed, astray>>

SessionsNext ==
    \/ \E p \in Page :
          \/ SignIn(p)
          \/ Visit(p)
          \/ NoCookie(p)
          \/ SignOut(p)
          \/ DeleteToken(p)
          \/ SignedOut(p)
    \/ \E c \in Caller :
          \/ AskRefresh(c)
          \/ CheckToken(c)
          \/ RotateToken(c)
          \/ TakeAnswer(c)
          \/ LoseAnswer(c)
    \/ AccessExpires
    \/ \E k \in token : TokenExpires(k)
    \/ \E b \in BOOLEAN : SetActive(b)

SessionsSpec == SessionsInit /\ [][SessionsNext]_sessionsVars
-----------------------------------------------------------------------------
SessionsTypeOK ==
    /\ token \subseteq 1..MaxToken /\ expired \subseteq 1..MaxToken /\ left \subseteq 1..MaxToken
    /\ lastToken \in 0..MaxToken /\ jar \in 0..MaxToken
    /\ access \in BOOLEAN /\ active \in BOOLEAN
    /\ screen \in [Page -> {"login", "app"}]
    /\ call \in [Caller -> {Silent} \cup
                           [at : {"sent", "read", "answer", "out", "signed out"},
                            with : 0..MaxToken, new : 0..MaxToken]]
    /\ over \in BOOLEAN /\ disturbed \in BOOLEAN /\ astray \in BOOLEAN

\* security.py:159-203, auth.py:408-476: between requests the browser's cookie is
\* the one live token of its session, none once it signed out, and no page is
\* sent to sign in while the session lasts; only calls that overlap, from two tabs
\* or a timer, or an answer that is lost, leave it with a dead cookie or a token
\* nobody holds.
SessionIsWhole ==
    ~disturbed =>
        /\ ~astray
        /\ InFlight = {} => token \ left = (IF jar = 0 THEN {} ELSE {jar})
=============================================================================
