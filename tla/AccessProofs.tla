----------------------------- MODULE AccessProofs -----------------------------
(***************************************************************************)
(* Proofs about Sessions and Users.                                        *)
(*                                                                         *)
(* For any tabs and timers and any number of tokens, the state of a        *)
(* session is well typed, and calls that do not overlap keep the browser's *)
(* cookie the one live token of its session.                               *)
(*                                                                         *)
(* For any accounts, roles, permissions, forms and number of overlapping   *)
(* requests, the users' rows are well typed, a user may do what was last   *)
(* ticked for them, and deletions leave an administrator.                  *)
(***************************************************************************)
EXTENDS Sessions, Users, FiniteSetTheorems, TLAPS

Request == [at : {"sent", "read", "answer", "out", "signed out"},
            with : 0..MaxToken, new : 0..MaxToken]

\* Serial numbers are those of tokens minted so far.
Minted ==
    token \subseteq 1..lastToken /\ expired \subseteq 1..lastToken /\ left \subseteq 1..lastToken

\* Until something ends the session its user is active and its tokens are good.
Lasting == ~over => active /\ (token \ left) \cap expired = {}

Held == IF jar = 0 THEN {} ELSE {jar}

\* What the one request in flight means for the session's tokens.
Fits(c) ==
    LET r == call[c]
        own == token \ left
    IN  /\ r.at \in {"sent", "read"} => jar # 0 /\ r.with = jar /\ r.new = 0 /\ own = {jar}
        /\ r.at = "answer" /\ r.new = 0 => jar # 0 /\ own = {jar} /\ over
        /\ r.at = "answer" /\ r.new # 0 => own = {r.new}
        /\ r.at = "out" => r.with = jar /\ own = Held /\ over
        /\ r.at = "signed out" => own = {} /\ over

Quiet ==
    ~disturbed =>
        /\ ~astray
        /\ jar = 0 => over
        /\ \A c, d \in InFlight : c = d
        /\ InFlight = {} => token \ left = Held
        /\ \A c \in InFlight : Fits(c)

SessionsInv == SessionsTypeOK /\ Minted /\ Lasting /\ Quiet
-----------------------------------------------------------------------------
(* Calls.                                                                   *)

LEMMA InFlightAt ==
    ASSUME SessionsTypeOK, NEW c \in Caller
    PROVE  /\ c \in InFlight <=> call[c].at # "silent"
           /\ c \in InFlight => call[c] \in Request
  <1>1. call[c] = Silent \/ call[c] \in Request
    BY DEF SessionsTypeOK, Request
  <1>2. Silent.at = "silent"
    BY DEF Silent
  <1>3. \A r \in Request : r.at # "silent"
    BY DEF Request
  <1> QED
    BY <1>1, <1>2, <1>3 DEF InFlight

\* A call that begins or goes on.
LEMMA CallGoesOn ==
    ASSUME SessionsTypeOK, NEW c \in Caller, NEW r \in Request,
           call' = [call EXCEPT ![c] = r]
    PROVE  /\ call'[c] = r
           /\ \A d \in Caller : d # c => call'[d] = call[d]
           /\ InFlight' = InFlight \cup {c}
           /\ call' \in [Caller -> {Silent} \cup Request]
  <1>1. r # Silent
    <2>1. r.at # "silent" /\ Silent.at = "silent"
      BY DEF Request, Silent
    <2> QED
      BY <2>1
  <1>2. call \in [Caller -> {Silent} \cup Request]
    BY DEF SessionsTypeOK, Request
  <1> QED
    BY <1>1, <1>2 DEF InFlight

\* A call that ends.
LEMMA CallEnds ==
    ASSUME SessionsTypeOK, NEW c \in Caller, call' = [call EXCEPT ![c] = Silent]
    PROVE  /\ \A d \in Caller : d # c => call'[d] = call[d]
           /\ InFlight' = InFlight \ {c}
           /\ call' \in [Caller -> {Silent} \cup Request]
  <1>1. call \in [Caller -> {Silent} \cup Request]
    BY DEF SessionsTypeOK, Request
  <1> QED
    BY <1>1 DEF InFlight

\* A token to be minted is new.
LEMMA NextToken ==
    ASSUME SessionsTypeOK, Minted
    PROVE  /\ MaxToken \in Nat /\ lastToken \in Nat /\ lastToken <= MaxToken
           /\ jar \in 0..MaxToken /\ 0 \in 0..MaxToken /\ 0 \notin token
           /\ lastToken + 1 # 0
           /\ lastToken + 1 \notin token /\ lastToken + 1 \notin expired
           /\ lastToken + 1 \notin left
           /\ lastToken < MaxToken =>
                 /\ lastToken + 1 \in 0..MaxToken
                 /\ lastToken + 1 \in 1..MaxToken
           /\ 1..lastToken \subseteq 1..(lastToken + 1)
           /\ lastToken + 1 \in 1..(lastToken + 1)
  <1>1. MaxToken \in Nat /\ lastToken \in 0..MaxToken /\ jar \in 0..MaxToken
    BY SessionsConstants DEF SessionsTypeOK
  <1>2. token \subseteq 1..lastToken /\ expired \subseteq 1..lastToken /\ left \subseteq 1..lastToken
    BY DEF Minted
  <1> QED
    BY <1>1, <1>2

LEMMA CallStays ==
    ASSUME call' = call
    PROVE  InFlight' = InFlight
  BY DEF InFlight

\* A call alone in flight is the one that moves.
LEMMA Alone ==
    ASSUME SessionsInv, ~disturbed, NEW c \in InFlight
    PROVE  InFlight = {c} /\ Fits(c)
  BY DEF SessionsInv, Quiet
-----------------------------------------------------------------------------
(* Steps.                                                                   *)

LEMMA SignInKeeps ==
    ASSUME SessionsInv, NEW p \in Page, SignIn(p)
    PROVE  SessionsInv'
  <1> USE NextToken DEF SessionsInv, SignIn
  <1>1. SessionsTypeOK'
    <2>1. token' \subseteq 1..MaxToken /\ lastToken' \in 0..MaxToken /\ jar' \in 0..MaxToken
      BY DEF SessionsTypeOK
    <2>2. /\ screen' \in [Page -> {"login", "app"}]
          /\ over' \in BOOLEAN /\ disturbed' \in BOOLEAN /\ astray' \in BOOLEAN
          /\ access' \in BOOLEAN /\ left' \subseteq 1..MaxToken
      BY DEF SessionsTypeOK
    <2>3. UNCHANGED <<expired, active, call>>
      OBVIOUS
    <2> QED
      BY <2>1, <2>2, <2>3 DEF SessionsTypeOK
  <1>2. Minted'
    BY DEF Minted
  <1>3. token' \ left' = {lastToken + 1} /\ lastToken + 1 \notin expired
    OBVIOUS
  <1>4. Lasting'
    BY <1>3 DEF Lasting
  <1>5. InFlight' = InFlight
    BY CallStays
  <1>6. Quiet'
    BY <1>3, <1>5 DEF Quiet, Held
  <1> QED
    BY <1>1, <1>2, <1>4, <1>6

LEMMA VisitKeeps ==
    ASSUME SessionsInv, NEW p \in Page, Visit(p)
    PROVE  SessionsInv'
  <1> USE DEF SessionsInv, Visit
  <1>1. SessionsTypeOK'
    BY DEF SessionsTypeOK
  <1>2. Minted' /\ Lasting'
    BY DEF Minted, Lasting
  <1>3. Quiet'
    BY DEF Quiet, Held, Fits, InFlight
  <1> QED
    BY <1>1, <1>2, <1>3

LEMMA NoCookieKeeps ==
    ASSUME SessionsInv, NEW p \in Page, NoCookie(p)
    PROVE  SessionsInv'
  <1> USE DEF SessionsInv, NoCookie, SendToLogin
  <1>1. SessionsTypeOK'
    BY DEF SessionsTypeOK
  <1>2. Minted' /\ Lasting'
    BY DEF Minted, Lasting
  <1>3. Quiet'
    BY DEF Quiet, Held, Fits, InFlight
  <1> QED
    BY <1>1, <1>2, <1>3

LEMMA AskRefreshKeeps ==
    ASSUME SessionsInv, NEW c \in Caller, AskRefresh(c)
    PROVE  SessionsInv'
  <1> DEFINE r == [at |-> "sent", with |-> jar, new |-> 0]
  <1> USE NextToken DEF SessionsInv
  <1>1. r \in Request
    BY DEF Request
  <1>2. /\ jar # 0 /\ call' = [call EXCEPT ![c] = r]
        /\ disturbed' = (disturbed \/ InFlight # {})
        /\ UNCHANGED <<token, expired, lastToken, jar, access, active, screen, left, over, astray>>
    BY DEF AskRefresh
  <1>3. /\ call'[c] = r /\ InFlight' = InFlight \cup {c}
        /\ call' \in [Caller -> {Silent} \cup Request]
    BY <1>1, <1>2, CallGoesOn
  <1>4. SessionsTypeOK'
    BY <1>2, <1>3 DEF SessionsTypeOK, Request
  <1>5. Minted' /\ Lasting'
    BY <1>2 DEF Minted, Lasting
  <1>6. Quiet'
    BY <1>2, <1>3 DEF Quiet, Held, Fits
  <1> QED
    BY <1>4, <1>5, <1>6

LEMMA CheckTokenKeeps ==
    ASSUME SessionsInv, NEW c \in Caller, CheckToken(c)
    PROVE  SessionsInv'
  <1> DEFINE good == call[c].with \in token \ expired /\ active
             r == [call[c] EXCEPT !.at = IF good THEN "read" ELSE "answer"]
  <1> USE DEF SessionsInv
  <1>1. c \in InFlight /\ call[c] \in Request /\ call[c].at = "sent"
    BY InFlightAt DEF CheckToken
  <1>2. /\ r \in Request /\ r.with = call[c].with /\ r.new = call[c].new
        /\ r.at = IF good THEN "read" ELSE "answer"
    BY <1>1 DEF Request
  <1>3. /\ call' = [call EXCEPT ![c] = r]
        /\ UNCHANGED <<token, expired, lastToken, jar, access, active, screen, left, over,
                       disturbed, astray>>
    BY <1>1 DEF CheckToken, SessionsTypeOK
  <1> HIDE DEF r
  <1>4. /\ call'[c] = r /\ InFlight' = InFlight \cup {c}
        /\ call' \in [Caller -> {Silent} \cup Request]
    BY <1>2, <1>3, CallGoesOn
  <1>5. SessionsTypeOK'
    BY <1>3, <1>4 DEF SessionsTypeOK, Request
  <1>6. Minted' /\ Lasting'
    BY <1>3 DEF Minted, Lasting
  <1>7. Quiet'
    <2> SUFFICES ASSUME ~disturbed PROVE Quiet'
      BY <1>3 DEF Quiet
    <2>1. /\ InFlight' = {c}
          /\ jar # 0 /\ call[c].with = jar /\ call[c].new = 0 /\ token \ left = {jar}
      BY <1>1, <1>4, Alone DEF Fits
    <2>2. ~good => over
      BY <2>1 DEF Lasting
    <2>3. Fits(c)'
      BY <1>2, <1>3, <1>4, <2>1, <2>2 DEF Fits
    <2> QED
      BY <1>3, <2>1, <2>3 DEF Quiet
  <1> QED
    BY <1>5, <1>6, <1>7

LEMMA RotateTokenKeeps ==
    ASSUME SessionsInv, NEW c \in Caller, RotateToken(c)
    PROVE  SessionsInv'
  <1> DEFINE r == [call[c] EXCEPT !.at = "answer", !.new = lastToken + 1]
  <1> USE NextToken DEF SessionsInv
  <1>1. c \in InFlight /\ call[c] \in Request /\ call[c].at = "read" /\ lastToken < MaxToken
    BY InFlightAt DEF RotateToken
  <1>2. r \in Request /\ r.at = "answer" /\ r.new = lastToken + 1
    BY <1>1 DEF Request
  <1>3. /\ call' = [call EXCEPT ![c] = r]
        /\ lastToken' = lastToken + 1
        /\ token' = (token \ {call[c].with}) \cup {lastToken + 1}
        /\ UNCHANGED <<expired, jar, access, active, screen, left, over, disturbed, astray>>
    BY <1>1 DEF RotateToken, SessionsTypeOK
  <1> HIDE DEF r
  <1>4. /\ call'[c] = r /\ InFlight' = InFlight \cup {c}
        /\ call' \in [Caller -> {Silent} \cup Request]
    BY <1>2, <1>3, CallGoesOn
  <1>5. SessionsTypeOK'
    <2>1. token' \subseteq 1..MaxToken /\ lastToken' \in 0..MaxToken
      BY <1>1, <1>3 DEF SessionsTypeOK
    <2> QED
      BY <1>3, <1>4, <2>1 DEF SessionsTypeOK, Request
  <1>6. lastToken + 1 \notin expired /\ lastToken + 1 \notin left
    OBVIOUS
  <1>7. Minted'
    BY <1>3 DEF Minted
  <1>8. Lasting'
    BY <1>3, <1>6 DEF Lasting
  <1>9. Quiet'
    <2> SUFFICES ASSUME ~disturbed PROVE Quiet'
      BY <1>3 DEF Quiet
    <2>1. /\ InFlight' = {c}
          /\ jar # 0 /\ call[c].with = jar /\ token \ left = {jar}
      BY <1>1, <1>4, Alone DEF Fits
    <2>2. token' \ left' = {lastToken + 1}
      BY <1>3, <1>6, <2>1
    <2>3. Fits(c)'
      BY <1>2, <1>4, <2>2 DEF Fits
    <2> QED
      BY <1>3, <2>1, <2>3 DEF Quiet
  <1> QED
    BY <1>5, <1>7, <1>8, <1>9

LEMMA TakeAnswerKeeps ==
    ASSUME SessionsInv, NEW c \in Caller, TakeAnswer(c)
    PROVE  SessionsInv'
  <1> USE DEF SessionsInv
  <1>1. c \in InFlight /\ call[c] \in Request /\ call[c].at = "answer"
    BY InFlightAt DEF TakeAnswer
  <1>2. /\ call' = [call EXCEPT ![c] = Silent]
        /\ UNCHANGED <<token, expired, lastToken, active, left, over, disturbed>>
    BY DEF TakeAnswer
  <1>3. InFlight' = InFlight \ {c} /\ call' \in [Caller -> {Silent} \cup Request]
    BY <1>2, CallEnds
  <1>4. Minted' /\ Lasting'
    BY <1>2 DEF Minted, Lasting
  <1>5. CASE call[c].new # 0
    <2>1. /\ jar' = call[c].new /\ access' = TRUE /\ astray' = astray
          /\ screen' = [q \in Page |-> IF q = c THEN "app" ELSE screen[q]]
      BY <1>5 DEF TakeAnswer, NewCookie
    <2>2. SessionsTypeOK'
      BY <1>1, <1>2, <1>3, <2>1 DEF SessionsTypeOK, Request
    <2>3. Quiet'
      <3> SUFFICES ASSUME ~disturbed PROVE Quiet'
        BY <1>2 DEF Quiet
      <3>1. InFlight' = {} /\ token \ left = {call[c].new}
        BY <1>1, <1>3, <1>5, Alone DEF Fits
      <3> QED
        BY <1>2, <1>5, <2>1, <3>1 DEF Quiet, Held
    <2> QED
      BY <1>4, <2>2, <2>3
  <1>6. CASE call[c].new = 0
    <2>1. /\ jar' = jar /\ access' = access
          /\ astray' = (astray \/ (c \in Page /\ ~over))
          /\ screen' = [q \in Page |-> IF q = c THEN "login" ELSE screen[q]]
      BY <1>6 DEF TakeAnswer, SendToLogin
    <2>2. SessionsTypeOK'
      BY <1>2, <1>3, <2>1 DEF SessionsTypeOK, Request
    <2>3. Quiet'
      <3> SUFFICES ASSUME ~disturbed PROVE Quiet'
        BY <1>2 DEF Quiet
      <3>1. InFlight' = {} /\ jar # 0 /\ token \ left = {jar} /\ over
        BY <1>1, <1>3, <1>6, Alone DEF Fits
      <3> QED
        BY <1>2, <2>1, <3>1 DEF Quiet, Held
    <2> QED
      BY <1>4, <2>2, <2>3
  <1> QED
    BY <1>5, <1>6

LEMMA LoseAnswerKeeps ==
    ASSUME SessionsInv, NEW c \in Caller, LoseAnswer(c)
    PROVE  SessionsInv'
  <1> USE DEF SessionsInv
  <1>1. /\ call' = [call EXCEPT ![c] = Silent] /\ disturbed'
        /\ SendToLogin(c) \/ UNCHANGED <<screen, astray>>
        /\ UNCHANGED <<token, expired, lastToken, jar, access, active, left, over>>
    BY DEF LoseAnswer
  <1>2. call' \in [Caller -> {Silent} \cup Request]
    BY <1>1, CallEnds
  <1>3. disturbed' = TRUE
    BY DEF LoseAnswer
  <1>4. SessionsTypeOK'
    BY <1>1, <1>2, <1>3 DEF SessionsTypeOK, SendToLogin, Request
  <1>5. Minted' /\ Lasting' /\ Quiet'
    BY <1>1 DEF Minted, Lasting, Quiet
  <1> QED
    BY <1>4, <1>5

LEMMA SignOutKeeps ==
    ASSUME SessionsInv, NEW p \in Page, SignOut(p)
    PROVE  SessionsInv'
  <1> DEFINE r == [at |-> "out", with |-> jar, new |-> 0]
  <1> USE NextToken DEF SessionsInv
  <1>1. r \in Request /\ p \in Caller
    BY DEF Request, Caller
  <1>2. /\ call' = [call EXCEPT ![p] = r] /\ over' = TRUE
        /\ disturbed' = (disturbed \/ InFlight # {})
        /\ UNCHANGED <<token, expired, lastToken, jar, access, active, screen, left, astray>>
    BY DEF SignOut
  <1>3. /\ call'[p] = r /\ InFlight' = InFlight \cup {p}
        /\ call' \in [Caller -> {Silent} \cup Request]
    BY <1>1, <1>2, CallGoesOn
  <1>4. SessionsTypeOK'
    BY <1>2, <1>3 DEF SessionsTypeOK, Request
  <1>5. Minted' /\ Lasting'
    BY <1>2 DEF Minted, Lasting
  <1>6. Quiet'
    <2> SUFFICES ASSUME ~disturbed, InFlight = {} PROVE Quiet'
      BY <1>2 DEF Quiet
    <2>1. InFlight' = {p} /\ ~astray /\ token \ left = Held
      BY <1>3 DEF Quiet
    <2>2. Fits(p)'
      BY <1>2, <1>3, <2>1 DEF Fits, Held
    <2> QED
      BY <1>2, <2>1, <2>2 DEF Quiet
  <1> QED
    BY <1>4, <1>5, <1>6

LEMMA DeleteTokenKeeps ==
    ASSUME SessionsInv, NEW p \in Page, DeleteToken(p)
    PROVE  SessionsInv'
  <1> DEFINE r == [call[p] EXCEPT !.at = "signed out"]
  <1> USE DEF SessionsInv
  <1>1. p \in Caller /\ p \in InFlight /\ call[p] \in Request /\ call[p].at = "out"
    BY InFlightAt DEF DeleteToken, Caller
  <1>2. r \in Request /\ r.at = "signed out"
    BY <1>1 DEF Request
  <1>3. /\ call' = [call EXCEPT ![p] = r] /\ token' = token \ {call[p].with}
        /\ UNCHANGED <<expired, lastToken, jar, access, active, screen, left, over, disturbed,
                       astray>>
    BY <1>1 DEF DeleteToken, SessionsTypeOK
  <1> HIDE DEF r
  <1>4. /\ call'[p] = r /\ InFlight' = InFlight \cup {p}
        /\ call' \in [Caller -> {Silent} \cup Request]
    BY <1>1, <1>2, <1>3, CallGoesOn
  <1>5. SessionsTypeOK'
    BY <1>3, <1>4 DEF SessionsTypeOK, Request
  <1>6. Minted' /\ Lasting'
    BY <1>3 DEF Minted, Lasting
  <1>7. Quiet'
    <2> SUFFICES ASSUME ~disturbed PROVE Quiet'
      BY <1>3 DEF Quiet
    <2>1. InFlight' = {p} /\ call[p].with = jar /\ token \ left = Held /\ over
      BY <1>1, <1>4, Alone DEF Fits
    <2>2. token' \ left' = {}
      BY <1>3, <2>1 DEF Held, Minted, SessionsTypeOK
    <2>3. Fits(p)'
      BY <1>2, <1>3, <1>4, <2>1, <2>2 DEF Fits
    <2> QED
      BY <1>3, <2>1, <2>3 DEF Quiet
  <1> QED
    BY <1>5, <1>6, <1>7

LEMMA SignedOutKeeps ==
    ASSUME SessionsInv, NEW p \in Page, SignedOut(p)
    PROVE  SessionsInv'
  <1> USE NextToken DEF SessionsInv
  <1>1. p \in Caller /\ p \in InFlight /\ call[p].at = "signed out"
    BY InFlightAt DEF SignedOut, Caller
  <1>2. /\ call' = [call EXCEPT ![p] = Silent] /\ jar' = 0 /\ access' = FALSE
        /\ screen' = [screen EXCEPT ![p] = "login"]
        /\ UNCHANGED <<token, expired, lastToken, active, left, over, disturbed, astray>>
    BY DEF SignedOut
  <1>3. InFlight' = InFlight \ {p} /\ call' \in [Caller -> {Silent} \cup Request]
    BY <1>1, <1>2, CallEnds
  <1>4. SessionsTypeOK'
    BY <1>2, <1>3 DEF SessionsTypeOK, Request
  <1>5. Minted' /\ Lasting'
    BY <1>2 DEF Minted, Lasting
  <1>6. Quiet'
    <2> SUFFICES ASSUME ~disturbed PROVE Quiet'
      BY <1>2 DEF Quiet
    <2>1. InFlight' = {} /\ token \ left = {} /\ over
      BY <1>1, <1>3, Alone DEF Fits
    <2> QED
      BY <1>2, <2>1 DEF Quiet, Held
  <1> QED
    BY <1>4, <1>5, <1>6

\* Time and the administrators end sessions; they move no call and no token.
LEMMA WorldKeeps ==
    ASSUME SessionsInv,
           \/ AccessExpires
           \/ \E k \in token : TokenExpires(k)
           \/ \E b \in BOOLEAN : SetActive(b)
    PROVE  SessionsInv'
  <1> USE DEF SessionsInv
  <1>1. /\ UNCHANGED <<token, lastToken, jar, call, screen, left, disturbed, astray>>
        /\ over' \in {over, TRUE}
    BY DEF AccessExpires, TokenExpires, SetActive, SessionsTypeOK
  <1>2. SessionsTypeOK' /\ Minted'
    BY DEF AccessExpires, TokenExpires, SetActive, SessionsTypeOK, Minted
  <1>3. Lasting'
    BY DEF AccessExpires, TokenExpires, SetActive, Lasting
  <1>4. over' \in BOOLEAN
    BY <1>2 DEF SessionsTypeOK
  <1>5. \A c \in InFlight : Fits(c) => Fits(c)'
    BY <1>1 DEF Fits, Held
  <1>6. Quiet'
    BY <1>1, <1>5 DEF Quiet, Held, InFlight
  <1> QED
    BY <1>2, <1>3, <1>6

LEMMA SessionsInvInit == SessionsInit => SessionsInv
  <1> SUFFICES ASSUME SessionsInit PROVE SessionsInv
    OBVIOUS
  <1> USE SessionsConstants DEF SessionsInit
  <1>1. InFlight = {}
    BY DEF InFlight
  <1>2. SessionsTypeOK
    <2>1. call \in [Caller -> {Silent} \cup Request] /\ screen \in [Page -> {"login", "app"}]
      OBVIOUS
    <2>2. lastToken \in 0..MaxToken /\ jar \in 0..MaxToken
      OBVIOUS
    <2>3. token \subseteq 1..MaxToken /\ expired \subseteq 1..MaxToken /\ left \subseteq 1..MaxToken
      OBVIOUS
    <2>4. /\ access \in BOOLEAN /\ active \in BOOLEAN
          /\ over \in BOOLEAN /\ disturbed \in BOOLEAN /\ astray \in BOOLEAN
      OBVIOUS
    <2> QED
      BY <2>1, <2>2, <2>3, <2>4 DEF SessionsTypeOK, Request
  <1>3. Minted /\ Lasting
    BY DEF Minted, Lasting
  <1>4. Quiet
    BY <1>1 DEF Quiet, Held
  <1> QED
    BY <1>2, <1>3, <1>4 DEF SessionsInv

LEMMA SessionsInvStep == SessionsInv /\ [SessionsNext]_sessionsVars => SessionsInv'
  <1> SUFFICES ASSUME SessionsInv, [SessionsNext]_sessionsVars PROVE SessionsInv'
    OBVIOUS
  <1>1. CASE SessionsNext
    BY <1>1, SignInKeeps, VisitKeeps, NoCookieKeeps, SignOutKeeps, DeleteTokenKeeps,
       SignedOutKeeps, AskRefreshKeeps, CheckTokenKeeps, RotateTokenKeeps, TakeAnswerKeeps,
       LoseAnswerKeeps, WorldKeeps DEF SessionsNext
  <1>2. CASE UNCHANGED sessionsVars
    BY <1>2 DEF sessionsVars, SessionsInv, SessionsTypeOK, Minted, Lasting, Quiet, Held, Fits,
                InFlight
  <1> QED
    BY <1>1, <1>2

LEMMA SessionsInvHolds == SessionsSpec => []SessionsInv
  <1> QED
    BY SessionsInvInit, SessionsInvStep, PTL DEF SessionsSpec

\* Cookies, tokens and calls stay within their types, however calls cross
\* (security.py:159-203, auth.py:408-476).
THEOREM SessionsAreTyped == SessionsSpec => []SessionsTypeOK
  BY SessionsInvHolds, PTL DEF SessionsInv

\* Between requests the browser's cookie is the one live token of its session, and
\* no page is sent to sign in while the session lasts, unless calls overlapped or an
\* answer was lost: for any number of tabs, timers and refreshes.
THEOREM SessionsAreWhole == SessionsSpec => []SessionIsWhole
  <1>1. SessionsInv => SessionIsWhole
    BY DEF SessionsInv, Quiet, Held, SessionIsWhole
  <1> QED
    BY <1>1, SessionsInvHolds, PTL
-----------------------------------------------------------------------------
OverridesType == [grants : SUBSET Permission, revokes : SUBSET Permission]
UserType == [role : AnyRole, active : BOOLEAN, overrides : OverridesType]

\* What requests in flight carry.  A deletion counted administrators: besides the
\* user it is about there is one, unless the guard was passed by before.
TaskType ==
    /\ DOMAIN task = Clerk
    /\ \A k \in Clerk :
          /\ task[k].do = "update" =>
                /\ task[k].account \in DOMAIN user
                /\ task[k].row \in UserType
                /\ task[k].form \in Form
          /\ task[k].do = "delete" =>
                /\ task[k].account \in DOMAIN user
                /\ unguarded \/ \E b \in task[k].admins : b # task[k].account

UsersInv == UsersTypeOK /\ TaskType /\ ChosenIsGranted /\ AdminRemains
-----------------------------------------------------------------------------
(* Operators.                                                               *)

\* A field that is given holds a value of its type.
LEMMA GivenType ==
    ASSUME NEW S, NEW field, NEW old \in S, field = {} \/ \E x \in S : field = {x}
    PROVE  Given(field, old) \in S
  BY DEF Given

LEMMA ExpandType ==
    ASSUME NEW S \in SUBSET Permission
    PROVE  Expand(S) \in SUBSET Permission
  BY UsersConstants DEF Expand

LEMMA RoleDefaultType ==
    ASSUME NEW role \in Position
    PROVE  RoleDefault(role) \in SUBSET Permission
  BY ExpandType, UsersConstants DEF RoleDefault

LEMMA OverridesAreTyped ==
    ASSUME NEW role \in AnyRole, NEW ticked \in SUBSET Permission
    PROVE  Overrides(role, ticked) \in OverridesType
  <1>1. CASE role = "admin"
    BY <1>1 DEF Overrides, NoOverrides, OverridesType
  <1>2. CASE role # "admin"
    <2>1. RoleDefault(role) \in SUBSET Permission
      BY <1>2, RoleDefaultType DEF AnyRole
    <2> QED
      BY <1>2, <2>1 DEF Overrides, OverridesType
  <1> QED
    BY <1>1, <1>2

\* What is stored for a choice that parts no page from what it brings along reads
\* back as that choice, whatever the role has by default.
LEMMA StoredReadsBack ==
    ASSUME NEW role \in Position, NEW ticked \in SUBSET Permission, Whole(ticked),
           NEW u, u.role = role, u.overrides = Overrides(role, ticked)
    PROVE  Effective(u) = ticked
  <1> DEFINE D == RoleDefault(role)
  <1>1. role # "admin"
    BY UsersConstants
  <1>2. D \in SUBSET Permission
    BY RoleDefaultType
  <1>3. /\ u.overrides.grants = ticked \ D
        /\ u.overrides.revokes = D \ ticked
    BY <1>1 DEF Overrides
  <1>4. Expand(ticked \ D) \subseteq ticked
    BY DEF Expand, Whole
  <1>5. Expand(D \ ticked) \cap ticked = {}
    BY <1>2 DEF Expand, Whole
  <1>6. ticked \ D \subseteq Expand(ticked \ D) /\ D \ ticked \subseteq Expand(D \ ticked)
    BY DEF Expand
  <1>7. Effective(u) = (D \cup Expand(ticked \ D)) \ Expand(D \ ticked)
    BY <1>1, <1>3 DEF Effective
  <1> HIDE DEF D
  <1> QED
    BY <1>4, <1>5, <1>6, <1>7
-----------------------------------------------------------------------------
LEMMA UsersInvInit == UsersInit => UsersInv
  <1> SUFFICES ASSUME UsersInit PROVE UsersInv
    OBVIOUS
  <1> USE UsersConstants DEF UsersInit
  <1>1. UsersTypeOK
    BY DEF UsersTypeOK, AnyRole, NoOverrides
  <1>2. TaskType
    BY DEF TaskType, Waiting
  <1>3. ChosenIsGranted
    BY DEF ChosenIsGranted
  <1>4. AdminRemains
    BY DEF AdminRemains, Admins
  <1> QED
    BY <1>1, <1>2, <1>3, <1>4 DEF UsersInv
-----------------------------------------------------------------------------
(* Steps.                                                                   *)

\* A user whose row, choice and history a step leaves alone keeps being granted
\* what was chosen.
LEMMA OthersKeepTheirs ==
    ASSUME ChosenIsGranted, NEW a \in DOMAIN user', a \in DOMAIN user, a \notin carried,
           user'[a] = user[a], chosen'[a] = chosen[a],
           user'[a].role # "admin", Whole(chosen'[a])
    PROVE  Effective(user'[a]) = chosen'[a]
  BY DEF ChosenIsGranted

LEMMA AdmitKeeps ==
    ASSUME UsersInv, NEW k \in Clerk, NEW by \in Account, Admit(k, by)
    PROVE  UsersInv'
  <1> USE DEF UsersInv, Admit
  <1>1. UsersTypeOK'
    BY DEF UsersTypeOK
  <1>2. TaskType'
    BY DEF TaskType
  <1>3. ChosenIsGranted'
    BY DEF ChosenIsGranted
  <1>4. AdminRemains'
    BY DEF AdminRemains, Admins
  <1> QED
    BY <1>1, <1>2, <1>3, <1>4

LEMMA CreateKeeps ==
    ASSUME UsersInv, NEW k \in Clerk, NEW a \in Account, NEW form \in Form,
           CreateUser(k, a, form)
    PROVE  UsersInv'
  <1> DEFINE role == Given(form.role, Entry)
             ticked == Given(form.ticked, {})
  <1>1. role \in AnyRole
    BY UsersConstants, GivenType DEF AnyRole
  <1>2. ticked \in SUBSET Permission
    BY UsersConstants, GivenType
  <1>3. Given(form.active, TRUE) \in BOOLEAN
    BY UsersConstants, GivenType
  <1>4. Overrides(role, ticked) \in OverridesType
    BY <1>1, <1>2, OverridesAreTyped
  <1>5. /\ a \notin DOMAIN user
        /\ DOMAIN user' = DOMAIN user \cup {a}
        /\ user'[a] = [role |-> role, active |-> Given(form.active, TRUE),
                       overrides |-> Overrides(role, ticked)]
        /\ \A b \in DOMAIN user : user'[b] = user[b]
        /\ chosen' = [chosen EXCEPT ![a] = ticked]
        /\ task' = [task EXCEPT ![k] = Waiting]
        /\ carried' = carried /\ unguarded' = unguarded
    BY DEF CreateUser
  <1> HIDE DEF role, ticked
  <1> USE DEF UsersInv
  <1>6. UsersTypeOK'
    <2>1. user'[a] \in UserType
      <3> DEFINE act == Given(form.active, TRUE)
                 kept == Overrides(role, ticked)
      <3>1. user'[a] = [role |-> role, active |-> act, overrides |-> kept]
        BY <1>5
      <3>2. act \in BOOLEAN /\ kept \in OverridesType
        BY <1>3, <1>4
      <3> HIDE DEF act, kept
      <3> QED
        BY <1>1, <3>1, <3>2 DEF UserType
    <2>2. \A b \in DOMAIN user' : user'[b] \in UserType
      BY <1>5, <2>1 DEF UsersTypeOK, UserType, OverridesType
    <2>3. DOMAIN user' \subseteq Account /\ chosen' \in [Account -> SUBSET Permission]
      BY <1>2, <1>5 DEF UsersTypeOK
    <2> QED
      BY <1>5, <2>2, <2>3 DEF UsersTypeOK, UserType, OverridesType
  <1>7. TaskType'
    BY <1>5 DEF TaskType, Waiting
  <1>8. ChosenIsGranted'
    <2> SUFFICES ASSUME NEW b \in DOMAIN user', b \notin carried',
                        user'[b].role # "admin", Whole(chosen'[b])
                 PROVE  Effective(user'[b]) = chosen'[b]
      BY DEF ChosenIsGranted, Effective, Whole
    <2>1. CASE b = a
      <3>1. chosen'[a] = ticked
        BY <1>5 DEF UsersTypeOK
      <3>2. role \in Position
        BY <1>1, <1>5, <2>1 DEF AnyRole
      <3> QED
        BY <1>2, <1>5, <2>1, <3>1, <3>2, StoredReadsBack
    <2>2. CASE b # a
      BY <1>5, <2>2, OthersKeepTheirs DEF UsersTypeOK
    <2> QED
      BY <2>1, <2>2
  <1>9. AdminRemains'
    BY <1>5 DEF AdminRemains, Admins
  <1> QED
    BY <1>6, <1>7, <1>8, <1>9

LEMMA ReadUserKeeps ==
    ASSUME UsersInv, NEW k \in Clerk, NEW a \in Account, NEW form \in Form,
           ReadUser(k, a, form)
    PROVE  UsersInv'
  <1> USE DEF UsersInv, ReadUser
  <1>1. UsersTypeOK'
    BY DEF UsersTypeOK
  <1>2. TaskType'
    BY DEF TaskType, UsersTypeOK, UserType, OverridesType
  <1>3. ChosenIsGranted'
    BY DEF ChosenIsGranted
  <1>4. AdminRemains'
    BY DEF AdminRemains, Admins
  <1> QED
    BY <1>1, <1>2, <1>3, <1>4

LEMMA ReadDeletionKeeps ==
    ASSUME UsersInv, NEW k \in Clerk, NEW a \in Account, ReadDeletion(k, a)
    PROVE  UsersInv'
  <1> USE DEF UsersInv, ReadDeletion
  <1>1. UsersTypeOK'
    BY DEF UsersTypeOK
  <1>2. unguarded \/ \E b \in Admins : b # a
    <2> SUFFICES ASSUME ~unguarded, \A b \in Admins : b = a
                 PROVE  FALSE
      OBVIOUS
    <2>1. Admins = {a}
      BY DEF AdminRemains
    <2>2. Cardinality(Admins) = 1
      BY <2>1, FS_Singleton
    <2>3. Cardinality(Admins) > 1
      BY <2>1 DEF Spare
    <2> QED
      BY <2>2, <2>3
  <1>3. TaskType'
    BY <1>2 DEF TaskType
  <1>4. ChosenIsGranted'
    BY DEF ChosenIsGranted
  <1>5. AdminRemains'
    BY DEF AdminRemains, Admins
  <1> QED
    BY <1>1, <1>3, <1>4, <1>5

LEMMA WriteDeletionKeeps ==
    ASSUME UsersInv, NEW k \in Clerk, WriteDeletion(k)
    PROVE  UsersInv'
  <1> DEFINE a == task[k].account
  <1> USE DEF UsersInv
  <1>1. /\ a \in DOMAIN user
        /\ user' = [user EXCEPT ![a].active = FALSE]
        /\ unguarded' = (unguarded \/ ~(task[k].admins \subseteq Admins))
        /\ task' = [task EXCEPT ![k] = Waiting]
        /\ chosen' = chosen /\ carried' = carried
        /\ unguarded \/ \E b \in task[k].admins : b # a
    BY DEF WriteDeletion, TaskType
  <1> HIDE DEF a
  <1>2. /\ DOMAIN user' = DOMAIN user
        /\ \A b \in DOMAIN user : b # a => user'[b] = user[b]
        /\ user'[a].role = user[a].role /\ user'[a].overrides = user[a].overrides
    BY <1>1 DEF UsersTypeOK
  <1>3. UsersTypeOK'
    BY <1>1 DEF UsersTypeOK
  <1>4. TaskType'
    BY <1>1, <1>2 DEF TaskType, Waiting, UsersTypeOK
  <1>5. ChosenIsGranted'
    BY <1>1, <1>2 DEF ChosenIsGranted, Effective, Whole
  <1>6. AdminRemains'
    BY <1>1, <1>2 DEF AdminRemains, Admins
  <1> QED
    BY <1>3, <1>4, <1>5, <1>6

LEMMA WriteUserKeeps ==
    ASSUME UsersInv, NEW k \in Clerk, WriteUser(k)
    PROVE  UsersInv'
  <1> DEFINE t == task[k]
             a == t.account
             f == t.form
             role == Given(f.role, t.row.role)
             asked == [role |-> role,
                       active |-> Given(f.active, t.row.active),
                       overrides |-> IF f.ticked = {} THEN t.row.overrides
                                     ELSE Overrides(role, Given(f.ticked, {}))]
             row == [x \in DOMAIN user[a] |->
                       IF asked[x] # t.row[x] THEN asked[x] ELSE user[a][x]]
  <1> USE DEF UsersInv
  <1>1. /\ a \in DOMAIN user /\ t.row \in UserType /\ f \in Form
        /\ a \in Account /\ user[a] \in UserType
    BY DEF WriteUser, TaskType, UsersTypeOK, UserType, OverridesType
  <1>2. role \in AnyRole
    <2>1. t.row.role \in AnyRole
      BY <1>1 DEF UserType
    <2>2. f.role = {} \/ \E r \in AnyRole : f.role = {r}
      BY <1>1, UsersConstants DEF AnyRole
    <2> QED
      BY <2>1, <2>2, GivenType
  <1>3. Given(f.ticked, {}) \in SUBSET Permission
    BY <1>1, UsersConstants, GivenType
  <1>4. asked \in UserType
    <2>1. Given(f.active, t.row.active) \in BOOLEAN
      BY <1>1, UsersConstants, GivenType DEF UserType
    <2>2. Overrides(role, Given(f.ticked, {})) \in OverridesType
      BY <1>2, <1>3, OverridesAreTyped
    <2> QED
      BY <1>1, <1>2, <2>1, <2>2 DEF UserType
  <1>5. user' = [user EXCEPT ![a] = row]
    BY DEF WriteUser
  <1>6. /\ chosen' = [chosen EXCEPT ![a] = Given(f.ticked, @)]
        /\ carried' = IF user[a] # t.row \/ (f.ticked = {} /\ row.role # user[a].role)
                      THEN carried \cup {a}
                      ELSE IF f.ticked # {} THEN carried \ {a} ELSE carried
        /\ unguarded' = (unguarded \/ (a \in Admins /\ ~(row.role = "admin" /\ row.active)))
        /\ task' = [task EXCEPT ![k] = Waiting]
    BY DEF WriteUser
  <1>7. /\ f.ticked = {} => asked.overrides = t.row.overrides
        /\ f.ticked # {} => asked.overrides = Overrides(asked.role, Given(f.ticked, {}))
    OBVIOUS
  <1>8. /\ row \in UserType
        /\ user[a] = t.row => row = asked
    <2> HIDE DEF asked
    <2> QED
      BY <1>1, <1>4 DEF UserType
  <1>9. Given(f.ticked, chosen[a]) \in SUBSET Permission
    BY <1>1, UsersConstants, GivenType DEF UsersTypeOK
  <1>10. f.ticked # {} => Given(f.ticked, chosen[a]) = Given(f.ticked, {})
    BY DEF Given
  <1>11. f.ticked = {} => Given(f.ticked, chosen[a]) = chosen[a]
    BY DEF Given
  <1> HIDE DEF row, asked, role, f, a
  <1>12. UsersTypeOK'
    BY <1>1, <1>5, <1>6, <1>8, <1>9 DEF UsersTypeOK, UserType, OverridesType
  <1>13. TaskType'
    BY <1>5, <1>6, <1>8 DEF TaskType, Waiting, UsersTypeOK
  <1>14. ChosenIsGranted'
    <2> SUFFICES ASSUME NEW b \in DOMAIN user', b \notin carried',
                        user'[b].role # "admin", Whole(chosen'[b])
                 PROVE  Effective(user'[b]) = chosen'[b]
      BY DEF ChosenIsGranted, Effective, Whole
    <2>1. CASE b # a
      BY <1>5, <1>6, <2>1, OthersKeepTheirs DEF UsersTypeOK
    <2>2. CASE b = a /\ f.ticked = {}
      <3>1. user[a] = t.row /\ row.role = user[a].role /\ a \notin carried
        BY <1>6, <2>2
      <3>2. row = asked /\ asked.overrides = user[a].overrides
        BY <1>7, <1>8, <2>2, <3>1
      <3>3. user'[a] = row /\ chosen'[a] = chosen[a]
        BY <1>1, <1>5, <1>6, <1>11, <2>2 DEF UsersTypeOK
      <3>4. Effective(user[a]) = chosen[a]
        BY <1>1, <2>2, <3>1, <3>3 DEF ChosenIsGranted
      <3> QED
        BY <2>2, <3>1, <3>2, <3>3, <3>4 DEF Effective
    <2>3. CASE b = a /\ f.ticked # {}
      <3>1. user[a] = t.row
        BY <1>6, <2>3
      <3>2. user'[a] = asked
        BY <1>1, <1>5, <1>8, <3>1
      <3>3. chosen'[a] = Given(f.ticked, {})
        BY <1>1, <1>6, <1>10, <2>3 DEF UsersTypeOK
      <3>4. asked.role \in Position
        BY <1>4, <2>3, <3>2 DEF AnyRole, UserType
      <3> QED
        BY <1>3, <1>7, <2>3, <3>2, <3>3, <3>4, StoredReadsBack
    <2> QED
      BY <2>1, <2>2, <2>3
  <1>15. AdminRemains'
    BY <1>1, <1>5, <1>6, <1>8 DEF AdminRemains, Admins
  <1> QED
    BY <1>12, <1>13, <1>14, <1>15
-----------------------------------------------------------------------------
LEMMA UsersInvStep == UsersInv /\ [UsersNext]_usersVars => UsersInv'
  <1> SUFFICES ASSUME UsersInv, [UsersNext]_usersVars PROVE UsersInv'
    OBVIOUS
  <1>1. CASE UsersNext
    <2> PICK k \in Clerk :
            \/ \E by \in Account : Admit(k, by)
            \/ \E a \in Account, form \in Form : CreateUser(k, a, form) \/ ReadUser(k, a, form)
            \/ WriteUser(k)
            \/ \E a \in Account : ReadDeletion(k, a)
            \/ WriteDeletion(k)
      BY <1>1 DEF UsersNext
    <2> QED
      BY AdmitKeeps, CreateKeeps, ReadUserKeeps, WriteUserKeeps, ReadDeletionKeeps,
         WriteDeletionKeeps
  <1>2. CASE UNCHANGED usersVars
    BY <1>2 DEF usersVars, UsersInv, UsersTypeOK, TaskType, ChosenIsGranted, AdminRemains,
                Admins
  <1> QED
    BY <1>1, <1>2

LEMMA UsersInvHolds == UsersSpec => []UsersInv
  <1> QED
    BY UsersInvInit, UsersInvStep, PTL DEF UsersSpec

\* Rows of users, their choices and histories stay within their types: a saved row
\* mixes columns of two readings and is a row still (users.py:186-208).
THEOREM UsersAreTyped == UsersSpec => []UsersTypeOK
  BY UsersInvHolds, PTL DEF UsersInv

\* A user may do exactly what was last ticked for them, for any roles, defaults
\* and pages that bring others along (permissions.py:58-100).
THEOREM ChoicesAreGranted == UsersSpec => []ChosenIsGranted
  BY UsersInvHolds, PTL DEF UsersInv

\* Deletions leave an active administrator, however many requests overlap, unless
\* an update took one or two deletions crossed (users.py:211-229).
THEOREM AnAdminRemains == UsersSpec => []AdminRemains
  BY UsersInvHolds, PTL DEF UsersInv
=============================================================================
