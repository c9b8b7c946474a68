---------------------------- MODULE AuthSession ----------------------------
(***************************************************************************)
(* How a candidate stays signed in: the tabs of one browser with the axios *)
(* interceptor of each, the cookies and the auth_role they share, and the  *)
(* views that check, rotate, set and delete the two tokens.                *)
(*                                                                         *)
(* A request carries the cookies of the moment it is sent, is served at    *)
(* some later moment and answered at another.  Tokens are numbered in the  *)
(* order of their creation, access and refresh tokens alike; 0 is no       *)
(* cookie.  A page that was left by a hard redirect is gone: what it sent  *)
(* is served, and nothing hears the answer.                                *)
(***************************************************************************)
EXTENDS Integers

CONSTANTS
    None,
    Tabs,
    Calls,      \* calls of pages to the API, each made once
    Plans,      \* what the users of the tabs may set out to do: functions
                \* from tabs to sets of calls, "login" and "logout"
    Expiring    \* bound: access tokens up to this one may expire

Kinds == Calls \cup {"me", "refresh", "login", "logout"}

ASSUME AuthAssumption ==
    /\ Calls \cap {"me", "refresh", "login", "logout"} = {} /\ None \notin Nat
    /\ Plans \subseteq [Tabs -> SUBSET (Calls \cup {"login", "logout"})]
    /\ Expiring \in Nat

VARIABLES
    plan,       \* the plan of this behaviour
    jar,        \* the cookies access_token and refresh_token
    role,       \* localStorage has an auth_role
    tokens,     \* tokens created so far
    expired,    \* access tokens up to this one have expired
    dead,       \* refresh tokens on the blacklist
    page,       \* tab -> "closed", "open" or "gone"
    user,       \* tabs whose store has a user
    refreshing, \* tabs with isRefreshing set
    retried,    \* calls with _retry set
    mail,       \* request -> where it is, its cookies, its answer
    crossed,    \* history: a request came with a token rotated before, or the
                \* answer to a rotation was lost
    over        \* history: the user signed out

server == <<tokens, expired, dead>>
tabs == <<page, user, refreshing, retried>>
vars == <<plan, jar, role, server, tabs, mail, crossed, over>>

Requests == Tabs \X Kinds
Cookies == [access : Nat, refresh : Nat]
Leave == [access |-> None, refresh |-> None]    \* an answer without Set-Cookie
Unsent == [phase |-> "idle", cookies |-> [access |-> 0, refresh |-> 0],
           status |-> 0, set |-> Leave]

-----------------------------------------------------------------------------
(* The server *)

Valid(c) == [access |-> c.access > expired, refresh |-> c.refresh \notin dead]

\* ClearExpiredJWTCookiesMiddleware: whatever a view sets, the cookies of the
\* request that are no longer valid are deleted by its answer.
Clear(c, set) ==
    [access |-> IF c.access # 0 /\ ~Valid(c).access THEN 0 ELSE set.access,
     refresh |-> IF c.refresh # 0 /\ ~Valid(c).refresh THEN 0 ELSE set.refresh]

Answer(q, status, set) ==
    mail' = [mail EXCEPT ![q].phase = "served", ![q].status = status,
                         ![q].set = Clear(mail[q].cookies, set)]

Pair(n) == [access |-> n, refresh |-> n]

\* Mutant: the rotated refresh token is not stored.
AccessOnly(n) == [access |-> n, refresh |-> None]

Rotated(n) == [access |-> n, refresh |-> n]

\* CookieJWTAuthentication lets the request through without a user, and the
\* view asks for one.
ServeCall(q) ==
    LET c == mail[q].cookies
    IN  /\ q[2] \in Calls \cup {"me"}
        /\ Answer(q, IF c.access # 0 /\ Valid(c).access THEN 200 ELSE 401, Leave)
        /\ UNCHANGED <<server, over>>

\* UserCookieTokenRefreshView.  The TokenError of a token that is expired or
\* blacklisted is caught by nobody.
ServeRefresh(q) ==
    LET c == mail[q].cookies
    IN  /\ q[2] = "refresh"
        /\ IF c.refresh # 0 /\ Valid(c).refresh
           THEN /\ Answer(q, 200, Rotated(tokens + 1))
                /\ tokens' = tokens + 1
                /\ dead' = dead \cup {c.refresh}
           ELSE /\ Answer(q, IF c.refresh = 0 THEN 401 ELSE 500, Leave)
                /\ UNCHANGED <<tokens, dead>>
        /\ UNCHANGED <<expired, over>>

ServeLogin(q) ==
    /\ q[2] = "login"
    /\ Answer(q, 200, Pair(tokens + 1))
    /\ tokens' = tokens + 1
    /\ UNCHANGED <<expired, dead, over>>

Blacklisted(c) == {c.refresh} \ {0}

ServeLogout(q) ==
    /\ q[2] = "logout"
    /\ Answer(q, 200, [access |-> 0, refresh |-> 0])
    /\ dead' = dead \cup Blacklisted(mail[q].cookies)
    /\ over' = TRUE
    /\ UNCHANGED <<tokens, expired>>

Serve(q) ==
    /\ mail[q].phase = "sent"
    /\ ServeCall(q) \/ ServeRefresh(q) \/ ServeLogin(q) \/ ServeLogout(q)
    /\ crossed' = (crossed \/ mail[q].cookies.refresh \in dead)
    /\ UNCHANGED <<jar, role, tabs>>

\* ACCESS_TOKEN_LIFETIME
Expire ==
    /\ expired < tokens /\ tokens <= Expiring
    /\ expired' = tokens
    /\ UNCHANGED <<jar, role, tokens, dead, tabs, mail, crossed, over>>

-----------------------------------------------------------------------------
(* A tab *)

Stored(set) == [access |-> IF set.access = None THEN jar.access ELSE set.access,
                refresh |-> IF set.refresh = None THEN jar.refresh ELSE set.refresh]

Sent(cookies) == [phase |-> "sent", cookies |-> cookies, status |-> 0, set |-> Leave]

Request(q) ==
    /\ page[q[1]] = "open" /\ mail[q].phase = "idle"
    /\ mail' = [mail EXCEPT ![q] = Sent(jar)]
    /\ UNCHANGED <<jar, role, server, user, refreshing, retried, crossed, over>>

\* AppInner shows nothing before fetchUser has come back.
Loaded(t) == mail[<<t, "me">>].phase = "done"

Open(t) ==
    /\ page[t] = "closed"
    /\ page' = [page EXCEPT ![t] = "open"]
    /\ mail' = [mail EXCEPT ![<<t, "me">>] = Sent(jar)]
    /\ UNCHANGED <<jar, role, server, user, refreshing, retried, crossed, over>>

\* ProtectedRoute renders a page for a user only.
Call(t, k) ==
    /\ k \in Calls \cap plan[t] /\ Loaded(t) /\ t \in user
    /\ Request(<<t, k>>) /\ UNCHANGED page

\* The modal of ProtectedRoute or AuthGate leads to the login page.
Login(t) ==
    /\ "login" \in plan[t] /\ Loaded(t) /\ (t \notin user \/ ~role)
    /\ Request(<<t, "login">>) /\ UNCHANGED page

Logout(t) ==
    /\ "logout" \in plan[t] /\ t \in user
    /\ Request(<<t, "logout">>) /\ UNCHANGED page

\* The answer's cookies are stored, and the promise of the request goes on.
Hear(q) ==
    /\ page[q[1]] = "open" /\ mail[q].phase = "served"
    /\ jar' = Stored(mail[q].set)
    /\ UNCHANGED <<server, over>>

At(phase) == [phase |-> phase, cookies |-> Unsent.cookies, status |-> 0, set |-> Leave]
End(q, phase) == mail' = [mail EXCEPT ![q] = At(phase)]

HearUser(t) ==
    LET q == <<t, "me">>
    IN  /\ Hear(q) /\ End(q, "done")
        /\ user' = IF mail[q].status = 200 THEN user \cup {t} ELSE user \ {t}
        /\ UNCHANGED <<role, page, refreshing, retried, crossed>>

HearLogin(t) ==
    /\ Hear(<<t, "login">>) /\ End(<<t, "login">>, "done")
    /\ role' = TRUE /\ user' = user \cup {t}
    /\ UNCHANGED <<page, refreshing, retried, crossed>>

HearLogout(t) ==
    /\ Hear(<<t, "logout">>) /\ End(<<t, "logout">>, "done")
    /\ role' = FALSE /\ user' = user \ {t}
    /\ UNCHANGED <<page, refreshing, retried, crossed>>

\* Mutant: only the first call waits for the refresh.
RefreshForFirst(q) ==
    LET t == q[1]
    IN  IF t \in refreshing
        THEN End(q, "failed") /\ UNCHANGED refreshing
        ELSE /\ mail' = [mail EXCEPT ![q] = At("waiting"), ![<<t, "refresh">>] = Sent(jar')]
             /\ refreshing' = refreshing \cup {t}

\* A call that finds no valid access token starts the refresh of its tab, or
\* waits for the one that runs.
RefreshFor(q) ==
    LET t == q[1]
    IN  IF t \in refreshing
        THEN End(q, "queued") /\ UNCHANGED refreshing
        ELSE /\ mail' = [mail EXCEPT ![q] = At("waiting"), ![<<t, "refresh">>] = Sent(jar')]
             /\ refreshing' = refreshing \cup {t}

HearCall(q) ==
    /\ q[2] \in Calls /\ Hear(q)
    /\ IF mail[q].status = 200
       THEN End(q, "done") /\ UNCHANGED <<refreshing, retried>>
       ELSE /\ retried' = retried \cup {q}
            /\ IF q \in retried \/ ~role
               THEN End(q, "failed") /\ UNCHANGED refreshing
               ELSE RefreshFor(q)
    /\ UNCHANGED <<role, page, user, crossed>>

Waiting(t, phases) == {q \in {t} \X Calls : mail[q].phase \in phases}

\* Mutant: isRefreshing stays set.
StillRefreshing(t) == refreshing

NotRefreshing(t) == refreshing \ {t}

\* onRefreshSuccess
HearRefreshed(t) ==
    LET q == <<t, "refresh">>
    IN  /\ Hear(q) /\ mail[q].status = 200
        /\ mail' = [o \in Requests |->
                        IF o = q THEN Unsent
                        ELSE IF o \in Waiting(t, {"queued", "waiting"}) THEN Sent(jar')
                        ELSE mail[o]]
        /\ refreshing' = NotRefreshing(t)
        /\ UNCHANGED <<role, page, user, retried, crossed>>

\* onRefreshFailure forgets who waits.  The answer 500 has sent the page to
\* /error/500 before.
HearRefusal(t) ==
    LET q == <<t, "refresh">>
    IN  /\ Hear(q) /\ mail[q].status # 200
        /\ mail' = [o \in Requests |->
                        IF o = q THEN Unsent
                        ELSE IF o \in Waiting(t, {"queued"}) THEN At("forgotten")
                        ELSE IF o \in Waiting(t, {"waiting"}) THEN At("failed")
                        ELSE mail[o]]
        /\ refreshing' = NotRefreshing(t)
        /\ role' = FALSE
        /\ page' = [page EXCEPT ![t] = IF mail[q].status = 500 THEN "gone" ELSE @]
        /\ UNCHANGED <<user, retried, crossed>>

\* No answer: the page goes to /error/network, and with it all its requests.
Lose(t) ==
    /\ page[t] = "open"
    /\ \E k \in Kinds : mail[<<t, k>>].phase \in {"sent", "served"}
    /\ page' = [page EXCEPT ![t] = "gone"]
    /\ crossed' = (crossed \/ t \in refreshing)
    /\ UNCHANGED <<jar, role, server, user, refreshing, retried, mail, over>>

-----------------------------------------------------------------------------
(* Specification *)

\* The user has signed in before, and closed the browser.
Init ==
    /\ plan \in Plans
    /\ jar = Pair(1) /\ role = TRUE
    /\ tokens = 1 /\ expired = 0 /\ dead = {}
    /\ page = [t \in Tabs |-> "closed"]
    /\ user = {} /\ refreshing = {} /\ retried = {}
    /\ mail = [q \in Requests |-> Unsent]
    /\ crossed = FALSE /\ over = FALSE

HearAny(t) ==
    \/ HearUser(t) \/ HearLogin(t) \/ HearLogout(t) \/ HearRefreshed(t) \/ HearRefusal(t)
    \/ \E k \in Calls : HearCall(<<t, k>>)

User(t) == Open(t) \/ Login(t) \/ Logout(t) \/ \E k \in Calls : Call(t, k)

Next ==
    \/ \E q \in Requests : Serve(q)
    \/ \E t \in Tabs : HearAny(t) \/ User(t) \/ Lose(t)
    \/ Expire

Spec == Init /\ [][Next /\ UNCHANGED plan]_vars

\* Requests are served and answers heard; no page makes an unbounded number
\* of requests.
FairSpec ==
    /\ Spec
    /\ WF_vars(UNCHANGED plan /\ ((\E q \in Requests : Serve(q)) \/ (\E t \in Tabs : HearAny(t))))

-----------------------------------------------------------------------------
(* Correctness *)

Mail ==
    [phase : {"idle", "sent", "served", "queued", "waiting", "done", "failed", "forgotten"},
     cookies : Cookies, status : {0, 200, 401, 500},
     set : [access : Nat \cup {None}, refresh : Nat \cup {None}]]

TypeOK ==
    /\ plan \in Plans
    /\ jar \in Cookies /\ role \in BOOLEAN
    /\ tokens \in Nat /\ expired \in Nat /\ dead \subseteq Nat \ {0}
    /\ page \in [Tabs -> {"closed", "open", "gone"}]
    /\ user \subseteq Tabs /\ refreshing \subseteq Tabs /\ retried \subseteq Requests
    /\ mail \in [Requests -> Mail]
    /\ crossed \in BOOLEAN /\ over \in BOOLEAN

\* The browser that stays signed in holds a refresh token that is good, or
\* one is on its way: what can lose it is a rotation that overtakes another
\* request with the same token, of this tab or another, or whose answer is
\* not heard.  Expiry, retries and a second login do not.
OnItsWay ==
    \E q \in Requests : /\ page[q[1]] = "open" /\ mail[q].phase = "served"
                        /\ mail[q].set.refresh \notin {None, 0} \cup dead

SessionKept ==
    role /\ ~crossed /\ ~over => jar.refresh \notin dead \cup {0} \/ OnItsWay

\* Calls go through an expiry of the access token: none is refused before
\* the user has signed out, unless the session was lost in a crossing or the
\* token the call was repeated with has expired in its turn.
CallsSurvive ==
    [][\A q \in Tabs \X Calls :
          mail'[q].phase \in {"failed", "forgotten"} =>
              \/ mail[q].phase \in {"failed", "forgotten"}
              \/ crossed \/ over
              \/ q \in retried /\ mail[q].phase = "served" /\ mail[q].cookies.access <= expired]_vars

\* No call waits for ever: it is answered, refused, or forgotten by a refresh
\* that failed, unless its page is gone.
Pending == {q \in Tabs \X Calls :
                page[q[1]] = "open" /\ mail[q].phase \in {"sent", "served", "queued", "waiting"}}

CallsSettle == Pending # {} ~> Pending = {}

=============================================================================
